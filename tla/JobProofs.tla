------------------------------- MODULE JobProofs -------------------------------
(****************************************************************************)
(* What is proved of the jobs that run beside the API: the pool of the      *)
(* scheduled sends, the exports and the rotation of DKIM keys. The          *)
(* components share no variable; each has an invariant of its own.          *)
(****************************************************************************)
EXTENDS SendPool, ExportJobs, DkimRotation, FiniteSetTheorems, TLAPS

--------------------------------------------------------------------------------
(****************************************************************************)
(* The relay pool is accounted for at every moment, for any messages, runs, *)
(* slots and calls, and a stop() that is not cut off leaves nothing behind. *)
(*                                                                          *)
(* PoolInv counts with cardinalities.  What is inductive says the same      *)
(* without counting: a message in the table is in exactly one place (a      *)
(* slot, the queue of waiters, about to settle) and no place holds it       *)
(* twice.  The count of the slots follows one step at a time.               *)
(****************************************************************************)

Waits(u) == \E i \in 1..Len(slotWaiters) : slotWaiters[i] = u

\* No message waits twice, and none has two slots.
WaitsOnce == \A i, j \in 1..Len(slotWaiters) : slotWaiters[i] = slotWaiters[j] => i = j
SlotOnce == \A u \in Uids : working[u] \in {0, 1}

\* What is in the table is in one place, and what is in a place is in the table.
OnePlace ==
    \A u \in Uids :
        /\ u \in pending <=> (working[u] = 1 \/ Waits(u) \/ u \in settled)
        /\ ~(working[u] = 1 /\ Waits(u)) /\ ~(working[u] = 1 /\ u \in settled) /\ ~(Waits(u) /\ u \in settled)

PlaceInv == TypeOK /\ WaitsOnce /\ SlotOnce /\ OnePlace /\ SlotsAccounted

--------------------------------------------------------------------------------

\* One more message with a slot, or one less.
LEMMA Counted ==
    ASSUME TypeOK, SlotOnce, SlotsAccounted, NEW u \in Uids
    PROVE  /\ IsFiniteSet(Works) /\ Cardinality(Works) \in Nat
           /\ working[u] = 0 => Cardinality(Works \cup {u}) = active + 1
           /\ working[u] = 1 => Cardinality(Works \ {u}) = active - 1 /\ active > 0
  <1>1. IsFiniteSet(Works) BY SendPoolAssumption, FS_Subset DEF Works
  <1>2. Cardinality(Works) \in Nat BY <1>1, FS_CardinalityType
  <1>3. working[u] \in {0, 1} /\ (u \in Works <=> working[u] = 1) BY DEF Works, SlotOnce
  <1>a. Cardinality(Works \cup {u}) = IF u \in Works THEN Cardinality(Works) ELSE Cardinality(Works) + 1
    BY <1>1, FS_AddElement, Zenon
  <1>b. Cardinality(Works \ {u}) = IF u \in Works THEN Cardinality(Works) - 1 ELSE Cardinality(Works)
    BY <1>1, FS_RemoveElement, Zenon
  <1>4. working[u] = 0 => Cardinality(Works \cup {u}) = active + 1
    BY <1>a, <1>3 DEF SlotsAccounted
  <1>5. working[u] = 1 => Cardinality(Works \ {u}) = active - 1
    BY <1>b, <1>3 DEF SlotsAccounted
  <1>6. IsFiniteSet(Works \ {u}) /\ Cardinality(Works \ {u}) \in Nat
    BY <1>1, FS_RemoveElement, FS_CardinalityType
  <1>7. working[u] = 1 => active > 0 BY <1>5, <1>6 DEF TypeOK
  <1> QED BY <1>1, <1>2, <1>4, <1>5, <1>7

\* A message appended to the waiters waits, and nobody else's place changes.
LEMMA Appended ==
    ASSUME NEW s \in Seq(Uids), NEW u \in Uids
    PROVE  /\ Append(s, u) \in Seq(Uids) /\ Len(Append(s, u)) = Len(s) + 1
           /\ Append(s, u)[Len(s) + 1] = u /\ \A i \in 1..Len(s) : Append(s, u)[i] = s[i]
           /\ Append(s, u) # <<>>
  OBVIOUS

\* The oldest waiter leaves the queue; the others move up.
LEMMA Shifted ==
    ASSUME NEW s \in Seq(Uids), s # <<>>
    PROVE  /\ Tail(s) \in Seq(Uids) /\ Len(Tail(s)) = Len(s) - 1 /\ Len(s) \in Nat \ {0}
           /\ Head(s) = s[1] /\ s[1] \in Uids /\ \A i \in 1..Len(s) - 1 : Tail(s)[i] = s[i + 1]
  OBVIOUS

--------------------------------------------------------------------------------


\* The two halves of the type: the pool's variables, with what is inductive of them, and the others.
PoolPlaces ==
    /\ pending \subseteq Uids /\ settled \subseteq Uids /\ active \in Nat
    /\ slotWaiters \in Seq(Uids) /\ working \in [Uids -> Nat]
    /\ WaitsOnce /\ SlotOnce /\ OnePlace /\ SlotsAccounted
RunTypes ==
    /\ queue \in [Runs -> Seq(Uids)] /\ awaits \in [Runs -> Uids \cup {None}]
    /\ phase \in [Runs -> {"idle", "find", "loop"}]
StopTypes ==
    /\ snapshot \subseteq Uids /\ stopping \in BOOLEAN /\ sweeping \in Runs \cup {None}
    /\ drain \in {"no", "sweep", "check", "settle", "quiet", "cut"} /\ calls \in 0..MaxCalls

\* The invariant is that of the pool, that of the runs and that of stop(), in a state
LEMMA Halves == PlaceInv <=> PoolPlaces /\ RunTypes /\ StopTypes
  BY DEF PlaceInv, TypeOK, PoolPlaces, RunTypes, StopTypes
\* and in the state after a step.
LEMMA HalvesNext == PoolPlaces' /\ RunTypes' /\ StopTypes' => PlaceInv'
  BY DEF PlaceInv, TypeOK, PoolPlaces, RunTypes, StopTypes

\* The pool is empty at first.
LEMMA InitPlaces == Init => PlaceInv
  <1> SUFFICES ASSUME Init PROVE PlaceInv OBVIOUS
  <1>1. Works = {} BY DEF Init, Works
  <1>2. SlotsAccounted BY <1>1, FS_EmptySet, SendPoolAssumption DEF Init, SlotsAccounted
  <1>3. WaitsOnce /\ SlotOnce /\ OnePlace BY DEF Init, WaitsOnce, SlotOnce, OnePlace, Waits
  <1>4. PoolPlaces BY <1>2, <1>3 DEF Init, PoolPlaces
  <1>5. RunTypes BY DEF Init, RunTypes
  <1>6. StopTypes
    <2>1. stopping \in BOOLEAN /\ sweeping \in Runs \cup {None} /\ snapshot \subseteq Uids BY Zenon DEF Init
    <2>2. drain \in {"no", "sweep", "check", "settle", "quiet",
              "cut"} /\ calls \in 0..MaxCalls BY SendPoolAssumption DEF Init
    <2> QED BY <2>1, <2>2 DEF StopTypes
  <1> QED BY <1>4, <1>5, <1>6, Halves

\* A step that leaves the pool alone keeps what is said of it.
LEMMA PoolKept == ASSUME PoolPlaces, UNCHANGED pool PROVE PoolPlaces'
  BY DEF PoolPlaces, pool, WaitsOnce, SlotOnce, OnePlace, Waits, SlotsAccounted, Works

\* track() of a message that is in no place: it takes a free slot, or waits because there is none.
LEMMA TrackKeeps == ASSUME PoolPlaces, NEW u \in Uids, Track(u), TypeOK PROVE PoolPlaces'
  <1>1. CASE u \in pending BY <1>1, PoolKept DEF Track
  <1>2. CASE u \notin pending /\ active >= MaxParallel
    <2>1. slotWaiters' = Append(slotWaiters, u) /\ UNCHANGED <<active, working, settled>> /\ pending' = pending \cup {u}
      BY <1>2 DEF Track, WithSlot
    <2>2. ~Waits(u) /\ working[u] = 0 /\ u \notin settled BY <1>2 DEF PoolPlaces, OnePlace, SlotOnce
    <2>3. \A v \in Uids : Waits(v)' <=> Waits(v) \/ v = u BY <2>1, Appended DEF Waits, PoolPlaces
    <2>4. WaitsOnce' BY <2>1, <2>2, Appended DEF Waits, WaitsOnce, PoolPlaces
    <2>5. OnePlace' BY <2>1, <2>2, <2>3 DEF OnePlace, PoolPlaces
    <2>6. SlotOnce' /\ SlotsAccounted'
      BY <1>2, <2>1, SendPoolAssumption DEF SlotOnce, SlotsAccounted, PoolPlaces, Works
    <2> QED BY <2>1, <2>4, <2>5, <2>6, Appended DEF PoolPlaces
  <1>3. CASE u \notin pending /\ ~(active >= MaxParallel)
    <2>1. /\ active' = active + 1 /\ working' = [working EXCEPT ![u] = @ + 1] /\ UNCHANGED <<slotWaiters, settled>>
          /\ pending' = pending \cup {u}
      BY <1>3 DEF Track, WithSlot
    <2>2. ~Waits(u) /\ working[u] = 0 /\ u \notin settled BY <1>3 DEF PoolPlaces, OnePlace, SlotOnce
    <2>3. Works' = Works \cup {u} BY <2>1, <2>2 DEF Works, PoolPlaces
    <2>4. SlotsAccounted'
      <3>1. Cardinality(Works \cup {u}) = active + 1 BY <2>2, Counted DEF PoolPlaces
      <3>2. Cardinality(Works') = active + 1 BY <2>3, <3>1
      <3>3. active \in Nat /\ active < MaxParallel /\ slotWaiters = <<>>
        BY <1>3, SendPoolAssumption DEF PoolPlaces, SlotsAccounted
      <3> QED BY <2>1, <3>2, <3>3, SendPoolAssumption DEF SlotsAccounted
    <2>5. WaitsOnce' /\ SlotOnce' /\ working' \in [Uids -> Nat] BY <2>1, <2>2 DEF WaitsOnce, SlotOnce, PoolPlaces
    <2>6. OnePlace' BY <2>1, <2>2 DEF OnePlace, Waits, PoolPlaces
    <2> QED BY <2>1, <2>4, <2>5, <2>6 DEF PoolPlaces
  <1> QED BY <1>1, <1>2, <1>3

\* The end of a work: its slot goes to the oldest waiter, or back.
LEMMA WorkEndsKeeps == ASSUME PoolPlaces, NEW u \in Uids, WorkEnds(u), TypeOK PROVE PoolPlaces'
  <1>0. working[u] = 1 /\ ~Waits(u) /\ u \notin settled /\ u \in pending /\ settled' = settled \cup {u} /\ pending' = pending
    BY DEF WorkEnds, PoolPlaces, OnePlace, SlotOnce
  <1>1. CASE slotWaiters # <<>>
    <2> DEFINE w == Head(slotWaiters)
    <2>1. /\ slotWaiters' = Tail(slotWaiters) /\ active' = active
          /\ working' = [[working EXCEPT ![u] = @ - 1] EXCEPT ![w] = @ + 1]
      BY <1>1 DEF WorkEnds, SlotFreed
    <2>2. w \in Uids /\ w = slotWaiters[1] /\ Waits(w) BY <1>1, Shifted DEF PoolPlaces, Waits
    <2>3. w # u /\ working[w] = 0 BY <1>0, <2>2 DEF PoolPlaces, OnePlace, SlotOnce
    <2> HIDE DEF w
    <2>4. working' = [v \in Uids |-> IF v = w THEN 1 ELSE IF v = u THEN 0 ELSE working[v]]
      <3>1. working \in [Uids -> Nat] BY DEF PoolPlaces
      <3>2. [working EXCEPT ![u] = @ - 1] = [v \in Uids |-> IF v = u THEN 0 ELSE working[v]]
        <4>1. working[u] = 1 BY <1>0
        <4>2. [working EXCEPT ![u] = @ - 1] = [working EXCEPT ![u] = 0] BY <4>1, <3>1
        <4> QED BY <4>2, <3>1
      <3>3. [[v \in Uids |-> IF v = u THEN 0 ELSE working[v]] EXCEPT ![w] = @ + 1]
             = [v \in Uids |-> IF v = w THEN 1 ELSE IF v = u THEN 0 ELSE working[v]] BY <3>1, <2>2, <2>3
      <3> QED BY <2>1, <3>2, <3>3
    <2>5. \A v \in Uids : Waits(v)' <=> Waits(v) /\ v # w
      <3> SUFFICES ASSUME NEW v \in Uids PROVE Waits(v)' <=> Waits(v) /\ v # w OBVIOUS
      <3>1. ASSUME Waits(v)' PROVE Waits(v) /\ v # w
        <4>1. PICK i \in 1..Len(slotWaiters) - 1 : slotWaiters[i + 1] = v BY <3>1, <1>1, <2>1, Shifted DEF PoolPlaces, Waits
        <4> QED BY <4>1, <1>1, <2>2, Shifted DEF PoolPlaces, Waits, WaitsOnce
      <3>2. ASSUME Waits(v), v # w PROVE Waits(v)'
        <4>1. PICK i \in 1..Len(slotWaiters) : slotWaiters[i] = v BY <3>2 DEF Waits
        <4>2. i # 1 /\ i - 1 \in 1..Len(Tail(slotWaiters)) /\ Tail(slotWaiters)[i - 1] = v
          BY <4>1, <3>2, <1>1, <2>2, Shifted DEF PoolPlaces
        <4> QED BY <4>2, <2>1 DEF Waits
      <3> QED BY <3>1, <3>2
    <2>6. WaitsOnce' BY <1>1, <2>1, Shifted DEF WaitsOnce, PoolPlaces
    <2>7. SlotOnce' /\ working' \in [Uids -> Nat] BY <2>4 DEF SlotOnce, PoolPlaces
    <2>8. OnePlace' BY <1>0, <2>2, <2>3, <2>4, <2>5 DEF OnePlace, PoolPlaces
    <2>9. SlotsAccounted'
      <3>1. Works' = (Works \ {u}) \cup {w} BY <1>0, <2>2, <2>3, <2>4 DEF Works, PoolPlaces, SlotOnce
      <3>2. IsFiniteSet(Works \ {u}) /\ Cardinality(Works \ {u}) = active - 1 /\ active > 0
        BY <1>0, Counted, FS_RemoveElement DEF PoolPlaces
      <3>3. w \notin Works \ {u} BY <2>3 DEF Works
      <3>4. Cardinality((Works \ {u}) \cup {w}) = Cardinality(Works \ {u}) + 1
        BY <3>2, <3>3, FS_AddElement, Zenon
      <3>5. Cardinality(Works') = active BY <3>1, <3>2, <3>4 DEF PoolPlaces
      <3> QED BY <3>5, <1>1, <2>1 DEF SlotsAccounted, PoolPlaces
    <2> QED BY <1>0, <1>1, <2>1, <2>6, <2>7, <2>8, <2>9, Shifted DEF PoolPlaces
  <1>2. CASE slotWaiters = <<>>
    <2>1. /\ active' = active - 1 /\ working' = [working EXCEPT ![u] = @ - 1] /\ slotWaiters' = slotWaiters
      BY <1>2 DEF WorkEnds, SlotFreed
    <2>2. working' = [working EXCEPT ![u] = 0] BY <1>0, <2>1 DEF PoolPlaces
    <2>3. Works' = Works \ {u} BY <1>0, <2>2 DEF Works, PoolPlaces
    <2>4. Cardinality(Works \ {u}) = active - 1 /\ active > 0 BY <1>0, Counted DEF PoolPlaces
    <2>5. SlotsAccounted' BY <1>2, <2>1, <2>3, <2>4, SendPoolAssumption DEF SlotsAccounted, PoolPlaces
    <2>6. WaitsOnce' /\ SlotOnce' /\ working' \in [Uids -> Nat] /\ active' \in Nat
      BY <2>1, <2>2, <2>4 DEF WaitsOnce, SlotOnce, PoolPlaces
    <2>7. OnePlace' BY <1>0, <2>1, <2>2 DEF OnePlace, Waits, PoolPlaces
    <2> QED BY <1>0, <2>1, <2>5, <2>6, <2>7 DEF PoolPlaces
  <1> QED BY <1>1, <1>2

\* A settled promise leaves the table.
LEMMA SettleKeeps == ASSUME PoolPlaces, NEW u \in Uids, Settle(u) PROVE PoolPlaces'
  <1>1. SlotsAccounted' /\ WaitsOnce' /\ SlotOnce' BY DEF Settle, PoolPlaces, SlotsAccounted, Works, WaitsOnce, SlotOnce
  <1>2. OnePlace' BY DEF Settle, PoolPlaces, OnePlace, Waits
  <1> QED BY <1>1, <1>2 DEF PoolPlaces, Settle

\* Every batch of a run is a sequence of messages.
LEMMA BatchSeqs == \A q \in Batches : q \in Seq(Uids)
  BY DEF Batches

\* Every step keeps the invariant.
LEMMA NextPlaces == PlaceInv /\ [Next]_vars => PlaceInv'
  <1> SUFFICES ASSUME PlaceInv, [Next]_vars PROVE PlaceInv' OBVIOUS
  <1>0. PoolPlaces /\ RunTypes /\ StopTypes /\ TypeOK BY Halves DEF PlaceInv
  <1>1. PoolPlaces'
    <2>1. CASE UNCHANGED pool BY <2>1, <1>0, PoolKept
    <2>2. ASSUME NEW u \in Uids, WorkEnds(u) PROVE PoolPlaces' BY <2>2, <1>0, WorkEndsKeeps
    <2>3. ASSUME NEW u \in Uids, Settle(u) PROVE PoolPlaces' BY <2>3, <1>0, SettleKeeps
    <2>4. ASSUME NEW u \in Uids, Enqueue(u) PROVE PoolPlaces' BY <2>4, <1>0, TrackKeeps DEF Enqueue
    <2>5. ASSUME NEW r \in Runs, RunTracks(r) PROVE PoolPlaces'
      <3>1. Head(queue[r]) \in Uids BY <2>5, <1>0, Shifted DEF RunTracks, RunTypes
      <3> QED BY <3>1, <2>5, <1>0, TrackKeeps DEF RunTracks
    <2>6. ASSUME NEW r \in Runs, RunFinds(r) \/ RunEnds(r) \/ RunStarts(r) \/ Start(r) PROVE PoolPlaces'
      BY <2>6, <2>1 DEF RunFinds, RunEnds, RunStarts, Start
    <2>7. CASE SweepOver \/ WaitsOn \/ AllSettled \/ IdleStop \/ Stop \/ DrainTimeout
      BY <2>7, <2>1 DEF SweepOver, WaitsOn, AllSettled, IdleStop, Stop, DrainTimeout
    <2>8. CASE UNCHANGED vars BY <2>8, <2>1 DEF vars
    <2> QED BY <2>2, <2>3, <2>4, <2>5, <2>6, <2>7, <2>8 DEF Next, Loop
  <1>2. RunTypes'
    <2>1. CASE UNCHANGED runs BY <2>1, <1>0 DEF runs, RunTypes
    <2>2. ASSUME NEW u \in Uids, WorkEnds(u) \/ Enqueue(u) PROVE RunTypes' BY <2>2, <2>1 DEF WorkEnds, Enqueue
    <2>3. ASSUME NEW u \in Uids, Settle(u) PROVE RunTypes' BY <2>3, <1>0 DEF Settle, RunTypes
    <2>4. ASSUME NEW r \in Runs, RunFinds(r) PROVE RunTypes' BY <2>4, <1>0, BatchSeqs DEF RunFinds, RunTypes
    <2>5. ASSUME NEW r \in Runs, RunTracks(r) PROVE RunTypes'
      <3>1. Head(queue[r]) \in Uids /\ Tail(queue[r]) \in Seq(Uids) BY <2>5, <1>0, Shifted DEF RunTracks, RunTypes
      <3> QED BY <3>1, <2>5, <1>0 DEF RunTracks, RunTypes
    <2>6. ASSUME NEW r \in Runs, RunEnds(r) \/ RunStarts(r) \/ Start(r) PROVE RunTypes'
      BY <2>6, <1>0 DEF RunEnds, RunStarts, Start, RunTypes
    <2>7. CASE SweepOver \/ WaitsOn \/ AllSettled \/ IdleStop \/ Stop \/ DrainTimeout
      BY <2>7, <2>1 DEF SweepOver, WaitsOn, AllSettled, IdleStop, Stop, DrainTimeout
    <2>8. CASE UNCHANGED vars BY <2>8, <2>1 DEF vars
    <2> QED BY <2>2, <2>3, <2>4, <2>5, <2>6, <2>7, <2>8 DEF Next, Loop
  <1>3. StopTypes'
    <2>1. CASE UNCHANGED <<stop, calls>> BY <2>1, <1>0 DEF stop, StopTypes
    <2>2. ASSUME NEW u \in Uids, WorkEnds(u) PROVE StopTypes' BY <2>2, <2>1 DEF WorkEnds
    <2>3. ASSUME NEW u \in Uids, Settle(u) PROVE StopTypes' BY <2>3, <1>0 DEF Settle, StopTypes
    <2>4. ASSUME NEW u \in Uids, Enqueue(u) PROVE StopTypes'
      BY <2>4, <1>0, SendPoolAssumption DEF Enqueue, Call, stop, StopTypes
    <2>5. ASSUME NEW r \in Runs, RunFinds(r) \/ RunTracks(r) \/ RunEnds(r) PROVE StopTypes'
      BY <2>5, <2>1 DEF RunFinds, RunTracks, RunEnds
    <2>6. ASSUME NEW r \in Runs, RunStarts(r) \/ Start(r) PROVE StopTypes'
      <3>1. calls' \in 0..MaxCalls BY <2>6, <1>0, SendPoolAssumption DEF RunStarts, Start, Call, StopTypes
      <3>2. UNCHANGED <<drain, snapshot>> /\ (UNCHANGED <<stopping, sweeping>> \/ (stopping' = FALSE /\ sweeping' = r))
        BY <2>6 DEF RunStarts, Start, stop
      <3> QED BY <3>1, <3>2, <1>0 DEF StopTypes
    <2>7. CASE SweepOver \/ WaitsOn \/ AllSettled \/ IdleStop \/ DrainTimeout
      BY <2>7, <1>0 DEF SweepOver, WaitsOn, AllSettled, IdleStop, DrainTimeout, StopTypes, TypeOK
    <2>8. CASE Stop BY <2>8, <1>0, SendPoolAssumption DEF Stop, Call, StopTypes
    <2>9. CASE UNCHANGED vars BY <2>9, <2>1 DEF vars
    <2> QED BY <2>2, <2>3, <2>4, <2>5, <2>6, <2>7, <2>8, <2>9 DEF Next, Loop
  <1> QED BY <1>1, <1>2, <1>3, HalvesNext

\* One place and no place twice is one by counting.
LEMMA PlacesCount == PlaceInv => PoolInv
  <1> SUFFICES ASSUME PlaceInv, NEW u \in Uids,
                      NEW W, W = {i \in 1..Len(slotWaiters) : slotWaiters[i] = u}
               PROVE  working[u] + Cardinality(W) + (IF u \in settled THEN 1 ELSE 0) = (IF u \in pending THEN 1 ELSE 0)
    BY DEF PoolInv, PlaceInv, OnePerUid
  <1>1. CASE Waits(u)
    <2>1. PICK i \in 1..Len(slotWaiters) : slotWaiters[i] = u BY <1>1 DEF Waits
    <2>2. W = {i} BY <2>1 DEF PlaceInv, WaitsOnce
    <2>3. Cardinality(W) = 1 BY <2>2, FS_Singleton
    <2> QED BY <1>1, <2>3 DEF PlaceInv, OnePlace, SlotOnce, TypeOK
  <1>2. CASE ~Waits(u)
    <2>1. W = {} BY <1>2 DEF Waits
    <2>2. Cardinality(W) = 0 BY <2>1, FS_EmptySet
    <2> QED BY <1>2, <2>2 DEF PlaceInv, OnePlace, SlotOnce, TypeOK
  <1> QED BY <1>1, <1>2

\* The table, the waiters and the slots of ScheduledSendJob agree in every reachable state.
THEOREM PoolAccounted == Spec => []PoolInv
  BY InitPlaces, NextPlaces, PlacesCount, PTL DEF Spec

\* whenIdle() looks at the table only; that nothing of it is left means that no slot is
\* taken and nobody waits for one.
LEMMA QuietStep ==
    ASSUME PlaceInv, [Next]_vars, drain = "check", drain' = "quiet" PROVE Works = {} /\ slotWaiters = <<>>
  <1>1. pending = {}
    <2>1. CASE IdleStop BY <2>1 DEF IdleStop, Drained
    <2>2. ASSUME NEW u \in Uids, WorkEnds(u) \/ Settle(u) \/ Enqueue(u) PROVE FALSE BY <2>2 DEF WorkEnds, Settle,
              Enqueue, stop
    <2>3. ASSUME NEW r \in Runs, RunFinds(r) \/ RunTracks(r) \/ RunEnds(r) \/ RunStarts(r) \/ Start(r) PROVE FALSE
      BY <2>3 DEF RunFinds, RunTracks, RunEnds, RunStarts, Start, stop
    <2>4. CASE SweepOver \/ WaitsOn \/ AllSettled \/ Stop \/ DrainTimeout BY <2>4 DEF SweepOver, WaitsOn, AllSettled,
              Stop, DrainTimeout
    <2>5. CASE UNCHANGED vars BY <2>5 DEF vars, stop
    <2> QED BY <2>1, <2>2, <2>3, <2>4, <2>5 DEF Next, Loop
  <1>2. \A u \in Uids : working[u] = 0 /\ ~Waits(u) BY <1>1 DEF PlaceInv, OnePlace, SlotOnce
  <1>3. Works = {} BY <1>2 DEF Works
  <1>4. slotWaiters = <<>>
    <2>1. slotWaiters \in Seq(Uids) BY DEF PlaceInv, TypeOK
    <2> SUFFICES ASSUME slotWaiters # <<>> PROVE FALSE OBVIOUS
    <2>2. 1 \in 1..Len(slotWaiters) /\ slotWaiters[1] \in Uids BY <2>1, Shifted
    <2> QED BY <1>2, <2>2 DEF Waits
  <1> QED BY <1>3, <1>4

\* A stop() that is not cut off by its timer returns with no relay in flight.
THEOREM StopsQuiet == Spec => StopIsQuiet
  <1>1. PlaceInv /\ [Next]_vars => [drain = "check" /\ drain' = "quiet" => Works = {} /\ slotWaiters = <<>>]_vars
    BY QuietStep
  <1> QED BY <1>1, InitPlaces, NextPlaces, PTL DEF Spec, StopIsQuiet

\* Both promises of the pool, as the run checks them.
THEOREM PoolHeld == Spec => PoolHolds
  BY PoolAccounted, StopsQuiet DEF PoolHolds

--------------------------------------------------------------------------------
(****************************************************************************)
(* However leases lapse and workers overrun, die and fail, an export is one *)
(* of OneResult's behaviours; its bundle is attested or owed, and no bundle *)
(* is left behind that a fault does not account for.                        *)
(*                                                                          *)
(* The argument is the attempt number: it is in the blob's key, so a worker *)
(* that was overrun can only touch the bundle of an attempt that is over,   *)
(* and only the worker with the row's version can write the verdict.        *)
(****************************************************************************)

States == {"pending", "processing", "ready", "failed"}
Labels == {"idle", "build", "finish", "cleanup", "mark", "attest", "checkpoint"}

ExportTyped ==
    /\ row \in [is : States, att : Nat, blob : Nat, owed : SUBSET Custodians]
    /\ age \in 0..2 /\ latest \subseteq Workers /\ faults \in Nat
    /\ at \in [Workers -> Labels] /\ mine \in [Workers -> Nat]
    /\ store \subseteq [key : Nat, boxes : SUBSET Custodians]
    /\ todo \in [Workers -> SUBSET Custodians] /\ still \in [Workers -> SUBSET Custodians]
    /\ attested \subseteq Custodians

\* Workers of an attempt that may still write the row or touch its bundle.
Busy(x) == at[x] \in {"build", "finish", "cleanup", "mark"}

\* A worker with the row's version works on the attempt the row is at.
Leased == \A x \in latest : Busy(x) => row.is = "processing" /\ mine[x] = row.att

\* An attempt is one worker's; a bundle is there from its put on, once, under its attempt.
Scoped ==
    /\ \A x \in Workers : Busy(x) => mine[x] \in 1..row.att
    /\ \A x, y \in Workers : Busy(x) /\ Busy(y) /\ mine[x] = mine[y] => x = y
    /\ \A b \in store : b.key \in 1..row.att
    /\ \A b, c \in store : b.key = c.key => b = c
    /\ \A x \in Workers : at[x] = "build" => \A b \in store : b.key # mine[x]
    /\ \A x \in Workers : at[x] = "finish" => \E b \in store : b.key = mine[x]

\* The bundle of a ready row is stored, and no worker is left that could delete it.
Kept ==
    row.is = "ready" =>
        /\ row.blob > 0 /\ \E b \in store : b.key = row.blob
        /\ \A x \in Workers : at[x] \in {"build", "finish", "cleanup"} => mine[x] # row.blob

\* Whoever may strike off what is owed knows all that is not attested.
Noted == \A x \in latest : at[x] \in {"attest", "checkpoint"} => row.owed \subseteq attested \cup todo[x] \cup still[x]

\* Bundles no row refers to and no worker will finish or delete.
Loose == {b \in store : /\ row.is # "ready" \/ b.key # row.blob
                        /\ \A x \in Workers : at[x] \in {"finish", "cleanup"} => mine[x] # b.key}
OrphansCounted == IsFiniteSet(store) /\ Cardinality(Loose) <= faults

ExportInv == ExportTyped /\ Leased /\ Scoped /\ Kept /\ Noted /\ BundleAttested /\ OrphansCounted

--------------------------------------------------------------------------------

\* The update to ready by a worker with the row's version, and by one without.
Wins(x, b) ==
    /\ row' = [is |-> "ready", att |-> row.att, blob |-> mine[x], owed |-> b.boxes]
    /\ latest' = {x} /\ age' = 0 /\ at' = [at EXCEPT ![x] = IF b.boxes = {} THEN "idle" ELSE "attest"]
    /\ todo' = [todo EXCEPT ![x] = b.boxes] /\ UNCHANGED <<mine, faults, store, still, attested>>
Loses(x) == at' = [at EXCEPT ![x] = "cleanup"] /\ UNCHANGED <<row, age, latest, mine, faults, jobVars>>

\* Finish() updates the row to ready with the current version, or loses the race.
LEMMA Finished ==
    ASSUME ExportTyped, NEW x \in Workers, Finish(x)
    PROVE  /\ at[x] = "finish"
           /\ \/ x \in latest /\ \E b \in store : b.key = mine[x] /\ Wins(x, b)
              \/ x \notin latest /\ Loses(x)
  <1>1. at[x] = "finish" /\ UNCHANGED <<mine, store, still, attested>> BY DEF Finish
  <1>2. ASSUME NEW b \in store, row' = [row EXCEPT !.is = "ready", !.blob = mine[x], !.owed = b.boxes]
        PROVE  row' = [is |-> "ready", att |-> row.att, blob |-> mine[x], owed |-> b.boxes]
    BY <1>2 DEF ExportTyped
  <1> QED BY <1>1, <1>2 DEF Finish, BlobKey, Writes, Moves, Wins, Loses, jobVars

\* Every step keeps the variables' types.
LEMMA NextTyped ==
    ASSUME ExportTyped, Scoped, [ExportNext]_exportVars PROVE ExportTyped'
  <1> USE DEF ExportTyped, States, Labels, leaseVars, jobVars, Moves
  <1>1. CASE ExportTime BY <1>1 DEF ExportTime, Passes
  <1>2. ASSUME NEW x \in Workers, ClaimExport(x) PROVE ExportTyped'
    <2>1. row' = [is |-> "processing", att |-> row.att + 1, blob |-> row.blob,
              owed |-> row.owed] BY <1>2 DEF ClaimExport, Claim
    <2> QED BY <1>2, <2>1 DEF ClaimExport, Claim
  <1>3. ASSUME NEW x \in Workers, FailExport(x) PROVE ExportTyped' BY <1>3 DEF FailExport, FailUnclaimed, Fault
  <1>4. ASSUME NEW x \in Workers, ReclaimExport(x) PROVE ExportTyped' BY <1>4 DEF ReclaimExport, Reclaim, Abandoned
  <1>5. ASSUME NEW x \in Workers, RenewExport(x) PROVE ExportTyped' BY <1>5 DEF RenewExport, RenewLease, Writes
  <1>6. ASSUME NEW x \in Workers, Put(x) PROVE ExportTyped' BY <1>6 DEF Put, BlobKey
  <1>7. ASSUME NEW x \in Workers, PutFails(x) PROVE ExportTyped' BY <1>7 DEF PutFails, BlobKey, Fault
  <1>8. ASSUME NEW x \in Workers, Finish(x) PROVE ExportTyped'
    <2>1. ASSUME NEW b \in store, b.key = mine[x], Wins(x, b) PROVE ExportTyped' BY <1>8, Finished, <2>1 DEF Wins
    <2>2. CASE Loses(x) BY <1>8, Finished, <2>2 DEF Loses
    <2> QED BY <1>8, <2>1, <2>2, Finished
  <1>9. ASSUME NEW x \in Workers, FinishFails(x) PROVE ExportTyped' BY <1>9 DEF FinishFails, Fault
  <1>10. ASSUME NEW x \in Workers, DeleteBlobQuietly(x) PROVE ExportTyped' BY <1>10 DEF DeleteBlobQuietly, Deletable,
             BlobKey, Fault
  <1>11. ASSUME NEW x \in Workers, MarkExportFailed(x) PROVE ExportTyped' BY <1>11 DEF MarkExportFailed, MarkFailed, Writes
  <1>12. ASSUME NEW x \in Workers, AttestOwed(x) PROVE ExportTyped' BY <1>12 DEF AttestOwed, Fault
  <1>13. ASSUME NEW x \in Workers, Attest(x) PROVE ExportTyped' BY <1>13 DEF Attest, Fault
  <1>14. ASSUME NEW x \in Workers, StrikeOff(x) PROVE ExportTyped' BY <1>14 DEF StrikeOff, Writes, Remaining
  <1>15. ASSUME NEW x \in Workers, CrashExport(x) PROVE ExportTyped' BY <1>15 DEF CrashExport, Crash, Fault
  <1>16. CASE UNCHANGED exportVars BY <1>16 DEF exportVars
  <1> QED BY <1>1, <1>2, <1>3, <1>4, <1>5, <1>6, <1>7, <1>8, <1>9, <1>10, <1>11, <1>12, <1>13, <1>14, <1>15,
          <1>16 DEF ExportNext, ExportStep, ExportFault

\* The version a worker holds is current: whoever wins a claim takes it from all others.
LEMMA NextLeased ==
    ASSUME ExportTyped, Leased, Scoped, [ExportNext]_exportVars PROVE Leased'
  <1> USE DEF ExportTyped, Leased, Busy, States, Labels, leaseVars, jobVars, Moves
  <1>1. CASE ExportTime BY <1>1 DEF ExportTime, Passes
  <1>2. ASSUME NEW x \in Workers, ClaimExport(x) PROVE Leased' BY <1>2 DEF ClaimExport, Claim
  <1>3. ASSUME NEW x \in Workers, FailExport(x) PROVE Leased' BY <1>3 DEF FailExport, FailUnclaimed, Fault
  <1>4. ASSUME NEW x \in Workers, ReclaimExport(x) PROVE Leased' BY <1>4 DEF ReclaimExport, Reclaim, Abandoned
  <1>5. ASSUME NEW x \in Workers, RenewExport(x) PROVE Leased' BY <1>5 DEF RenewExport, RenewLease, Writes
  <1>6. ASSUME NEW x \in Workers, Put(x) PROVE Leased' BY <1>6 DEF Put, BlobKey
  <1>7. ASSUME NEW x \in Workers, PutFails(x) PROVE Leased' BY <1>7 DEF PutFails, BlobKey, Fault
  <1>8. ASSUME NEW x \in Workers, Finish(x) PROVE Leased' BY <1>8, Finished DEF Wins, Loses
  <1>9. ASSUME NEW x \in Workers, FinishFails(x) PROVE Leased' BY <1>9 DEF FinishFails, Fault
  <1>10. ASSUME NEW x \in Workers, DeleteBlobQuietly(x) PROVE Leased' BY <1>10 DEF DeleteBlobQuietly, Deletable,
             BlobKey, Fault
  <1>11. ASSUME NEW x \in Workers, MarkExportFailed(x) PROVE Leased' BY <1>11 DEF MarkExportFailed, MarkFailed, Writes
  <1>12. ASSUME NEW x \in Workers, AttestOwed(x) PROVE Leased' BY <1>12 DEF AttestOwed, Fault
  <1>13. ASSUME NEW x \in Workers, Attest(x) PROVE Leased' BY <1>13 DEF Attest, Fault
  <1>14. ASSUME NEW x \in Workers, StrikeOff(x) PROVE Leased' BY <1>14 DEF StrikeOff, Writes, Remaining
  <1>15. ASSUME NEW x \in Workers, CrashExport(x) PROVE Leased' BY <1>15 DEF CrashExport, Crash, Fault
  <1>16. CASE UNCHANGED exportVars BY <1>16 DEF exportVars
  <1> QED BY <1>1, <1>2, <1>3, <1>4, <1>5, <1>6, <1>7, <1>8, <1>9, <1>10, <1>11, <1>12, <1>13, <1>14, <1>15,
          <1>16 DEF ExportNext, ExportStep, ExportFault

\* A claim counts the attempt up, so no two workers share one, and a bundle is put under it once.
LEMMA NextScoped ==
    ASSUME ExportTyped, Leased, Scoped, [ExportNext]_exportVars PROVE Scoped'
  <1> USE DEF ExportTyped, Leased, Scoped, Busy, States, Labels, leaseVars, jobVars, Moves
  <1>1. CASE ExportTime BY <1>1 DEF ExportTime, Passes
  <1>2. ASSUME NEW x \in Workers, ClaimExport(x) PROVE Scoped' BY <1>2 DEF ClaimExport, Claim
  <1>3. ASSUME NEW x \in Workers, FailExport(x) PROVE Scoped' BY <1>3 DEF FailExport, FailUnclaimed, Fault
  <1>4. ASSUME NEW x \in Workers, ReclaimExport(x) PROVE Scoped' BY <1>4 DEF ReclaimExport, Reclaim, Abandoned
  <1>5. ASSUME NEW x \in Workers, RenewExport(x) PROVE Scoped' BY <1>5 DEF RenewExport, RenewLease, Writes
  <1>6. ASSUME NEW x \in Workers, Put(x) PROVE Scoped'
    <2>1. PICK n \in [key : Nat, boxes : SUBSET Custodians] : n.key = mine[x] /\ store' = store \cup {n}
      BY <1>6 DEF Put, BlobKey
    <2>2. at[x] = "build" /\ at' = [at EXCEPT ![x] = "finish"] /\ UNCHANGED <<row, mine>> BY <1>6 DEF Put
    <2>3. \A b, c \in store' : b.key = c.key => b = c BY <2>1, <2>2
    <2> QED BY <2>1, <2>2, <2>3
  <1>7. ASSUME NEW x \in Workers, PutFails(x) PROVE Scoped'
    <2>1. PICK n \in [key : Nat, boxes : SUBSET Custodians] : n.key = mine[x] /\ store' \in {store, store \cup {n}}
      BY <1>7 DEF PutFails, BlobKey
    <2>2. at[x] = "build" /\ at' = [at EXCEPT ![x] = "cleanup"] /\ UNCHANGED <<row, mine>> BY <1>7 DEF PutFails
    <2>3. \A b, c \in store' : b.key = c.key => b = c BY <2>1, <2>2
    <2> QED BY <2>1, <2>2, <2>3
  <1>8. ASSUME NEW x \in Workers, Finish(x) PROVE Scoped'
    <2>1. ASSUME NEW b \in store, b.key = mine[x], Wins(x, b) PROVE Scoped' BY <1>8, Finished, <2>1 DEF Wins
    <2>2. CASE Loses(x) BY <1>8, Finished, <2>2 DEF Loses
    <2> QED BY <1>8, <2>1, <2>2, Finished
  <1>9. ASSUME NEW x \in Workers, FinishFails(x) PROVE Scoped' BY <1>9 DEF FinishFails, Fault
  <1>10. ASSUME NEW x \in Workers, DeleteBlobQuietly(x) PROVE Scoped' BY <1>10 DEF DeleteBlobQuietly, Deletable,
             BlobKey, Fault
  <1>11. ASSUME NEW x \in Workers, MarkExportFailed(x) PROVE Scoped' BY <1>11 DEF MarkExportFailed, MarkFailed, Writes
  <1>12. ASSUME NEW x \in Workers, AttestOwed(x) PROVE Scoped' BY <1>12 DEF AttestOwed, Fault
  <1>13. ASSUME NEW x \in Workers, Attest(x) PROVE Scoped' BY <1>13 DEF Attest, Fault
  <1>14. ASSUME NEW x \in Workers, StrikeOff(x) PROVE Scoped' BY <1>14 DEF StrikeOff, Writes, Remaining
  <1>15. ASSUME NEW x \in Workers, CrashExport(x) PROVE Scoped' BY <1>15 DEF CrashExport, Crash, Fault
  <1>16. CASE UNCHANGED exportVars BY <1>16 DEF exportVars
  <1> QED BY <1>1, <1>2, <1>3, <1>4, <1>5, <1>6, <1>7, <1>8, <1>9, <1>10, <1>11, <1>12, <1>13, <1>14, <1>15,
          <1>16 DEF ExportNext, ExportStep, ExportFault

\* deleteBlobQuietly() deletes the worker's own attempt's bundle, which is not the ready row's.
LEMMA NextKept ==
    ASSUME ExportTyped, Leased, Scoped, Kept, [ExportNext]_exportVars PROVE Kept'
  <1> USE DEF ExportTyped, Leased, Scoped, Kept, Busy, States, Labels, leaseVars, jobVars, Moves
  <1>1. CASE ExportTime BY <1>1 DEF ExportTime, Passes
  <1>2. ASSUME NEW x \in Workers, ClaimExport(x) PROVE Kept' BY <1>2 DEF ClaimExport, Claim
  <1>3. ASSUME NEW x \in Workers, FailExport(x) PROVE Kept' BY <1>3 DEF FailExport, FailUnclaimed, Fault
  <1>4. ASSUME NEW x \in Workers, ReclaimExport(x) PROVE Kept' BY <1>4 DEF ReclaimExport, Reclaim, Abandoned
  <1>5. ASSUME NEW x \in Workers, RenewExport(x) PROVE Kept' BY <1>5 DEF RenewExport, RenewLease, Writes
  <1>6. ASSUME NEW x \in Workers, Put(x) PROVE Kept' BY <1>6 DEF Put, BlobKey
  <1>7. ASSUME NEW x \in Workers, PutFails(x) PROVE Kept' BY <1>7 DEF PutFails, BlobKey, Fault
  <1>8. ASSUME NEW x \in Workers, Finish(x) PROVE Kept'
    <2>1. CASE Loses(x) BY <1>8, <2>1, Finished DEF Loses
    <2>2. ASSUME NEW b \in store, b.key = mine[x], Wins(x, b) PROVE Kept'
      <3>1. row'.blob = mine[x] /\ mine[x] > 0 /\ store' = store /\ mine' = mine BY <1>8, <2>2, Finished DEF Wins
      <3>2. \A y \in Workers : at'[y] \in {"build", "finish", "cleanup"} => y # x /\ at'[y] = at[y]
        BY <2>2 DEF Wins
      <3>3. \A y \in Workers \ {x} : Busy(y) => mine[y] # mine[x] BY <1>8, Finished
      <3> QED BY <2>2, <3>1, <3>2, <3>3
    <2> QED BY <1>8, <2>1, <2>2, Finished
  <1>9. ASSUME NEW x \in Workers, FinishFails(x) PROVE Kept' BY <1>9 DEF FinishFails, Fault
  <1>10. ASSUME NEW x \in Workers, DeleteBlobQuietly(x) PROVE Kept' BY <1>10 DEF DeleteBlobQuietly, Deletable, BlobKey, Fault
  <1>11. ASSUME NEW x \in Workers, MarkExportFailed(x) PROVE Kept' BY <1>11 DEF MarkExportFailed, MarkFailed, Writes
  <1>12. ASSUME NEW x \in Workers, AttestOwed(x) PROVE Kept' BY <1>12 DEF AttestOwed, Fault
  <1>13. ASSUME NEW x \in Workers, Attest(x) PROVE Kept' BY <1>13 DEF Attest, Fault
  <1>14. ASSUME NEW x \in Workers, StrikeOff(x) PROVE Kept' BY <1>14 DEF StrikeOff, Writes, Remaining
  <1>15. ASSUME NEW x \in Workers, CrashExport(x) PROVE Kept' BY <1>15 DEF CrashExport, Crash, Fault
  <1>16. CASE UNCHANGED exportVars BY <1>16 DEF exportVars
  <1> QED BY <1>1, <1>2, <1>3, <1>4, <1>5, <1>6, <1>7, <1>8, <1>9, <1>10, <1>11, <1>12, <1>13, <1>14, <1>15,
          <1>16 DEF ExportNext, ExportStep, ExportFault

\* The row's owed mailboxes change only with the version, so the worker that has it knows them all.
LEMMA NextNoted ==
    ASSUME ExportTyped, Leased, Scoped, Noted, [ExportNext]_exportVars PROVE Noted'
  <1> USE DEF ExportTyped, Noted, Busy, States, Labels, leaseVars, jobVars, Moves
  <1>1. CASE ExportTime BY <1>1 DEF ExportTime, Passes
  <1>2. ASSUME NEW x \in Workers, ClaimExport(x) PROVE Noted' BY <1>2 DEF ClaimExport, Claim
  <1>3. ASSUME NEW x \in Workers, FailExport(x) PROVE Noted' BY <1>3 DEF FailExport, FailUnclaimed, Fault
  <1>4. ASSUME NEW x \in Workers, ReclaimExport(x) PROVE Noted' BY <1>4 DEF ReclaimExport, Reclaim, Abandoned
  <1>5. ASSUME NEW x \in Workers, RenewExport(x) PROVE Noted' BY <1>5 DEF RenewExport, RenewLease, Writes
  <1>6. ASSUME NEW x \in Workers, Put(x) PROVE Noted' BY <1>6 DEF Put, BlobKey
  <1>7. ASSUME NEW x \in Workers, PutFails(x) PROVE Noted' BY <1>7 DEF PutFails, BlobKey, Fault
  <1>8. ASSUME NEW x \in Workers, Finish(x) PROVE Noted' BY <1>8, Finished DEF Wins, Loses
  <1>9. ASSUME NEW x \in Workers, FinishFails(x) PROVE Noted' BY <1>9 DEF FinishFails, Fault
  <1>10. ASSUME NEW x \in Workers, DeleteBlobQuietly(x) PROVE Noted' BY <1>10 DEF DeleteBlobQuietly, Deletable, BlobKey,
             Fault
  <1>11. ASSUME NEW x \in Workers, MarkExportFailed(x) PROVE Noted' BY <1>11 DEF MarkExportFailed, MarkFailed, Writes
  <1>12. ASSUME NEW x \in Workers, AttestOwed(x) PROVE Noted' BY <1>12 DEF AttestOwed, Fault
  <1>13. ASSUME NEW x \in Workers, Attest(x) PROVE Noted' BY <1>13 DEF Attest, Fault
  <1>14. ASSUME NEW x \in Workers, StrikeOff(x) PROVE Noted' BY <1>14 DEF StrikeOff, Writes, Remaining
  <1>15. ASSUME NEW x \in Workers, CrashExport(x) PROVE Noted' BY <1>15 DEF CrashExport, Crash, Fault
  <1>16. CASE UNCHANGED exportVars BY <1>16 DEF exportVars
  <1> QED BY <1>1, <1>2, <1>3, <1>4, <1>5, <1>6, <1>7, <1>8, <1>9, <1>10, <1>11, <1>12, <1>13, <1>14, <1>15,
          <1>16 DEF ExportNext, ExportStep, ExportFault

\* strikeOffAttestations() strikes off what attestPending() has written, and nothing else.
LEMMA NextAttested ==
    ASSUME ExportTyped, Leased, Scoped, Kept, Noted, BundleAttested, [ExportNext]_exportVars PROVE BundleAttested'
  <1> USE DEF ExportTyped, Leased, Scoped, Kept, Noted, BundleAttested, Busy, States, Labels, leaseVars, jobVars, Moves
  <1>1. CASE ExportTime BY <1>1 DEF ExportTime, Passes
  <1>2. ASSUME NEW x \in Workers, ClaimExport(x) PROVE BundleAttested' BY <1>2 DEF ClaimExport, Claim
  <1>3. ASSUME NEW x \in Workers, FailExport(x) PROVE BundleAttested' BY <1>3 DEF FailExport, FailUnclaimed, Fault
  <1>4. ASSUME NEW x \in Workers, ReclaimExport(x) PROVE BundleAttested' BY <1>4 DEF ReclaimExport, Reclaim, Abandoned
  <1>5. ASSUME NEW x \in Workers, RenewExport(x) PROVE BundleAttested' BY <1>5 DEF RenewExport, RenewLease, Writes
  <1>6. ASSUME NEW x \in Workers, Put(x) PROVE BundleAttested' BY <1>6 DEF Put, BlobKey
  <1>7. ASSUME NEW x \in Workers, PutFails(x) PROVE BundleAttested' BY <1>7 DEF PutFails, BlobKey, Fault
  <1>8. ASSUME NEW x \in Workers, Finish(x) PROVE BundleAttested' BY <1>8, Finished DEF Wins, Loses
  <1>9. ASSUME NEW x \in Workers, FinishFails(x) PROVE BundleAttested' BY <1>9 DEF FinishFails, Fault
  <1>10. ASSUME NEW x \in Workers, DeleteBlobQuietly(x) PROVE BundleAttested' BY <1>10 DEF DeleteBlobQuietly, Deletable,
             BlobKey, Fault
  <1>11. ASSUME NEW x \in Workers, MarkExportFailed(x) PROVE BundleAttested' BY <1>11 DEF MarkExportFailed, MarkFailed,
             Writes
  <1>12. ASSUME NEW x \in Workers, AttestOwed(x) PROVE BundleAttested' BY <1>12 DEF AttestOwed, Fault
  <1>13. ASSUME NEW x \in Workers, Attest(x) PROVE BundleAttested' BY <1>13 DEF Attest, Fault
  <1>14. ASSUME NEW x \in Workers, StrikeOff(x) PROVE BundleAttested' BY <1>14 DEF StrikeOff, Writes, Remaining
  <1>15. ASSUME NEW x \in Workers, CrashExport(x) PROVE BundleAttested' BY <1>15 DEF CrashExport, Crash, Fault
  <1>16. CASE UNCHANGED exportVars BY <1>16 DEF exportVars
  <1> QED BY <1>1, <1>2, <1>3, <1>4, <1>5, <1>6, <1>7, <1>8, <1>9, <1>10, <1>11, <1>12, <1>13, <1>14, <1>15,
          <1>16 DEF ExportNext, ExportStep, ExportFault

\* The count of the loose bundles, when a step loosens none or one.
LEMMA Fewer ==
    ASSUME ExportTyped, OrphansCounted, NEW L, L \subseteq Loose, NEW k \in Nat, k >= faults
    PROVE  IsFiniteSet(L) /\ Cardinality(L) <= k
  <1>1. IsFiniteSet(Loose) BY FS_Subset DEF OrphansCounted, Loose
  <1>2. IsFiniteSet(L) /\ Cardinality(L) <= Cardinality(Loose) BY <1>1, FS_Subset
  <1>3. Cardinality(L) \in Nat /\ Cardinality(Loose) \in Nat BY <1>1, <1>2, FS_CardinalityType
  <1> QED BY <1>2, <1>3 DEF OrphansCounted, ExportTyped

\* One bundle more without a row needs one fault more.
LEMMA OneMore ==
    ASSUME ExportTyped, OrphansCounted, NEW L, NEW b, L \subseteq Loose \cup {b}, NEW k \in Nat, k = faults + 1
    PROVE  IsFiniteSet(L) /\ Cardinality(L) <= k
  <1>1. IsFiniteSet(Loose) /\ Cardinality(Loose) <= faults BY FS_Subset DEF OrphansCounted, Loose
  <1>2. IsFiniteSet(Loose \cup {b}) /\ Cardinality(Loose \cup {b}) \in {Cardinality(Loose), Cardinality(Loose) + 1}
    BY <1>1, FS_AddElement
  <1>3. IsFiniteSet(L) /\ Cardinality(L) <= Cardinality(Loose \cup {b}) BY <1>2, FS_Subset
  <1>4. Cardinality(L) \in Nat /\ Cardinality(Loose) \in Nat BY <1>1, <1>3, FS_CardinalityType
  <1> QED BY <1>1, <1>2, <1>3, <1>4 DEF ExportTyped

\* Only a step that is a fault loosens a bundle, and it loosens one.
LEMMA Loosened ==
    ASSUME ExportTyped, Leased, Scoped, Kept, [ExportNext]_exportVars
    PROVE  \/ Loose' \subseteq Loose /\ faults' >= faults
           \/ faults' = faults + 1 /\ \E b : Loose' \subseteq Loose \cup {b}
  <1> DEFINE Goal == \/ Loose' \subseteq Loose /\ faults' >= faults
                     \/ faults' = faults + 1 /\ \E b : Loose' \subseteq Loose \cup {b}
  <1> USE DEF ExportTyped, Scoped, Busy, Loose, States, Labels, leaseVars, jobVars, Moves
  <1>1. CASE ExportTime BY <1>1 DEF ExportTime, Passes
  <1>2. ASSUME NEW x \in Workers, ClaimExport(x) PROVE Goal BY <1>2 DEF ClaimExport, Claim, Leased
  <1>3. ASSUME NEW x \in Workers, FailExport(x) PROVE Goal BY <1>3 DEF FailExport, FailUnclaimed, Fault, Leased
  <1>4. ASSUME NEW x \in Workers, ReclaimExport(x) PROVE Goal BY <1>4 DEF ReclaimExport, Reclaim, Abandoned, Leased
  <1>5. ASSUME NEW x \in Workers, RenewExport(x) PROVE Goal BY <1>5 DEF RenewExport, RenewLease, Writes, Leased
  <1>6. ASSUME NEW x \in Workers, Put(x) PROVE Goal BY <1>6 DEF Put, BlobKey, Leased
  <1>7. ASSUME NEW x \in Workers, PutFails(x) PROVE Goal BY <1>7 DEF PutFails, BlobKey, Fault, Leased
  <1>8. ASSUME NEW x \in Workers, Finish(x) PROVE Goal BY <1>8, Finished DEF Wins, Loses, Leased
  <1>9. ASSUME NEW x \in Workers, FinishFails(x) PROVE Goal BY <1>9 DEF FinishFails, Fault, Leased
  <1>10. ASSUME NEW x \in Workers, DeleteBlobQuietly(x) PROVE Goal
    <2>1. at[x] = "cleanup" /\ at' = [at EXCEPT ![x] = "mark"] /\ UNCHANGED <<row, mine>>
      BY <1>10 DEF DeleteBlobQuietly
    <2>2. CASE store' = {b \in store : b.key # mine[x]} /\ UNCHANGED faults BY <2>1, <2>2
    <2>3. CASE faults' = faults + 1 /\ UNCHANGED store
      <3>1. CASE \E b \in store : b.key = mine[x]
        <4>1. PICK b \in store : b.key = mine[x] BY <3>1
        <4>2. Loose' \subseteq Loose \cup {b} BY <2>1, <2>3, <4>1
        <4> QED BY <4>2, <2>3
      <3>2. CASE \A b \in store : b.key # mine[x] BY <2>1, <2>3, <3>2
      <3> QED BY <3>1, <3>2
    <2> QED BY <1>10, <2>2, <2>3 DEF DeleteBlobQuietly, Deletable, BlobKey, Fault
  <1>11. ASSUME NEW x \in Workers, MarkExportFailed(x) PROVE Goal BY <1>11 DEF MarkExportFailed, MarkFailed, Writes, Leased
  <1>12. ASSUME NEW x \in Workers, AttestOwed(x) PROVE Goal BY <1>12 DEF AttestOwed, Fault, Leased
  <1>13. ASSUME NEW x \in Workers, Attest(x) PROVE Goal BY <1>13 DEF Attest, Fault, Leased
  <1>14. ASSUME NEW x \in Workers, StrikeOff(x) PROVE Goal BY <1>14 DEF StrikeOff, Writes, Remaining, Leased
  <1>15. ASSUME NEW x \in Workers, CrashExport(x) PROVE Goal
    <2>1. faults' = faults + 1 /\ store' = store /\ row' = row /\ mine' = mine
          /\ \A y \in Workers \ {x} : at'[y] = at[y]
      BY <1>15 DEF CrashExport, Crash, Fault
    <2>2. CASE \E b \in store : b.key = mine[x]
      <3>1. PICK b \in store : b.key = mine[x] BY <2>2
      <3>2. Loose' \subseteq Loose \cup {b} BY <2>1, <3>1
      <3> QED BY <2>1, <3>2
    <2>3. CASE \A b \in store : b.key # mine[x] BY <2>1, <2>3
    <2> QED BY <2>2, <2>3
  <1>16. CASE UNCHANGED exportVars BY <1>16 DEF exportVars
  <1> QED BY <1>1, <1>2, <1>3, <1>4, <1>5, <1>6, <1>7, <1>8, <1>9, <1>10, <1>11, <1>12, <1>13, <1>14, <1>15,
          <1>16 DEF ExportNext, ExportStep, ExportFault

\* Bundles left behind are counted by the faults, step by step.
LEMMA NextOrphans ==
    ASSUME ExportTyped, Leased, Scoped, Kept, OrphansCounted, [ExportNext]_exportVars PROVE OrphansCounted'
  <1>1. IsFiniteSet(store')
    <2>1. \/ store' \subseteq store
          \/ \E n : store' = store \cup {n}
      <3>1. ASSUME NEW x \in Workers, Put(x) \/ PutFails(x) PROVE store' = store \/ \E n : store' = store \cup {n}
        BY <3>1 DEF Put, PutFails
      <3>2. ASSUME NEW x \in Workers, DeleteBlobQuietly(x) PROVE store' \subseteq store
        BY <3>2 DEF DeleteBlobQuietly, Deletable
      <3>3. ASSUME NEW x \in Workers,
                   \/ ClaimExport(x) \/ FailExport(x) \/ ReclaimExport(x) \/ RenewExport(x) \/ Finish(x)
                   \/ FinishFails(x) \/ MarkExportFailed(x) \/ AttestOwed(x) \/ Attest(x) \/ StrikeOff(x) \/ CrashExport(x)
            PROVE  store' = store
        BY <3>3 DEF ClaimExport, FailExport, ReclaimExport, RenewExport, Finish, FinishFails, MarkExportFailed,
                    AttestOwed, Attest, StrikeOff, CrashExport, jobVars
      <3>4. ExportTime \/ UNCHANGED exportVars => store' = store BY DEF ExportTime, exportVars, jobVars
      <3> QED BY <3>1, <3>2, <3>3, <3>4 DEF ExportNext, ExportStep, ExportFault
    <2> QED BY <2>1, FS_Subset, FS_AddElement DEF OrphansCounted
  <1>2. faults' \in Nat /\ faults \in Nat BY NextTyped DEF ExportTyped
  <1>3. CASE Loose' \subseteq Loose /\ faults' >= faults BY <1>1, <1>2, <1>3, Fewer DEF OrphansCounted
  <1>4. CASE faults' = faults + 1 /\ \E b : Loose' \subseteq Loose \cup {b} BY <1>1, <1>2, <1>4, OneMore DEF OrphansCounted
  <1> QED BY <1>3, <1>4, Loosened

\* The invariant holds of a request as it is created, and of every state after it.
LEMMA InitHolds == ExportInit => ExportInv
  <1> SUFFICES ASSUME ExportInit PROVE ExportInv OBVIOUS
  <1> USE DEF ExportInit, LeaseInit, NoBoxes
  <1>1. ExportTyped /\ Leased /\ Scoped /\ Kept /\ Noted /\ BundleAttested
    BY DEF ExportTyped, States, Labels, Leased, Scoped, Kept, Noted, BundleAttested, Busy
  <1>2. Loose = {} BY DEF Loose
  <1>3. OrphansCounted BY <1>2, FS_EmptySet DEF OrphansCounted
  <1> QED BY <1>1, <1>3 DEF ExportInv

\* Every step keeps the parts of the invariant
LEMMA NextHolds == ExportInv /\ [ExportNext]_exportVars => ExportInv'
  BY NextTyped, NextLeased, NextScoped, NextKept, NextNoted, NextAttested, NextOrphans DEF ExportInv

\* and so it holds in every reachable state.
LEMMA Holds == ExportSpec => []ExportInv
  BY InitHolds, NextHolds, PTL DEF ExportSpec

--------------------------------------------------------------------------------

\* In DataExportJob and MatterExportJob a ready bundle is attested or owed, and a bundle without a row is a fault's.
THEOREM Accounted == ExportSpec => []ExportAccounted
  <1>1. ExportInv => ExportAccounted
    <2> SUFFICES ASSUME ExportInv, \A x \in Workers : at[x] = "idle" PROVE Cardinality(Orphans) <= faults
      BY DEF ExportInv, ExportAccounted, NoOrphanBundle
    <2>1. Orphans = Loose BY DEF Orphans, Loose
    <2> QED BY <2>1 DEF ExportInv, OrphansCounted
  <1> QED BY <1>1, Holds, PTL

\* The initial row promises nothing yet.
LEMMA ResultStarts == ExportInit => Result!ResultInit
  BY DEF ExportInit, LeaseInit, Result!ResultInit, Verdict, Content, Downloadable, Final

\* A step of the jobs delivers, gives up, or shows the requester nothing new.
LEMMA ResultStep ==
    ASSUME ExportInv, ExportInv', [ExportNext]_exportVars PROVE [Result!ResultNext]_(Result!resultVars)
  <1> DEFINE Goal == [Result!ResultNext]_(Result!resultVars)
  <1> USE DEF Verdict, Content, Downloadable, Final
  <1>1. CASE row.is = "ready" /\ row'.is = "ready" /\ row'.blob = row.blob
    <2>1. Downloadable /\ Downloadable' BY <1>1 DEF ExportInv, Kept
    <2> QED BY <1>1, <2>1 DEF Result!resultVars
  <1>2. CASE row.is # "ready" /\ row'.is = row.is BY <1>2 DEF Result!resultVars
  <1>3. CASE row.is \in {"pending", "processing"} /\ row'.is \in {"pending", "processing"} BY <1>3 DEF Result!resultVars
  <1>4. CASE row.is \in {"pending", "processing"} /\ row'.is = "failed" BY <1>4 DEF Result!ResultNext, Result!GiveUp
  <1>5. CASE row.is \in {"pending", "processing"} /\ row'.is = "ready"
    <2>1. Downloadable' /\ row'.blob \in Nat \ {0} BY <1>5 DEF ExportInv, Kept, ExportTyped
    <2> QED BY <1>5, <2>1 DEF Result!ResultNext, Result!Deliver
  <1>6. \/ row.is = "ready" /\ row'.is = "ready" /\ row'.blob = row.blob
        \/ row.is # "ready" /\ row'.is = row.is
        \/ row.is \in {"pending", "processing"} /\ row'.is \in {"pending", "processing", "ready", "failed"}
    <2> DEFINE Moved == \/ row.is = "ready" /\ row'.is = "ready" /\ row'.blob = row.blob
                        \/ row.is # "ready" /\ row'.is = row.is
                        \/ row.is \in {"pending", "processing"} /\ row'.is \in {"pending", "processing", "ready", "failed"}
    <2>0. row'.is \in States BY DEF ExportInv, ExportTyped
    <2>1. ASSUME NEW x \in Workers, ClaimExport(x) \/ FailExport(x) \/ ReclaimExport(x) PROVE Moved
      BY <2>1, <2>0 DEF ClaimExport, Claim, FailExport, FailUnclaimed, ReclaimExport, Reclaim, Abandoned, States
    <2>2. ASSUME NEW x \in Workers, Finish(x) PROVE Moved
      <3>1. x \in latest => row.is = "processing" BY <2>2, Finished DEF ExportInv, Leased, Busy
      <3> QED BY <2>2, <3>1, Finished DEF ExportInv, Wins, Loses
    <2>3. ASSUME NEW x \in Workers, MarkExportFailed(x) PROVE Moved
      <3>1. x \in latest => row.is = "processing" BY <2>3 DEF ExportInv, Leased, Busy, MarkExportFailed
      <3> QED BY <2>3, <3>1, <2>0 DEF MarkExportFailed, MarkFailed, Writes, States
    <2>4. ASSUME NEW x \in Workers, StrikeOff(x) PROVE row'.is = row.is /\ row'.blob = row.blob
      BY <2>4 DEF StrikeOff, Writes, ExportInv, ExportTyped
    <2>5. ASSUME NEW x \in Workers,
                 \/ RenewExport(x) \/ Put(x) \/ PutFails(x) \/ FinishFails(x) \/ DeleteBlobQuietly(x)
                 \/ AttestOwed(x) \/ Attest(x) \/ CrashExport(x)
          PROVE  row' = row
      BY <2>5 DEF RenewExport, RenewLease, Writes, Put, PutFails, FinishFails, DeleteBlobQuietly, AttestOwed, Attest,
          CrashExport, Crash
    <2>6. ExportTime \/ UNCHANGED exportVars => row' = row BY DEF ExportTime, Passes, exportVars, leaseVars
    <2> QED BY <2>1, <2>2, <2>3, <2>4, <2>5, <2>6 DEF ExportNext, ExportStep, ExportFault
  <1> QED BY <1>1, <1>2, <1>3, <1>4, <1>5, <1>6

\* Every behaviour of the export jobs is one of OneResult: a request has one verdict, and a bundle that could be
\* downloaded once never changes and never disappears.
THEOREM Implements == ExportSpec => ImplementsOneResult
  BY ResultStarts, ResultStep, Holds, PTL DEF ExportSpec, ImplementsOneResult, Result!ResultSafe

--------------------------------------------------------------------------------
(****************************************************************************)
(* DKIM rotation: the job's steps, the administrator's requests and the     *)
(* deletion of keys, at any number of processes and administrators. The     *)
(* row's selectors were all minted, and none of them is both current, next  *)
(* and previous (RowShape); a task whose copy of the row is current holds   *)
(* the row (ReadIsRow, StageFits). A key that is deleted is one no row      *)
(* names (Unnamed), and a selector once retired is never taken again,       *)
(* because selectors are only minted upwards: so the selector of the row,   *)
(* of its predecessor and of the mail server's file keep their keys         *)
(* (KeysKept). That the selector file follows the row once nobody is about  *)
(* to point it (Pointed) rests on what a task at the switch still knows of  *)
(* it (Epoch), which a stalled or dead actor voids (lapses).                *)
(****************************************************************************)

Phases == {"idle", "pending", "switching", "overlap"}
DomainRows == [sel : Nat, phase : Phases, next : Nat, key : BOOLEAN, live : BOOLEAN, prev : Nat]
DkimStages == {"idle", "start", "generate", "record", "unrecord", "delete", "look", "confirm", "activate", "recheck",
    "point", "retire",
           "cancel", "revert", "save", "again", "undo"}
DkimTasks == [at : DkimStages, row : DomainRows, sel : Nat, current : BOOLEAN]
DkimTypeOK ==
    /\ dom \in DomainRows /\ minted \in Nat /\ keyFiles \subseteq Nat /\ selectorFile \in Nat
    /\ signing \in Nat /\ lapses \in Nat
    /\ task \in [Actors -> DkimTasks]
RowShape ==
    /\ dom.sel \in 1 .. minted /\ dom.next \in 0 .. minted /\ dom.prev \in 0 .. minted
    /\ dom.phase # "pending" => dom.next = 0 /\ dom.key = FALSE
    /\ dom.phase = "pending" => dom.next \in (1 .. minted) \ {dom.sel}
    /\ dom.phase \in {"idle", "pending"} => dom.prev = 0
    /\ dom.phase \in {"switching", "overlap"} => dom.prev \in (1 .. minted) \ {dom.sel}
\* A selector that was minted and that no row names.
Unnamed(s) == s \in 1 .. minted /\ s \notin {dom.sel, dom.next, dom.prev}
\* A selector that was minted and is not the one being prepared.
Settled(s) == s \in 1 .. minted /\ s # dom.next
\* The keys that are in use are there.
KeysKept ==
    /\ selectorFile \in keyFiles /\ dom.sel \in keyFiles
    /\ dom.prev # 0 => dom.prev \in keyFiles
    /\ dom.key => dom.next \in keyFiles
\* A task whose version still fits holds the row as it is.
ReadIsRow == \A a \in Actors : task[a].current => task[a].row = dom
\* Where a task is says what it read.
StageFits == \A a \in Actors : LET t == task[a] IN
    /\ t.at \in {"delete", "again"} => Unnamed(t.sel)
    /\ t.at \in {"generate", "record", "unrecord"} => t.sel \in 1 .. minted
    /\ t.current /\ t.at = "start" => dom.phase = "idle"
    /\ t.current /\ t.at \in {"generate", "record"} => dom.phase = "pending" /\ t.sel = dom.next
    /\ t.current /\ t.at = "record" => t.sel \in keyFiles
    /\ t.current /\ t.at = "look" => dom.phase = "pending" /\ dom.key
    /\ t.current /\ t.at = "retire" => dom.phase = "overlap"
    /\ t.current /\ t.at = "cancel" => dom.phase = "pending" /\ t.sel = dom.next
    /\ t.current /\ t.at \in {"confirm", "activate", "recheck", "revert", "save"} => dom.phase = "switching"
\* Nobody signs with, or is about to point to, a selector that is only being prepared.
NextUnused ==
    /\ Settled(selectorFile) /\ Settled(signing)
    /\ \A a \in Actors : LET t == task[a] IN
        /\ t.at \in {"confirm", "again"} => Settled(t.row.sel)
        /\ t.at \in {"revert", "save"} => Settled(t.row.prev)
        /\ t.at \in {"activate", "recheck", "point"} => Settled(t.sel)
        /\ t.at \in {"activate", "recheck"} => t.sel = t.row.sel
\* Without a lapse, a task at the switch saw the switch, or the switch is over.
Epoch == lapses = 0 => \A a \in Actors : LET t == task[a] IN
    /\ t.at \in {"confirm", "activate", "recheck", "revert", "save"} => t.current \/ dom.phase # "switching"
    /\ t.at \in {"again", "undo", "point"} => dom.phase # "switching"
    /\ t.at = "again" => t.row.sel = dom.sel
    /\ t.at = "point" => t.sel = dom.sel
\* A task that is about to point the selector file.
Fixes(a) == \/ task[a].at \in {"save", "again", "undo", "point"}
            \/ task[a].at = "recheck" /\ task[a].sel # dom.sel
\* The selector file names the selector of the row, or somebody is about to see to it.
Pointed ==
    lapses = 0 =>
        /\ dom.phase # "switching" => selectorFile = dom.sel \/ \E a \in Actors : Fixes(a)
        /\ dom.phase = "switching" /\ signing = dom.sel => selectorFile = dom.sel \/ \E a \in Actors : task[a].at = "save"
DkimInv == DkimTypeOK /\ RowShape /\ KeysKept /\ ReadIsRow /\ StageFits /\ NextUnused /\ Epoch /\ Pointed

\* A save leaves every other task's version behind (the row's versioned update).
OthersOutdated(a) == \A b \in Actors \ {a} : /\ task'[b].at = task[b].at /\ task'[b].row = task[b].row
                                     /\ task'[b].sel = task[b].sel /\ task'[b].current = FALSE

\* An actor at rest and a fresh domain have the types.
LEMMA NoTaskType == NoTask \in DkimTasks /\ FirstRow \in DomainRows
  BY DEF NoTask, FirstRow, DkimTasks, DomainRows, DkimStages, Phases

\* A step gives an actor another task and leaves the others' alone.
LEMMA TaskMoves ==
    ASSUME DkimTypeOK, NEW a \in Actors, NEW t \in DkimTasks, task' = [task EXCEPT ![a] = t]
    PROVE  task' \in [Actors -> DkimTasks] /\ task'[a] = t /\ \A b \in Actors \ {a} : task'[b] = task[b]
  BY DEF DkimTypeOK

\* An actor that goes on to another stage keeps the types (Goes).
LEMMA TaskGoes ==
    ASSUME DkimTypeOK, NEW a \in Actors, NEW stage \in DkimStages, Goes(a, stage)
    PROVE  task' \in [Actors -> DkimTasks]
  <1>1. [task[a] EXCEPT !.at = stage] \in DkimTasks
    BY DEF DkimTypeOK, DkimTasks
  <1>2. task' = [task EXCEPT ![a] = [task[a] EXCEPT !.at = stage]]
    BY DEF Goes
  <1>3. QED BY <1>1, <1>2, TaskMoves

\* An actor that ends is at rest (Done).
LEMMA TaskDone ==
    ASSUME DkimTypeOK, NEW a \in Actors, Done(a)
    PROVE  /\ task' \in [Actors -> DkimTasks] /\ task'[a] = NoTask /\ \A b \in Actors \ {a} : task'[b] = task[b]
  BY NoTaskType, TaskMoves DEF Done

\* A versioned save of the row (Saves) either conflicts, and goes on as a conflict does, or is the row
\* and outdates every other copy.
LEMMA SavesCases ==
    ASSUME DkimTypeOK, NEW a \in Actors, NEW saved \in DomainRows, NEW stage \in DkimStages, NEW sel \in Nat,
        NEW lost \in DkimStages,
           Saves(a, saved, stage, sel, lost)
    PROVE  /\ task' \in [Actors -> DkimTasks]
           /\ \/ ~task[a].current /\ UNCHANGED dom /\ IF lost = "idle" THEN Done(a) ELSE Goes(a, lost)
              \/ /\ task[a].current /\ dom' = saved /\ OthersOutdated(a)
                 /\ task'[a] = IF stage = "idle" THEN NoTask ELSE [at |-> stage, row |-> saved, sel |-> sel, current |-> TRUE]
  <1>1. CASE ~task[a].current
    BY <1>1, TaskDone, TaskGoes DEF Saves, Current
  <1>2. CASE task[a].current
    <2>1. /\ dom' = saved
          /\ task' = [b \in Actors |-> IF b # a THEN [task[b] EXCEPT !.current = FALSE]
                                       ELSE IF stage = "idle" THEN NoTask
                                       ELSE [at |-> stage, row |-> saved, sel |-> sel, current |-> TRUE]]
      BY <1>2 DEF Saves, Current
    <2>2. \A b \in Actors : [task[b] EXCEPT !.current = FALSE] \in DkimTasks
      BY DEF DkimTypeOK, DkimTasks
    <2>3. [at |-> stage, row |-> saved, sel |-> sel, current |-> TRUE] \in DkimTasks
      BY DEF DkimTasks
    <2>4. task' \in [Actors -> DkimTasks]
      BY <2>1, <2>2, <2>3, NoTaskType
    <2>5. OthersOutdated(a)
      BY <2>1 DEF OthersOutdated, DkimTypeOK, DkimTasks
    <2>6. QED BY <1>2, <2>1, <2>4, <2>5
  <1>3. QED BY <1>1, <1>2

\* An actor that ends without having been about to point the selector file keeps the invariant.
LEMMA RestKeeps ==
    ASSUME DkimInv, NEW a \in Actors, Done(a), ~Fixes(a), UNCHANGED <<dom, minted, keyFiles, selectorFile, signing, lapses>>
    PROVE  DkimInv'
  <1>1. DkimTypeOK'
    BY TaskDone DEF DkimTypeOK, DkimInv, NoTask
  <1>2. RowShape'
    BY TaskDone DEF RowShape, DkimInv, NoTask, DkimTypeOK
  <1>3. KeysKept'
    BY TaskDone DEF KeysKept, DkimInv, NoTask, DkimTypeOK
  <1>4. ReadIsRow'
    BY TaskDone DEF ReadIsRow, DkimInv, NoTask, DkimTypeOK
  <1>5. StageFits'
    BY TaskDone DEF StageFits, Unnamed, DkimInv, NoTask, DkimTypeOK
  <1>6. NextUnused'
    BY TaskDone DEF NextUnused, Settled, DkimInv, NoTask, DkimTypeOK
  <1>7. Epoch'
    BY TaskDone DEF Epoch, DkimInv, NoTask, DkimTypeOK
  <1>8. Pointed'
    BY TaskDone DEF Pointed, Fixes, DkimInv, NoTask, DkimTypeOK
  <1>9. QED BY <1>1, <1>2, <1>3, <1>4, <1>5, <1>6, <1>7, <1>8 DEF DkimInv

\* startDkimRotation() keeps it: the selector it mints was nobody's.
LEMMA StartKeeps ==
    ASSUME DkimInv, NEW a \in Actors, StartRotation(a)
    PROVE  DkimInv'
  <1> DEFINE saved == [task[a].row EXCEPT !.phase = "pending", !.next = minted + 1, !.key = FALSE, !.live = FALSE]
  <1>0. task[a] \in DkimTasks /\ task[a].row \in DomainRows /\ minted + 1 \in Nat
    BY DEF DkimInv, DkimTypeOK, DkimTasks
  <1>1. task[a] \in DkimTasks /\ task[a].row \in DomainRows /\ saved \in DomainRows /\ minted + 1 \in Nat
    BY <1>0 DEF DomainRows, Phases
  <1>2. /\ task[a].at = "start" /\ Saves(a, saved, "generate", minted + 1, "idle")
        /\ UNCHANGED <<keyFiles, selectorFile, signing, lapses>> /\ minted' = IF task[a].current THEN minted + 1 ELSE minted
    BY DEF StartRotation, Current
  <1>3. "generate" \in DkimStages /\ "idle" \in DkimStages
    BY DEF DkimStages
  <1> HIDE DEF saved
  <1>4. /\ task' \in [Actors -> DkimTasks]
        /\ \/ ~task[a].current /\ UNCHANGED dom /\ Done(a)
           \/ /\ task[a].current /\ dom' = saved /\ OthersOutdated(a)
              /\ task'[a] = [at |-> "generate", row |-> saved, sel |-> minted + 1, current |-> TRUE]
    BY <1>1, <1>2, <1>3, SavesCases DEF DkimInv
  <1>5. CASE ~task[a].current
    BY <1>2, <1>4, <1>5, RestKeeps DEF Fixes
  <1>6. CASE task[a].current
    <2>0. /\ dom' \in DomainRows /\ task' \in [Actors -> DkimTasks] /\ task'[a].row = dom'
          /\ OthersOutdated(a) /\ task'[a].at = "generate" /\ task'[a].sel = minted + 1
          /\ task'[a].current = TRUE
      BY <1>1, <1>4, <1>6 DEF NoTask
    <2>r. task[a].row = dom
      BY <1>6 DEF DkimInv, ReadIsRow
    <2>f. /\ dom'.sel = dom.sel /\ dom'.phase = "pending" /\ dom'.next = minted + 1 /\ dom'.key = FALSE
          /\ dom'.prev = dom.prev /\ minted' = minted + 1
      BY <1>1, <1>2, <1>4, <1>6, <2>r DEF saved, Idle, DkimInv, DkimTypeOK, DomainRows
    <2>p. dom.phase = "idle" /\ dom.prev = 0 /\ dom.next = 0
      BY <1>2, <1>6, <2>r DEF DkimInv, StageFits, RowShape
    <2>1. DkimTypeOK'
      BY <1>2, <2>0, <2>f, <2>p DEF DkimTypeOK, DkimInv, OthersOutdated, DomainRows, DkimTasks
    <2>2. RowShape'
      BY <1>2, <2>0, <2>f, <2>p DEF RowShape, DkimInv, OthersOutdated, DkimTypeOK, DomainRows, DkimTasks
    <2>3. KeysKept'
      BY <1>2, <2>0, <2>f, <2>p DEF KeysKept, DkimInv, OthersOutdated, DkimTypeOK, DomainRows, DkimTasks, RowShape,
         StageFits
    <2>4. ReadIsRow'
      BY <1>2, <2>0, <2>f, <2>p DEF ReadIsRow, DkimInv, OthersOutdated, DkimTypeOK, DomainRows, DkimTasks
    <2>5. StageFits'
      BY <1>2, <2>0, <2>f, <2>p DEF StageFits, Unnamed, DkimInv, OthersOutdated, DkimTypeOK, DomainRows, DkimTasks,
         RowShape
    <2>6. NextUnused'
      BY <1>2, <2>0, <2>f, <2>p DEF NextUnused, Settled, DkimInv, OthersOutdated, DkimTypeOK, DomainRows, DkimTasks,
         RowShape, StageFits
    <2>7. Epoch'
      BY <1>2, <2>0, <2>f, <2>p DEF Epoch, DkimInv, OthersOutdated, DkimTypeOK, DomainRows, DkimTasks, RowShape,
         StageFits
    <2>8. Pointed'
      BY <1>2, <2>0, <2>f, <2>p DEF Pointed, Fixes, DkimInv, OthersOutdated, DkimTypeOK, DomainRows, DkimTasks,
         RowShape, StageFits, Epoch
    <2>9. QED BY <2>1, <2>2, <2>3, <2>4, <2>5, <2>6, <2>7, <2>8 DEF DkimInv
  <1>7. QED BY <1>5, <1>6

\* generateNextDkimKey() recording the public key keeps it: the pair is there by then.
LEMMA RecordKeeps ==
    ASSUME DkimInv, NEW a \in Actors, Record(a)
    PROVE  DkimInv'
  <1> DEFINE saved == [task[a].row EXCEPT !.key = TRUE]
  <1>1. task[a] \in DkimTasks /\ task[a].row \in DomainRows /\ saved \in DomainRows /\ 0 \in Nat
    BY DEF DkimInv, DkimTypeOK, DkimTasks, DomainRows, Phases, Idle
  <1>2. /\ task[a].at = "record" /\ Saves(a, saved, "idle", 0, "unrecord")
        /\ UNCHANGED <<keyFiles, selectorFile, signing, lapses>> /\ minted' = minted
    BY DEF Record
  <1>3. "idle" \in DkimStages /\ "unrecord" \in DkimStages
    BY DEF DkimStages
  <1> HIDE DEF saved
  <1>4. /\ task' \in [Actors -> DkimTasks]
        /\ \/ ~task[a].current /\ UNCHANGED dom /\ Goes(a, "unrecord")
           \/ /\ task[a].current /\ dom' = saved /\ OthersOutdated(a)
              /\ task'[a] = NoTask
    BY <1>1, <1>2, <1>3, SavesCases DEF DkimInv
  <1>5. CASE ~task[a].current
    <2>1. DkimTypeOK'
      BY <1>2, <1>4, <1>5 DEF DkimTypeOK, DkimInv, Goes, DkimTasks
    <2>2. RowShape'
      BY <1>2, <1>4, <1>5 DEF RowShape, DkimInv, Goes, DkimTasks, DkimTypeOK
    <2>3. KeysKept'
      BY <1>2, <1>4, <1>5 DEF KeysKept, DkimInv, Goes, DkimTasks, DkimTypeOK
    <2>4. ReadIsRow'
      BY <1>2, <1>4, <1>5 DEF ReadIsRow, DkimInv, Goes, DkimTasks, DkimTypeOK
    <2>5. StageFits'
      BY <1>2, <1>4, <1>5 DEF StageFits, Unnamed, DkimInv, Goes, DkimTasks, DkimTypeOK, RowShape
    <2>6. NextUnused'
      BY <1>2, <1>4, <1>5 DEF NextUnused, Settled, DkimInv, Goes, DkimTasks, DkimTypeOK, RowShape
    <2>7. Epoch'
      BY <1>2, <1>4, <1>5 DEF Epoch, DkimInv, Goes, DkimTasks, DkimTypeOK, RowShape
    <2>8. Pointed'
      BY <1>2, <1>4, <1>5 DEF Pointed, Fixes, DkimInv, Goes, DkimTasks, DkimTypeOK, RowShape, Epoch
    <2>9. QED BY <2>1, <2>2, <2>3, <2>4, <2>5, <2>6, <2>7, <2>8 DEF DkimInv
  <1>6. CASE task[a].current
    <2>0. /\ dom' \in DomainRows /\ task' \in [Actors -> DkimTasks] /\ task'[a].row = FirstRow
          /\ OthersOutdated(a) /\ task'[a].at = "idle" /\ task'[a].sel = 0 /\ task'[a].current = FALSE
      BY <1>1, <1>4, <1>6 DEF NoTask
    <2>r. task[a].row = dom
      BY <1>6 DEF DkimInv, ReadIsRow
    <2>f. /\ dom'.sel = dom.sel /\ dom'.phase = dom.phase /\ dom'.next = dom.next /\ dom'.key = TRUE
          /\ dom'.prev = dom.prev /\ minted' = minted
      BY <1>1, <1>2, <1>4, <1>6, <2>r DEF saved, Idle, DkimInv, DkimTypeOK, DomainRows
    <2>p. dom.phase = "pending" /\ dom.next \in keyFiles
      BY <1>2, <1>6, <2>r DEF DkimInv, StageFits, RowShape
    <2>1. DkimTypeOK'
      BY <1>2, <2>0, <2>f, <2>p DEF DkimTypeOK, DkimInv, OthersOutdated, DomainRows, DkimTasks
    <2>2. RowShape'
      BY <1>2, <2>0, <2>f, <2>p DEF RowShape, DkimInv, OthersOutdated, DkimTypeOK, DomainRows, DkimTasks
    <2>3. KeysKept'
      BY <1>2, <2>0, <2>f, <2>p DEF KeysKept, DkimInv, OthersOutdated, DkimTypeOK, DomainRows, DkimTasks, RowShape,
         StageFits
    <2>4. ReadIsRow'
      BY <1>2, <2>0, <2>f, <2>p DEF ReadIsRow, DkimInv, OthersOutdated, DkimTypeOK, DomainRows, DkimTasks
    <2>5. StageFits'
      BY <1>2, <2>0, <2>f, <2>p DEF StageFits, Unnamed, DkimInv, OthersOutdated, DkimTypeOK, DomainRows, DkimTasks,
         RowShape
    <2>6. NextUnused'
      BY <1>2, <2>0, <2>f, <2>p DEF NextUnused, Settled, DkimInv, OthersOutdated, DkimTypeOK, DomainRows, DkimTasks,
         RowShape, StageFits
    <2>7. Epoch'
      BY <1>2, <2>0, <2>f, <2>p DEF Epoch, DkimInv, OthersOutdated, DkimTypeOK, DomainRows, DkimTasks, RowShape,
         StageFits
    <2>8. Pointed'
      BY <1>2, <2>0, <2>f, <2>p DEF Pointed, Fixes, DkimInv, OthersOutdated, DkimTypeOK, DomainRows, DkimTasks,
         RowShape, StageFits, Epoch
    <2>9. QED BY <2>1, <2>2, <2>3, <2>4, <2>5, <2>6, <2>7, <2>8 DEF DkimInv
  <1>7. QED BY <1>5, <1>6

\* retireDkimRotation() keeps it: the predecessor it drops is unnamed once the row is saved.
LEMMA RetireKeeps ==
    ASSUME DkimInv, NEW a \in Actors, Retire(a)
    PROVE  DkimInv'
  <1> DEFINE saved == Idle(task[a].row)
  <1>1. task[a] \in DkimTasks /\ task[a].row \in DomainRows /\ saved \in DomainRows /\ task[a].row.prev \in Nat
    BY DEF DkimInv, DkimTypeOK, DkimTasks, DomainRows, Phases, Idle
  <1>2. /\ task[a].at = "retire" /\ Saves(a, saved, "delete", task[a].row.prev, "idle")
        /\ UNCHANGED <<keyFiles, selectorFile, signing, lapses>> /\ minted' = minted
    BY DEF Retire
  <1>3. "delete" \in DkimStages /\ "idle" \in DkimStages
    BY DEF DkimStages
  <1> HIDE DEF saved
  <1>4. /\ task' \in [Actors -> DkimTasks]
        /\ \/ ~task[a].current /\ UNCHANGED dom /\ Done(a)
           \/ /\ task[a].current /\ dom' = saved /\ OthersOutdated(a)
              /\ task'[a] = [at |-> "delete", row |-> saved, sel |-> task[a].row.prev, current |-> TRUE]
    BY <1>1, <1>2, <1>3, SavesCases DEF DkimInv
  <1>5. CASE ~task[a].current
    BY <1>2, <1>4, <1>5, RestKeeps DEF Fixes
  <1>6. CASE task[a].current
    <2>0. /\ dom' \in DomainRows /\ task' \in [Actors -> DkimTasks] /\ task'[a].row = dom'
          /\ OthersOutdated(a) /\ task'[a].at = "delete" /\ task'[a].sel = task[a].row.prev
          /\ task'[a].current = TRUE
      BY <1>1, <1>4, <1>6 DEF NoTask
    <2>r. task[a].row = dom
      BY <1>6 DEF DkimInv, ReadIsRow
    <2>f. /\ dom'.sel = dom.sel /\ dom'.phase = "idle" /\ dom'.next = 0 /\ dom'.key = FALSE /\ dom'.prev = 0
          /\ minted' = minted
      BY <1>1, <1>2, <1>4, <1>6, <2>r DEF saved, Idle, DkimInv, DkimTypeOK, DomainRows
    <2>p. dom.phase = "overlap" /\ task[a].row.prev = dom.prev
      BY <1>2, <1>6, <2>r DEF DkimInv, StageFits, RowShape
    <2>1. DkimTypeOK'
      BY <1>2, <2>0, <2>f, <2>p DEF DkimTypeOK, DkimInv, OthersOutdated, DomainRows, DkimTasks
    <2>2. RowShape'
      BY <1>2, <2>0, <2>f, <2>p DEF RowShape, DkimInv, OthersOutdated, DkimTypeOK, DomainRows, DkimTasks
    <2>3. KeysKept'
      BY <1>2, <2>0, <2>f, <2>p DEF KeysKept, DkimInv, OthersOutdated, DkimTypeOK, DomainRows, DkimTasks, RowShape,
         StageFits
    <2>4. ReadIsRow'
      BY <1>2, <2>0, <2>f, <2>p DEF ReadIsRow, DkimInv, OthersOutdated, DkimTypeOK, DomainRows, DkimTasks
    <2>5. StageFits'
      BY <1>2, <2>0, <2>f, <2>p DEF StageFits, Unnamed, DkimInv, OthersOutdated, DkimTypeOK, DomainRows, DkimTasks,
         RowShape
    <2>6. NextUnused'
      BY <1>2, <2>0, <2>f, <2>p DEF NextUnused, Settled, DkimInv, OthersOutdated, DkimTypeOK, DomainRows, DkimTasks,
         RowShape, StageFits
    <2>7. Epoch'
      BY <1>2, <2>0, <2>f, <2>p DEF Epoch, DkimInv, OthersOutdated, DkimTypeOK, DomainRows, DkimTasks, RowShape,
         StageFits
    <2>8. Pointed'
      BY <1>2, <2>0, <2>f, <2>p DEF Pointed, Fixes, DkimInv, OthersOutdated, DkimTypeOK, DomainRows, DkimTasks,
         RowShape, StageFits, Epoch
    <2>9. QED BY <2>1, <2>2, <2>3, <2>4, <2>5, <2>6, <2>7, <2>8 DEF DkimInv
  <1>7. QED BY <1>5, <1>6

\* cancelDkimRotation() keeps it: so is the selector that was being prepared.
LEMMA CancelKeeps ==
    ASSUME DkimInv, NEW a \in Actors, Cancel(a)
    PROVE  DkimInv'
  <1> DEFINE saved == Idle(task[a].row)
  <1>1. task[a] \in DkimTasks /\ task[a].row \in DomainRows /\ saved \in DomainRows /\ task[a].sel \in Nat
    BY DEF DkimInv, DkimTypeOK, DkimTasks, DomainRows, Phases, Idle
  <1>2. /\ task[a].at = "cancel" /\ Saves(a, saved, "delete", task[a].sel, "idle")
        /\ UNCHANGED <<keyFiles, selectorFile, signing, lapses>> /\ minted' = minted
    BY DEF Cancel
  <1>3. "delete" \in DkimStages /\ "idle" \in DkimStages
    BY DEF DkimStages
  <1> HIDE DEF saved
  <1>4. /\ task' \in [Actors -> DkimTasks]
        /\ \/ ~task[a].current /\ UNCHANGED dom /\ Done(a)
           \/ /\ task[a].current /\ dom' = saved /\ OthersOutdated(a)
              /\ task'[a] = [at |-> "delete", row |-> saved, sel |-> task[a].sel, current |-> TRUE]
    BY <1>1, <1>2, <1>3, SavesCases DEF DkimInv
  <1>5. CASE ~task[a].current
    BY <1>2, <1>4, <1>5, RestKeeps DEF Fixes
  <1>6. CASE task[a].current
    <2>0. /\ dom' \in DomainRows /\ task' \in [Actors -> DkimTasks] /\ task'[a].row = dom'
          /\ OthersOutdated(a) /\ task'[a].at = "delete" /\ task'[a].sel = task[a].sel
          /\ task'[a].current = TRUE
      BY <1>1, <1>4, <1>6 DEF NoTask
    <2>r. task[a].row = dom
      BY <1>6 DEF DkimInv, ReadIsRow
    <2>f. /\ dom'.sel = dom.sel /\ dom'.phase = "idle" /\ dom'.next = 0 /\ dom'.key = FALSE /\ dom'.prev = 0
          /\ minted' = minted
      BY <1>1, <1>2, <1>4, <1>6, <2>r DEF saved, Idle, DkimInv, DkimTypeOK, DomainRows
    <2>p. dom.phase = "pending" /\ task[a].sel = dom.next
      BY <1>2, <1>6, <2>r DEF DkimInv, StageFits, RowShape
    <2>1. DkimTypeOK'
      BY <1>2, <2>0, <2>f, <2>p DEF DkimTypeOK, DkimInv, OthersOutdated, DomainRows, DkimTasks
    <2>2. RowShape'
      BY <1>2, <2>0, <2>f, <2>p DEF RowShape, DkimInv, OthersOutdated, DkimTypeOK, DomainRows, DkimTasks
    <2>3. KeysKept'
      BY <1>2, <2>0, <2>f, <2>p DEF KeysKept, DkimInv, OthersOutdated, DkimTypeOK, DomainRows, DkimTasks, RowShape,
         StageFits
    <2>4. ReadIsRow'
      BY <1>2, <2>0, <2>f, <2>p DEF ReadIsRow, DkimInv, OthersOutdated, DkimTypeOK, DomainRows, DkimTasks
    <2>5. StageFits'
      BY <1>2, <2>0, <2>f, <2>p DEF StageFits, Unnamed, DkimInv, OthersOutdated, DkimTypeOK, DomainRows, DkimTasks,
         RowShape
    <2>6. NextUnused'
      BY <1>2, <2>0, <2>f, <2>p DEF NextUnused, Settled, DkimInv, OthersOutdated, DkimTypeOK, DomainRows, DkimTasks,
         RowShape, StageFits
    <2>7. Epoch'
      BY <1>2, <2>0, <2>f, <2>p DEF Epoch, DkimInv, OthersOutdated, DkimTypeOK, DomainRows, DkimTasks, RowShape,
         StageFits
    <2>8. Pointed'
      BY <1>2, <2>0, <2>f, <2>p DEF Pointed, Fixes, DkimInv, OthersOutdated, DkimTypeOK, DomainRows, DkimTasks,
         RowShape, StageFits, Epoch
    <2>9. QED BY <2>1, <2>2, <2>3, <2>4, <2>5, <2>6, <2>7, <2>8 DEF DkimInv
  <1>7. QED BY <1>5, <1>6

\* The save of revertDkimSwitch() keeps it: the row names the predecessor again, whose key is there.
LEMMA SaveRevertKeeps ==
    ASSUME DkimInv, NEW a \in Actors, SaveRevert(a)
    PROVE  DkimInv'
  <1> DEFINE saved == [Idle(task[a].row) EXCEPT !.sel = task[a].row.prev]
  <1>0. task[a].row \in DomainRows /\ Idle(task[a].row) \in DomainRows
    BY DEF DkimInv, DkimTypeOK, DkimTasks, DomainRows, Phases, Idle
  <1>1. task[a] \in DkimTasks /\ task[a].row \in DomainRows /\ saved \in DomainRows /\ task[a].row.sel \in Nat
    BY <1>0 DEF DkimInv, DkimTypeOK, DkimTasks, DomainRows
  <1>2. /\ task[a].at = "save" /\ Saves(a, saved, "again", task[a].row.sel, "undo")
        /\ UNCHANGED <<keyFiles, selectorFile, signing, lapses>> /\ minted' = minted
    BY DEF SaveRevert
  <1>3. "again" \in DkimStages /\ "undo" \in DkimStages
    BY DEF DkimStages
  <1> HIDE DEF saved
  <1>4. /\ task' \in [Actors -> DkimTasks]
        /\ \/ ~task[a].current /\ UNCHANGED dom /\ Goes(a, "undo")
           \/ /\ task[a].current /\ dom' = saved /\ OthersOutdated(a)
              /\ task'[a] = [at |-> "again", row |-> saved, sel |-> task[a].row.sel, current |-> TRUE]
    BY <1>1, <1>2, <1>3, SavesCases DEF DkimInv
  <1>5. CASE ~task[a].current
    <2>1. DkimTypeOK'
      BY <1>2, <1>4, <1>5 DEF DkimTypeOK, DkimInv, Goes, DkimTasks
    <2>2. RowShape'
      BY <1>2, <1>4, <1>5 DEF RowShape, DkimInv, Goes, DkimTasks, DkimTypeOK
    <2>3. KeysKept'
      BY <1>2, <1>4, <1>5 DEF KeysKept, DkimInv, Goes, DkimTasks, DkimTypeOK
    <2>4. ReadIsRow'
      BY <1>2, <1>4, <1>5 DEF ReadIsRow, DkimInv, Goes, DkimTasks, DkimTypeOK
    <2>5. StageFits'
      BY <1>2, <1>4, <1>5 DEF StageFits, Unnamed, DkimInv, Goes, DkimTasks, DkimTypeOK, RowShape
    <2>6. NextUnused'
      BY <1>2, <1>4, <1>5 DEF NextUnused, Settled, DkimInv, Goes, DkimTasks, DkimTypeOK, RowShape
    <2>7. Epoch'
      BY <1>2, <1>4, <1>5 DEF Epoch, DkimInv, Goes, DkimTasks, DkimTypeOK, RowShape
    <2>8. Pointed'
      BY <1>2, <1>4, <1>5 DEF Pointed, Fixes, DkimInv, Goes, DkimTasks, DkimTypeOK, RowShape, Epoch
    <2>9. QED BY <2>1, <2>2, <2>3, <2>4, <2>5, <2>6, <2>7, <2>8 DEF DkimInv
  <1>6. CASE task[a].current
    <2>0. /\ dom' \in DomainRows /\ task' \in [Actors -> DkimTasks] /\ task'[a].row = dom'
          /\ OthersOutdated(a) /\ task'[a].at = "again" /\ task'[a].sel = task[a].row.sel
          /\ task'[a].current = TRUE
      BY <1>1, <1>4, <1>6 DEF NoTask
    <2>r. task[a].row = dom
      BY <1>6 DEF DkimInv, ReadIsRow
    <2>f. /\ dom'.sel = dom.prev /\ dom'.phase = "idle" /\ dom'.next = 0 /\ dom'.key = FALSE /\ dom'.prev = 0
          /\ minted' = minted
      BY <1>1, <1>2, <1>4, <1>6, <2>r DEF saved, Idle, DkimInv, DkimTypeOK, DomainRows
    <2>p. dom.phase = "switching" /\ task[a].row = dom
      BY <1>2, <1>6, <2>r DEF DkimInv, StageFits, RowShape
    <2>1. DkimTypeOK'
      BY <1>2, <2>0, <2>f, <2>p DEF DkimTypeOK, DkimInv, OthersOutdated, DomainRows, DkimTasks
    <2>2. RowShape'
      BY <1>2, <2>0, <2>f, <2>p DEF RowShape, DkimInv, OthersOutdated, DkimTypeOK, DomainRows, DkimTasks
    <2>3. KeysKept'
      BY <1>2, <2>0, <2>f, <2>p DEF KeysKept, DkimInv, OthersOutdated, DkimTypeOK, DomainRows, DkimTasks, RowShape,
         StageFits
    <2>4. ReadIsRow'
      BY <1>2, <2>0, <2>f, <2>p DEF ReadIsRow, DkimInv, OthersOutdated, DkimTypeOK, DomainRows, DkimTasks
    <2>5. StageFits'
      BY <1>2, <2>0, <2>f, <2>p DEF StageFits, Unnamed, DkimInv, OthersOutdated, DkimTypeOK, DomainRows, DkimTasks,
         RowShape
    <2>6. NextUnused'
      BY <1>2, <2>0, <2>f, <2>p DEF NextUnused, Settled, DkimInv, OthersOutdated, DkimTypeOK, DomainRows, DkimTasks,
         RowShape, StageFits
    <2>7. Epoch'
      BY <1>2, <2>0, <2>f, <2>p DEF Epoch, DkimInv, OthersOutdated, DkimTypeOK, DomainRows, DkimTasks, RowShape,
         StageFits
    <2>8. Pointed'
      BY <1>2, <2>0, <2>f, <2>p DEF Pointed, Fixes, DkimInv, OthersOutdated, DkimTypeOK, DomainRows, DkimTasks,
         RowShape, StageFits, Epoch
    <2>9. QED BY <2>1, <2>2, <2>3, <2>4, <2>5, <2>6, <2>7, <2>8 DEF DkimInv
  <1>7. QED BY <1>5, <1>6

\* The job's read of the row (DkimRotationJob.run) keeps it.
LEMMA JobReadsKeeps ==
    ASSUME DkimInv, NEW a \in Actors, JobReads(a)
    PROVE  DkimInv'
  <1>1. DkimTypeOK'
    BY RotationAssumption DEF DkimInv, NoTask, FirstRow, Actors, JobReads, DkimTypeOK, Reading, NeedsKey, DomainRows,
       DkimTasks, Phases, DkimStages
  <1>2. RowShape'
    BY RotationAssumption DEF DkimInv, NoTask, FirstRow, Actors, JobReads, RowShape, Reading, NeedsKey, DkimTypeOK,
       DomainRows, DkimTasks, Phases, ReadIsRow, StageFits
  <1>3. KeysKept'
    BY RotationAssumption DEF DkimInv, NoTask, FirstRow, Actors, JobReads, KeysKept, Reading, NeedsKey, DkimTypeOK,
       DomainRows, DkimTasks, Phases, RowShape, ReadIsRow, StageFits
  <1>4. ReadIsRow'
    BY RotationAssumption DEF DkimInv, NoTask, FirstRow, Actors, JobReads, ReadIsRow, Reading, NeedsKey, DkimTypeOK,
       DomainRows, DkimTasks
  <1>5. StageFits'
    BY RotationAssumption DEF DkimInv, NoTask, FirstRow, Actors, JobReads, StageFits, Reading, NeedsKey, Unnamed,
       DkimTypeOK, DomainRows, DkimTasks, Phases, RowShape, ReadIsRow, KeysKept
  <1>6. NextUnused'
    BY RotationAssumption DEF DkimInv, NoTask, FirstRow, Actors, JobReads, NextUnused, Reading, NeedsKey, Settled,
       DkimTypeOK, DomainRows, DkimTasks, Phases, RowShape, ReadIsRow, StageFits
  <1>7. Epoch'
    BY RotationAssumption DEF DkimInv, NoTask, FirstRow, Actors, JobReads, Epoch, Reading, NeedsKey, DkimTypeOK,
       DomainRows, DkimTasks, Phases, RowShape, ReadIsRow, StageFits
  <1>8. Pointed'
    BY RotationAssumption DEF DkimInv, NoTask, FirstRow, Actors, JobReads, Pointed, Reading, NeedsKey, DkimTypeOK,
       DomainRows, DkimTasks, Phases, Fixes, RowShape, ReadIsRow, StageFits, KeysKept, NextUnused, Epoch
  <1>9. QED BY <1>1, <1>2, <1>3, <1>4, <1>5, <1>6, <1>7, <1>8 DEF DkimInv

\* An administrator's read (rotateDkim, reportDkimKeyCompromised, the cancellation) keeps it.
LEMMA AdminReadsKeeps ==
    ASSUME DkimInv, NEW a \in Actors, AdminReads(a)
    PROVE  DkimInv'
  <1>a. /\ Reading("start", 0) \in DkimTasks /\ Reading("retire", 0) \in DkimTasks
        /\ Reading("cancel", dom.next) \in DkimTasks
        /\ Reading("revert", dom.sel) \in DkimTasks
    BY DEF Reading, DkimTasks, DkimStages, DkimInv, DkimTypeOK, DomainRows
  <1>c. task' \in [Actors -> DkimTasks]
    BY <1>a, TaskMoves DEF AdminReads, DkimInv
  <1>1. DkimTypeOK'
    BY <1>c DEF DkimInv, DkimTypeOK, AdminReads
  <1>2. RowShape'
    BY RotationAssumption DEF DkimInv, NoTask, FirstRow, Actors, AdminReads, RowShape, Reading, DkimTypeOK, DomainRows,
       DkimTasks, Phases, ReadIsRow, StageFits
  <1>3. KeysKept'
    BY RotationAssumption DEF DkimInv, NoTask, FirstRow, Actors, AdminReads, KeysKept, Reading, DkimTypeOK, DomainRows,
       DkimTasks, Phases, RowShape, ReadIsRow, StageFits
  <1>4. ReadIsRow'
    BY RotationAssumption DEF DkimInv, NoTask, FirstRow, Actors, AdminReads, ReadIsRow, Reading, DkimTypeOK, DomainRows,
       DkimTasks
  <1>5. StageFits'
    BY RotationAssumption DEF DkimInv, NoTask, FirstRow, Actors, AdminReads, StageFits, Reading, Unnamed, DkimTypeOK,
       DomainRows, DkimTasks, Phases, RowShape, ReadIsRow, KeysKept
  <1>6. NextUnused'
    BY RotationAssumption DEF DkimInv, NoTask, FirstRow, Actors, AdminReads, NextUnused, Reading, Settled, DkimTypeOK,
       DomainRows, DkimTasks, Phases, RowShape, ReadIsRow, StageFits
  <1>7. Epoch'
    BY RotationAssumption DEF DkimInv, NoTask, FirstRow, Actors, AdminReads, Epoch, Reading, DkimTypeOK, DomainRows,
       DkimTasks, Phases, RowShape, ReadIsRow, StageFits
  <1>8. Pointed'
    BY RotationAssumption DEF DkimInv, NoTask, FirstRow, Actors, AdminReads, Pointed, Reading, DkimTypeOK, DomainRows,
       DkimTasks, Phases, Fixes, RowShape, ReadIsRow, StageFits, KeysKept, NextUnused, Epoch
  <1>9. QED BY <1>1, <1>2, <1>3, <1>4, <1>5, <1>6, <1>7, <1>8 DEF DkimInv

\* deleteUnrecordedDkimKey() keeps it: it goes on to delete only what no row names.
LEMMA UnrecordKeeps ==
    ASSUME DkimInv, NEW a \in Actors, Unrecord(a)
    PROVE  DkimInv'
  <1>a. Done(a) \/ Goes(a, "delete")
    BY DEF Unrecord
  <1>b. "delete" \in DkimStages
    BY DEF DkimStages
  <1>c. task' \in [Actors -> DkimTasks]
    BY <1>a, <1>b, TaskDone, TaskGoes DEF DkimInv
  <1>1. DkimTypeOK'
    BY <1>c DEF DkimInv, DkimTypeOK, Unrecord, Points
  <1>2. RowShape'
    BY RotationAssumption DEF DkimInv, NoTask, FirstRow, Actors, Unrecord, RowShape, Goes, Done, DkimTypeOK, DomainRows,
       DkimTasks, Phases, ReadIsRow, StageFits
  <1>3. KeysKept'
    BY RotationAssumption DEF DkimInv, NoTask, FirstRow, Actors, Unrecord, KeysKept, Goes, Done, DkimTypeOK, DomainRows,
       DkimTasks, Phases, RowShape, ReadIsRow, StageFits
  <1>4. ReadIsRow'
    BY RotationAssumption DEF DkimInv, NoTask, FirstRow, Actors, Unrecord, ReadIsRow, Goes, Done, DkimTypeOK,
       DomainRows, DkimTasks
  <1>5. StageFits'
    BY RotationAssumption DEF DkimInv, NoTask, FirstRow, Actors, Unrecord, StageFits, Goes, Done, Unnamed, DkimTypeOK,
       DomainRows, DkimTasks, Phases, RowShape, ReadIsRow, KeysKept
  <1>6. NextUnused'
    BY RotationAssumption DEF DkimInv, NoTask, FirstRow, Actors, Unrecord, NextUnused, Goes, Done, Settled, DkimTypeOK,
       DomainRows, DkimTasks, Phases, RowShape, ReadIsRow, StageFits
  <1>7. Epoch'
    BY RotationAssumption DEF DkimInv, NoTask, FirstRow, Actors, Unrecord, Epoch, Goes, Done, DkimTypeOK, DomainRows,
       DkimTasks, Phases, RowShape, ReadIsRow, StageFits
  <1>8. Pointed'
    BY RotationAssumption DEF DkimInv, NoTask, FirstRow, Actors, Unrecord, Pointed, Goes, Done, DkimTypeOK, DomainRows,
       DkimTasks, Phases, Fixes, RowShape, ReadIsRow, StageFits, KeysKept, NextUnused, Epoch
  <1>9. QED BY <1>1, <1>2, <1>3, <1>4, <1>5, <1>6, <1>7, <1>8 DEF DkimInv

\* FsDkimKeyProvider.deleteKeyPair() keeps it: neither the row nor the selector file names the key.
LEMMA DeleteKeyPairKeeps ==
    ASSUME DkimInv, NEW a \in Actors, DeleteKeyPair(a)
    PROVE  DkimInv'
  <1>1. DkimTypeOK'
    BY RotationAssumption DEF DkimInv, NoTask, FirstRow, Actors, DeleteKeyPair, DkimTypeOK, Done, InUse, DomainRows,
       DkimTasks, Phases, DkimStages
  <1>2. RowShape'
    BY RotationAssumption DEF DkimInv, NoTask, FirstRow, Actors, DeleteKeyPair, RowShape, Done, InUse, DkimTypeOK,
       DomainRows, DkimTasks, Phases, ReadIsRow, StageFits
  <1>d. /\ Unnamed(task[a].sel) /\ keyFiles \ {task[a].sel} \subseteq keyFiles'
        /\ (task[a].sel = selectorFile => keyFiles' = keyFiles)
    BY DEF DkimInv, StageFits, DeleteKeyPair, InUse
  <1>3. KeysKept'
    BY <1>d DEF DkimInv, KeysKept, Unnamed, DeleteKeyPair, DkimTypeOK, DomainRows, RowShape
  <1>4. ReadIsRow'
    BY RotationAssumption DEF DkimInv, NoTask, FirstRow, Actors, DeleteKeyPair, ReadIsRow, Done, InUse, DkimTypeOK,
       DomainRows, DkimTasks
  <1>5. StageFits'
    BY RotationAssumption DEF DkimInv, NoTask, FirstRow, Actors, DeleteKeyPair, StageFits, Done, InUse, Unnamed,
       DkimTypeOK, DomainRows, DkimTasks, Phases, RowShape, ReadIsRow, KeysKept
  <1>6. NextUnused'
    BY RotationAssumption DEF DkimInv, NoTask, FirstRow, Actors, DeleteKeyPair, NextUnused, Done, InUse, Settled,
       DkimTypeOK, DomainRows, DkimTasks, Phases, RowShape, ReadIsRow, StageFits
  <1>7. Epoch'
    BY RotationAssumption DEF DkimInv, NoTask, FirstRow, Actors, DeleteKeyPair, Epoch, Done, InUse, DkimTypeOK,
       DomainRows, DkimTasks, Phases, RowShape, ReadIsRow, StageFits
  <1>8. Pointed'
    BY RotationAssumption DEF DkimInv, NoTask, FirstRow, Actors, DeleteKeyPair, Pointed, Done, InUse, DkimTypeOK,
       DomainRows, DkimTasks, Phases, Fixes, RowShape, ReadIsRow, StageFits, KeysKept, NextUnused, Epoch
  <1>9. QED BY <1>1, <1>2, <1>3, <1>4, <1>5, <1>6, <1>7, <1>8 DEF DkimInv

\* activate() keeps it: it points the file only to a selector that has a key.
LEMMA ActivateKeeps ==
    ASSUME DkimInv, NEW a \in Actors, Activate(a)
    PROVE  DkimInv'
  <1>a. Done(a) \/ Goes(a, "recheck")
    BY DEF Activate
  <1>b. "recheck" \in DkimStages
    BY DEF DkimStages
  <1>c. task' \in [Actors -> DkimTasks]
    BY <1>a, <1>b, TaskDone, TaskGoes DEF DkimInv
  <1>1. DkimTypeOK'
    BY <1>c DEF DkimInv, DkimTypeOK, Activate, Points
  <1>2. RowShape'
    BY RotationAssumption DEF DkimInv, NoTask, FirstRow, Actors, Activate, RowShape, Points, Goes, Done, DkimTypeOK,
       DomainRows, DkimTasks, Phases, ReadIsRow, StageFits
  <1>3. KeysKept'
    BY RotationAssumption DEF DkimInv, NoTask, FirstRow, Actors, Activate, KeysKept, Points, Goes, Done, DkimTypeOK,
       DomainRows, DkimTasks, Phases, RowShape, ReadIsRow, StageFits
  <1>4. ReadIsRow'
    BY RotationAssumption DEF DkimInv, NoTask, FirstRow, Actors, Activate, ReadIsRow, Points, Goes, Done, DkimTypeOK,
       DomainRows, DkimTasks
  <1>5. StageFits'
    BY RotationAssumption DEF DkimInv, NoTask, FirstRow, Actors, Activate, StageFits, Points, Goes, Done, Unnamed,
       DkimTypeOK, DomainRows, DkimTasks, Phases, RowShape, ReadIsRow, KeysKept
  <1>6. NextUnused'
    BY RotationAssumption DEF DkimInv, NoTask, FirstRow, Actors, Activate, NextUnused, Points, Goes, Done, Settled,
       DkimTypeOK, DomainRows, DkimTasks, Phases, RowShape, ReadIsRow, StageFits
  <1>7. Epoch'
    BY RotationAssumption DEF DkimInv, NoTask, FirstRow, Actors, Activate, Epoch, Points, Goes, Done, DkimTypeOK,
       DomainRows, DkimTasks, Phases, RowShape, ReadIsRow, StageFits
  <1>8. Pointed'
    BY RotationAssumption DEF DkimInv, NoTask, FirstRow, Actors, Activate, Pointed, Points, Goes, Done, DkimTypeOK,
       DomainRows, DkimTasks, Phases, Fixes, RowShape, ReadIsRow, StageFits, KeysKept, NextUnused, Epoch
  <1>9. QED BY <1>1, <1>2, <1>3, <1>4, <1>5, <1>6, <1>7, <1>8 DEF DkimInv

\* The second look of stepSwitching() keeps it: a reverted switch is pointed back.
LEMMA RecheckKeeps ==
    ASSUME DkimInv, NEW a \in Actors, Recheck(a)
    PROVE  DkimInv'
  <1>a. [task[a] EXCEPT !.at = "point", !.sel = dom.sel] \in DkimTasks
    BY DEF DkimTasks, DkimStages, DkimInv, DkimTypeOK, DomainRows
  <1>b. task' = [task EXCEPT ![a] = [task[a] EXCEPT !.at = "point", !.sel = dom.sel]] \/ Done(a)
    BY DEF Recheck
  <1>c. task' \in [Actors -> DkimTasks]
    BY <1>a, <1>b, TaskMoves, TaskDone DEF DkimInv
  <1>1. DkimTypeOK'
    BY <1>c DEF DkimInv, DkimTypeOK, Recheck
  <1>2. RowShape'
    BY RotationAssumption DEF DkimInv, NoTask, FirstRow, Actors, Recheck, RowShape, Reverted, Done, DkimTypeOK,
       DomainRows, DkimTasks, Phases, ReadIsRow, StageFits
  <1>3. KeysKept'
    BY RotationAssumption DEF DkimInv, NoTask, FirstRow, Actors, Recheck, KeysKept, Reverted, Done, DkimTypeOK,
       DomainRows, DkimTasks, Phases, RowShape, ReadIsRow, StageFits
  <1>4. ReadIsRow'
    BY RotationAssumption DEF DkimInv, NoTask, FirstRow, Actors, Recheck, ReadIsRow, Reverted, Done, DkimTypeOK,
       DomainRows, DkimTasks
  <1>5. StageFits'
    BY RotationAssumption DEF DkimInv, NoTask, FirstRow, Actors, Recheck, StageFits, Reverted, Done, Unnamed,
       DkimTypeOK, DomainRows, DkimTasks, Phases, RowShape, ReadIsRow, KeysKept
  <1>6. NextUnused'
    BY RotationAssumption DEF DkimInv, NoTask, FirstRow, Actors, Recheck, NextUnused, Reverted, Done, Settled,
       DkimTypeOK, DomainRows, DkimTasks, Phases, RowShape, ReadIsRow, StageFits
  <1>7. Epoch'
    BY RotationAssumption DEF DkimInv, NoTask, FirstRow, Actors, Recheck, Epoch, Reverted, Done, DkimTypeOK, DomainRows,
       DkimTasks, Phases, RowShape, ReadIsRow, StageFits
  <1>8. Pointed'
    BY RotationAssumption DEF DkimInv, NoTask, FirstRow, Actors, Recheck, Pointed, Reverted, Done, DkimTypeOK,
       DomainRows, DkimTasks, Phases, Fixes, RowShape, ReadIsRow, StageFits, KeysKept, NextUnused, Epoch
  <1>9. QED BY <1>1, <1>2, <1>3, <1>4, <1>5, <1>6, <1>7, <1>8 DEF DkimInv

\* Pointing the file to what the row said keeps it.
LEMMA PointKeeps ==
    ASSUME DkimInv, NEW a \in Actors, Point(a)
    PROVE  DkimInv'
  <1>1. DkimTypeOK'
    BY RotationAssumption DEF DkimInv, NoTask, FirstRow, Actors, Point, DkimTypeOK, Points, Done, DomainRows, DkimTasks,
       Phases, DkimStages
  <1>2. RowShape'
    BY RotationAssumption DEF DkimInv, NoTask, FirstRow, Actors, Point, RowShape, Points, Done, DkimTypeOK, DomainRows,
       DkimTasks, Phases, ReadIsRow, StageFits
  <1>3. KeysKept'
    BY RotationAssumption DEF DkimInv, NoTask, FirstRow, Actors, Point, KeysKept, Points, Done, DkimTypeOK, DomainRows,
       DkimTasks, Phases, RowShape, ReadIsRow, StageFits
  <1>4. ReadIsRow'
    BY RotationAssumption DEF DkimInv, NoTask, FirstRow, Actors, Point, ReadIsRow, Points, Done, DkimTypeOK, DomainRows,
       DkimTasks
  <1>5. StageFits'
    BY RotationAssumption DEF DkimInv, NoTask, FirstRow, Actors, Point, StageFits, Points, Done, Unnamed, DkimTypeOK,
       DomainRows, DkimTasks, Phases, RowShape, ReadIsRow, KeysKept
  <1>6. NextUnused'
    BY RotationAssumption DEF DkimInv, NoTask, FirstRow, Actors, Point, NextUnused, Points, Done, Settled, DkimTypeOK,
       DomainRows, DkimTasks, Phases, RowShape, ReadIsRow, StageFits
  <1>7. Epoch'
    BY RotationAssumption DEF DkimInv, NoTask, FirstRow, Actors, Point, Epoch, Points, Done, DkimTypeOK, DomainRows,
       DkimTasks, Phases, RowShape, ReadIsRow, StageFits
  <1>8. Pointed'
    BY RotationAssumption DEF DkimInv, NoTask, FirstRow, Actors, Point, Pointed, Points, Done, DkimTypeOK, DomainRows,
       DkimTasks, Phases, Fixes, RowShape, ReadIsRow, StageFits, KeysKept, NextUnused, Epoch
  <1>9. QED BY <1>1, <1>2, <1>3, <1>4, <1>5, <1>6, <1>7, <1>8 DEF DkimInv

\* revertDkimSwitch() pointing the file to the predecessor keeps it.
LEMMA RevertKeeps ==
    ASSUME DkimInv, NEW a \in Actors, Revert(a)
    PROVE  DkimInv'
  <1>a. Done(a) \/ Goes(a, "save")
    BY DEF Revert
  <1>b. "save" \in DkimStages
    BY DEF DkimStages
  <1>c. task' \in [Actors -> DkimTasks]
    BY <1>a, <1>b, TaskDone, TaskGoes DEF DkimInv
  <1>1. DkimTypeOK'
    BY <1>c DEF DkimInv, DkimTypeOK, Revert, Points
  <1>2. RowShape'
    BY RotationAssumption DEF DkimInv, NoTask, FirstRow, Actors, Revert, RowShape, Points, Goes, Done, DkimTypeOK,
       DomainRows, DkimTasks, Phases, ReadIsRow, StageFits
  <1>3. KeysKept'
    BY RotationAssumption DEF DkimInv, NoTask, FirstRow, Actors, Revert, KeysKept, Points, Goes, Done, DkimTypeOK,
       DomainRows, DkimTasks, Phases, RowShape, ReadIsRow, StageFits
  <1>4. ReadIsRow'
    BY RotationAssumption DEF DkimInv, NoTask, FirstRow, Actors, Revert, ReadIsRow, Points, Goes, Done, DkimTypeOK,
       DomainRows, DkimTasks
  <1>5. StageFits'
    BY RotationAssumption DEF DkimInv, NoTask, FirstRow, Actors, Revert, StageFits, Points, Goes, Done, Unnamed,
       DkimTypeOK, DomainRows, DkimTasks, Phases, RowShape, ReadIsRow, KeysKept
  <1>6. NextUnused'
    BY RotationAssumption DEF DkimInv, NoTask, FirstRow, Actors, Revert, NextUnused, Points, Goes, Done, Settled,
       DkimTypeOK, DomainRows, DkimTasks, Phases, RowShape, ReadIsRow, StageFits
  <1>7. Epoch'
    BY RotationAssumption DEF DkimInv, NoTask, FirstRow, Actors, Revert, Epoch, Points, Goes, Done, DkimTypeOK,
       DomainRows, DkimTasks, Phases, RowShape, ReadIsRow, StageFits
  <1>8. Pointed'
    BY RotationAssumption DEF DkimInv, NoTask, FirstRow, Actors, Revert, Pointed, Points, Goes, Done, DkimTypeOK,
       DomainRows, DkimTasks, Phases, Fixes, RowShape, ReadIsRow, StageFits, KeysKept, NextUnused, Epoch
  <1>9. QED BY <1>1, <1>2, <1>3, <1>4, <1>5, <1>6, <1>7, <1>8 DEF DkimInv

\* Pointing it there a second time, after the save, keeps it.
LEMMA PointAgainKeeps ==
    ASSUME DkimInv, NEW a \in Actors, PointAgain(a)
    PROVE  DkimInv'
  <1>1. DkimTypeOK'
    BY RotationAssumption DEF DkimInv, NoTask, FirstRow, Actors, PointAgain, DkimTypeOK, Points, Goes, DomainRows,
       DkimTasks, Phases, DkimStages
  <1>2. RowShape'
    BY RotationAssumption DEF DkimInv, NoTask, FirstRow, Actors, PointAgain, RowShape, Points, Goes, DkimTypeOK,
       DomainRows, DkimTasks, Phases, ReadIsRow, StageFits
  <1>3. KeysKept'
    BY RotationAssumption DEF DkimInv, NoTask, FirstRow, Actors, PointAgain, KeysKept, Points, Goes, DkimTypeOK,
       DomainRows, DkimTasks, Phases, RowShape, ReadIsRow, StageFits
  <1>4. ReadIsRow'
    BY RotationAssumption DEF DkimInv, NoTask, FirstRow, Actors, PointAgain, ReadIsRow, Points, Goes, DkimTypeOK,
       DomainRows, DkimTasks
  <1>5. StageFits'
    BY RotationAssumption DEF DkimInv, NoTask, FirstRow, Actors, PointAgain, StageFits, Points, Goes, Unnamed,
       DkimTypeOK, DomainRows, DkimTasks, Phases, RowShape, ReadIsRow, KeysKept
  <1>6. NextUnused'
    BY RotationAssumption DEF DkimInv, NoTask, FirstRow, Actors, PointAgain, NextUnused, Points, Goes, Settled,
       DkimTypeOK, DomainRows, DkimTasks, Phases, RowShape, ReadIsRow, StageFits
  <1>7. Epoch'
    BY RotationAssumption DEF DkimInv, NoTask, FirstRow, Actors, PointAgain, Epoch, Points, Goes, DkimTypeOK,
       DomainRows, DkimTasks, Phases, RowShape, ReadIsRow, StageFits
  <1>8. Pointed'
    BY RotationAssumption DEF DkimInv, NoTask, FirstRow, Actors, PointAgain, Pointed, Points, Goes, DkimTypeOK,
       DomainRows, DkimTasks, Phases, Fixes, RowShape, ReadIsRow, StageFits, KeysKept, NextUnused, Epoch
  <1>9. QED BY <1>1, <1>2, <1>3, <1>4, <1>5, <1>6, <1>7, <1>8 DEF DkimInv

\* A revert whose save conflicts, about to point the file where the row says, keeps it.
LEMMA UndoKeeps ==
    ASSUME DkimInv, NEW a \in Actors, Undo(a)
    PROVE  DkimInv'
  <1>1. DkimTypeOK'
    BY RotationAssumption DEF DkimInv, NoTask, FirstRow, Actors, Undo, DkimTypeOK, DomainRows, DkimTasks, Phases,
       DkimStages
  <1>2. RowShape'
    BY RotationAssumption DEF DkimInv, NoTask, FirstRow, Actors, Undo, RowShape, DkimTypeOK, DomainRows, DkimTasks,
       Phases, ReadIsRow, StageFits
  <1>3. KeysKept'
    BY RotationAssumption DEF DkimInv, NoTask, FirstRow, Actors, Undo, KeysKept, DkimTypeOK, DomainRows, DkimTasks,
       Phases, RowShape, ReadIsRow, StageFits
  <1>4. ReadIsRow'
    BY RotationAssumption DEF DkimInv, NoTask, FirstRow, Actors, Undo, ReadIsRow, DkimTypeOK, DomainRows, DkimTasks
  <1>5. StageFits'
    BY RotationAssumption DEF DkimInv, NoTask, FirstRow, Actors, Undo, StageFits, Unnamed, DkimTypeOK, DomainRows,
       DkimTasks, Phases, RowShape, ReadIsRow, KeysKept
  <1>6. NextUnused'
    BY RotationAssumption DEF DkimInv, NoTask, FirstRow, Actors, Undo, NextUnused, Settled, DkimTypeOK, DomainRows,
       DkimTasks, Phases, RowShape, ReadIsRow, StageFits
  <1>7. Epoch'
    BY RotationAssumption DEF DkimInv, NoTask, FirstRow, Actors, Undo, Epoch, DkimTypeOK, DomainRows, DkimTasks, Phases,
       RowShape, ReadIsRow, StageFits
  <1>8. Pointed'
    BY RotationAssumption DEF DkimInv, NoTask, FirstRow, Actors, Undo, Pointed, DkimTypeOK, DomainRows, DkimTasks,
       Phases, Fixes, RowShape, ReadIsRow, StageFits, KeysKept, NextUnused, Epoch
  <1>9. QED BY <1>1, <1>2, <1>3, <1>4, <1>5, <1>6, <1>7, <1>8 DEF DkimInv

\* A process that dies at any stage keeps it: that is a lapse.
LEMMA DiesKeeps ==
    ASSUME DkimInv, NEW a \in Actors, Dies(a)
    PROVE  DkimInv'
  <1>1. DkimTypeOK'
    BY RotationAssumption DEF DkimInv, NoTask, FirstRow, Actors, Dies, DkimTypeOK, Lapse, Done, DomainRows, DkimTasks,
       Phases, DkimStages
  <1>2. RowShape'
    BY RotationAssumption DEF DkimInv, NoTask, FirstRow, Actors, Dies, RowShape, Lapse, Done, DkimTypeOK, DomainRows,
       DkimTasks, Phases, ReadIsRow, StageFits
  <1>3. KeysKept'
    BY RotationAssumption DEF DkimInv, NoTask, FirstRow, Actors, Dies, KeysKept, Lapse, Done, DkimTypeOK, DomainRows,
       DkimTasks, Phases, RowShape, ReadIsRow, StageFits
  <1>4. ReadIsRow'
    BY RotationAssumption DEF DkimInv, NoTask, FirstRow, Actors, Dies, ReadIsRow, Lapse, Done, DkimTypeOK, DomainRows,
       DkimTasks
  <1>5. StageFits'
    BY RotationAssumption DEF DkimInv, NoTask, FirstRow, Actors, Dies, StageFits, Lapse, Done, Unnamed, DkimTypeOK,
       DomainRows, DkimTasks, Phases, RowShape, ReadIsRow, KeysKept
  <1>6. NextUnused'
    BY RotationAssumption DEF DkimInv, NoTask, FirstRow, Actors, Dies, NextUnused, Lapse, Done, Settled, DkimTypeOK,
       DomainRows, DkimTasks, Phases, RowShape, ReadIsRow, StageFits
  <1>7. Epoch'
    BY RotationAssumption DEF DkimInv, NoTask, FirstRow, Actors, Dies, Epoch, Lapse, Done, DkimTypeOK, DomainRows,
       DkimTasks, Phases, RowShape, ReadIsRow, StageFits
  <1>8. Pointed'
    BY RotationAssumption DEF DkimInv, NoTask, FirstRow, Actors, Dies, Pointed, Lapse, Done, DkimTypeOK, DomainRows,
       DkimTasks, Phases, Fixes, RowShape, ReadIsRow, StageFits, KeysKept, NextUnused, Epoch
  <1>9. QED BY <1>1, <1>2, <1>3, <1>4, <1>5, <1>6, <1>7, <1>8 DEF DkimInv

\* generateNextDkimKey() storing the pair, or failing to, keeps it.
LEMMA GenerateKeeps ==
    ASSUME DkimInv, NEW a \in Actors, Generate(a)
    PROVE  DkimInv'
  <1>1. /\ task[a] \in DkimTasks /\ task[a].row \in DomainRows /\ task[a].at = "generate"
        /\ "record" \in DkimStages /\ "idle" \in DkimStages
    BY DEF DkimInv, DkimTypeOK, DkimTasks, Generate, DkimStages
  <1>2. CASE keyFiles' = keyFiles \cup {task[a].sel} /\ Goes(a, "record") /\ UNCHANGED <<dom, lapses>>
    <2>0. task' \in [Actors -> DkimTasks] /\ UNCHANGED <<minted, selectorFile, signing>>
      BY <1>1, <1>2, TaskGoes DEF DkimInv, Generate
    <2>1. DkimTypeOK'
      BY <1>1, <1>2, <2>0 DEF Goes, DkimTypeOK, DkimInv, OthersOutdated, DomainRows, DkimTasks
    <2>2. RowShape'
      BY <1>1, <1>2, <2>0 DEF Goes, RowShape, DkimInv, OthersOutdated, DkimTypeOK, DomainRows, DkimTasks
    <2>3. KeysKept'
      BY <1>1, <1>2, <2>0 DEF Goes, KeysKept, DkimInv, OthersOutdated, DkimTypeOK, DomainRows, DkimTasks, RowShape,
         StageFits
    <2>4. ReadIsRow'
      BY <1>1, <1>2, <2>0 DEF Goes, ReadIsRow, DkimInv, OthersOutdated, DkimTypeOK, DomainRows, DkimTasks
    <2>5. StageFits'
      BY <1>1, <1>2, <2>0 DEF Goes, StageFits, Unnamed, DkimInv, OthersOutdated, DkimTypeOK, DomainRows, DkimTasks,
         RowShape
    <2>6. NextUnused'
      BY <1>1, <1>2, <2>0 DEF Goes, NextUnused, Settled, DkimInv, OthersOutdated, DkimTypeOK, DomainRows, DkimTasks,
         RowShape, StageFits
    <2>7. Epoch'
      BY <1>1, <1>2, <2>0 DEF Goes, Epoch, DkimInv, OthersOutdated, DkimTypeOK, DomainRows, DkimTasks, RowShape,
         StageFits
    <2>8. Pointed'
      BY <1>1, <1>2, <2>0 DEF Goes, Pointed, Fixes, DkimInv, OthersOutdated, DkimTypeOK, DomainRows, DkimTasks,
         RowShape, StageFits, Epoch
    <2>9. QED BY <2>1, <2>2, <2>3, <2>4, <2>5, <2>6, <2>7, <2>8 DEF Goes, DkimInv
  <1>3. CASE Lapse /\ Saves(a, task[a].row, "idle", 0, "idle") /\ UNCHANGED keyFiles
    <2>0. /\ task' \in [Actors -> DkimTasks] /\ dom' = dom /\ lapses' = lapses + 1 /\ lapses' # 0
          /\ UNCHANGED <<minted, keyFiles, selectorFile, signing>>
          /\ task'[a].at = "idle" /\ task'[a].current = FALSE
          /\ \A b \in Actors \ {a} : task'[b] = task[b] \/ (task'[b].at = task[b].at /\ task'[b].row = task[b].row
                                     /\ task'[b].sel = task[b].sel /\ task'[b].current = FALSE)
      <3>1. /\ task' \in [Actors -> DkimTasks]
            /\ \/ ~task[a].current /\ UNCHANGED dom /\ Done(a)
               \/ task[a].current /\ dom' = task[a].row /\ OthersOutdated(a) /\ task'[a] = NoTask
        BY <1>1, <1>3, SavesCases DEF DkimInv
      <3>2. dom' = dom
        BY <3>1 DEF DkimInv, ReadIsRow
      <3>3. lapses' = lapses + 1 /\ lapses' # 0
        BY <1>3 DEF Lapse, DkimInv, DkimTypeOK
      <3>4. /\ task'[a].at = "idle" /\ task'[a].current = FALSE
            /\ \A b \in Actors \ {a} : task'[b] = task[b] \/ (task'[b].at = task[b].at /\ task'[b].row = task[b].row
                                     /\ task'[b].sel = task[b].sel /\ task'[b].current = FALSE)
        <4>1. CASE Done(a)
          BY <4>1, TaskDone DEF DkimInv, NoTask
        <4>2. CASE OthersOutdated(a) /\ task'[a] = NoTask
          BY <4>2 DEF OthersOutdated, NoTask
        <4>3. QED BY <3>1, <4>1, <4>2
      <3>5. QED BY <1>3, <3>1, <3>2, <3>3, <3>4 DEF Generate
    <2>1. DkimTypeOK'
      BY <1>1, <2>0 DEF DkimTypeOK, DkimInv, OthersOutdated, DomainRows, DkimTasks
    <2>2. RowShape'
      BY <1>1, <2>0 DEF RowShape, DkimInv, OthersOutdated, DkimTypeOK, DomainRows, DkimTasks
    <2>3. KeysKept'
      BY <1>1, <2>0 DEF KeysKept, DkimInv, OthersOutdated, DkimTypeOK, DomainRows, DkimTasks, RowShape, StageFits
    <2>4. ReadIsRow'
      BY <1>1, <2>0 DEF ReadIsRow, DkimInv, OthersOutdated, DkimTypeOK, DomainRows, DkimTasks
    <2>5. StageFits'
      BY <1>1, <2>0 DEF StageFits, Unnamed, DkimInv, OthersOutdated, DkimTypeOK, DomainRows, DkimTasks, RowShape
    <2>6. NextUnused'
      BY <1>1, <2>0 DEF NextUnused, Settled, DkimInv, OthersOutdated, DkimTypeOK, DomainRows, DkimTasks, RowShape,
         StageFits
    <2>7. Epoch'
      BY <1>1, <2>0 DEF Epoch, DkimInv, OthersOutdated, DkimTypeOK, DomainRows, DkimTasks, RowShape, StageFits
    <2>8. Pointed'
      BY <1>1, <2>0 DEF Pointed, Fixes, DkimInv, OthersOutdated, DkimTypeOK, DomainRows, DkimTasks, RowShape, StageFits,
         Epoch
    <2>9. QED BY <2>1, <2>2, <2>3, <2>4, <2>5, <2>6, <2>7, <2>8 DEF DkimInv
  <1>4. QED BY <1>2, <1>3 DEF Generate

\* stepSwitching() keeps it: only the mail server's own selector confirms the switch.
LEMMA ConfirmKeeps ==
    ASSUME DkimInv, NEW a \in Actors, Confirm(a)
    PROVE  DkimInv'
  <1> DEFINE saved == [task[a].row EXCEPT !.phase = "overlap"]
  <1>1. /\ task[a] \in DkimTasks /\ task[a].row \in DomainRows /\ saved \in DomainRows /\ task[a].at = "confirm"
        /\ "idle" \in DkimStages /\ "activate" \in DkimStages
        /\ UNCHANGED <<minted, keyFiles, selectorFile, signing, lapses>>
    BY DEF DkimInv, DkimTypeOK, DkimTasks, DomainRows, Phases, Confirm, DkimStages
  <1>2. CASE signing = task[a].row.sel
    <2>1. Saves(a, saved, "idle", 0, "idle")
      BY <1>2 DEF Confirm
    <2> HIDE DEF saved
    <2>2. /\ task' \in [Actors -> DkimTasks]
          /\ \/ ~task[a].current /\ UNCHANGED dom /\ Done(a)
             \/ task[a].current /\ dom' = saved /\ OthersOutdated(a) /\ task'[a] = NoTask
      BY <1>1, <2>1, SavesCases DEF DkimInv
    <2>3. CASE ~task[a].current
      BY <1>1, <2>2, <2>3, RestKeeps DEF Fixes
    <2>4. CASE task[a].current
      <3>0. /\ dom' \in DomainRows /\ task' \in [Actors -> DkimTasks] /\ task'[a].at = "idle"
            /\ task'[a].current = FALSE /\ OthersOutdated(a)
        BY <1>1, <2>2, <2>4 DEF NoTask
      <3>r. task[a].row = dom /\ dom.phase = "switching"
        BY <1>1, <2>4 DEF DkimInv, ReadIsRow, StageFits
      <3>f. /\ dom'.sel = dom.sel /\ dom'.phase = "overlap" /\ dom'.next = dom.next /\ dom'.key = dom.key
            /\ dom'.prev = dom.prev
        BY <1>1, <2>2, <2>4, <3>r DEF saved, DomainRows
      <3>1. DkimTypeOK'
        BY <1>1, <1>2, <3>0, <3>r, <3>f DEF DkimTypeOK, DkimInv, OthersOutdated, DomainRows, DkimTasks
      <3>2. RowShape'
        BY <1>1, <1>2, <3>0, <3>r, <3>f DEF RowShape, DkimInv, OthersOutdated, DkimTypeOK, DomainRows, DkimTasks
      <3>3. KeysKept'
        BY <1>1, <1>2, <3>0, <3>r, <3>f DEF KeysKept, DkimInv, OthersOutdated, DkimTypeOK, DomainRows, DkimTasks,
           RowShape, StageFits
      <3>4. ReadIsRow'
        BY <1>1, <1>2, <3>0, <3>r, <3>f DEF ReadIsRow, DkimInv, OthersOutdated, DkimTypeOK, DomainRows, DkimTasks
      <3>5. StageFits'
        BY <1>1, <1>2, <3>0, <3>r, <3>f DEF StageFits, Unnamed, DkimInv, OthersOutdated, DkimTypeOK, DomainRows,
           DkimTasks, RowShape
      <3>6. NextUnused'
        BY <1>1, <1>2, <3>0, <3>r, <3>f DEF NextUnused, Settled, DkimInv, OthersOutdated, DkimTypeOK, DomainRows,
           DkimTasks, RowShape, StageFits
      <3>7. Epoch'
        BY <1>1, <1>2, <3>0, <3>r, <3>f DEF Epoch, DkimInv, OthersOutdated, DkimTypeOK, DomainRows, DkimTasks, RowShape,
           StageFits
      <3>8. Pointed'
        BY <1>1, <1>2, <3>0, <3>r, <3>f DEF Pointed, Fixes, DkimInv, OthersOutdated, DkimTypeOK, DomainRows, DkimTasks,
           RowShape, StageFits, Epoch
      <3>9. QED BY <3>1, <3>2, <3>3, <3>4, <3>5, <3>6, <3>7, <3>8 DEF DkimInv
    <2>5. QED BY <2>3, <2>4
  <1>3. CASE signing # task[a].row.sel
    <2> DEFINE going == [task[a] EXCEPT !.at = "activate", !.sel = task[a].row.sel]
    <2>a. /\ going \in DkimTasks /\ going.at = "activate" /\ going.sel = task[a].row.sel
          /\ going.row = task[a].row /\ going.current = task[a].current
      BY <1>1 DEF DkimTasks, DomainRows
    <2>b. task' = [task EXCEPT ![a] = going] /\ UNCHANGED dom
      BY <1>3 DEF Confirm
    <2> HIDE DEF going
    <2>0. task' \in [Actors -> DkimTasks] /\ task'[a] = going /\ \A b \in Actors \ {a} : task'[b] = task[b]
      BY <2>a, <2>b, TaskMoves DEF DkimInv
    <2>1. DkimTypeOK'
      BY <1>1, <2>0, <2>a, <2>b DEF DkimTypeOK, DkimInv, OthersOutdated, DomainRows, DkimTasks
    <2>2. RowShape'
      BY <1>1, <2>0, <2>a, <2>b DEF RowShape, DkimInv, OthersOutdated, DkimTypeOK, DomainRows, DkimTasks
    <2>3. KeysKept'
      BY <1>1, <2>0, <2>a, <2>b DEF KeysKept, DkimInv, OthersOutdated, DkimTypeOK, DomainRows, DkimTasks, RowShape,
         StageFits
    <2>4. ReadIsRow'
      BY <1>1, <2>0, <2>a, <2>b DEF ReadIsRow, DkimInv, OthersOutdated, DkimTypeOK, DomainRows, DkimTasks
    <2>5. StageFits'
      BY <1>1, <2>0, <2>a, <2>b DEF StageFits, Unnamed, DkimInv, OthersOutdated, DkimTypeOK, DomainRows, DkimTasks,
         RowShape
    <2>6. NextUnused'
      BY <1>1, <2>0, <2>a, <2>b DEF NextUnused, Settled, DkimInv, OthersOutdated, DkimTypeOK, DomainRows, DkimTasks,
         RowShape, StageFits
    <2>7. Epoch'
      BY <1>1, <2>0, <2>a, <2>b DEF Epoch, DkimInv, OthersOutdated, DkimTypeOK, DomainRows, DkimTasks, RowShape,
         StageFits
    <2>8. Pointed'
      BY <1>1, <2>0, <2>a, <2>b DEF Pointed, Fixes, DkimInv, OthersOutdated, DkimTypeOK, DomainRows, DkimTasks,
         RowShape, StageFits, Epoch
    <2>9. QED BY <2>1, <2>2, <2>3, <2>4, <2>5, <2>6, <2>7, <2>8 DEF DkimInv
  <1>4. QED BY <1>2, <1>3

\* stepPending() keeps it: the row switches to a selector whose key is recorded, and a switch while somebody
\* is still about to point the file is a lapse.
LEMMA LookKeeps ==
    ASSUME DkimInv, NEW a \in Actors, Look(a)
    PROVE  DkimInv'
  <1>1. /\ task[a] \in DkimTasks /\ task[a].row \in DomainRows /\ task[a].at = "look" /\ "idle" \in DkimStages
        /\ UNCHANGED <<minted, keyFiles, selectorFile, signing>>
    BY DEF DkimInv, DkimTypeOK, DkimTasks, Look, DkimStages
  <1>2. CASE Done(a) /\ UNCHANGED <<dom, lapses>>
    BY <1>1, <1>2, RestKeeps DEF Fixes
  <1>3. ASSUME NEW live \in BOOLEAN, Saves(a, [task[a].row EXCEPT !.live = live], "idle", 0, "idle"), UNCHANGED lapses
        PROVE  DkimInv'
    <2> DEFINE saved == [task[a].row EXCEPT !.live = live]
    <2>1. saved \in DomainRows
      BY <1>1 DEF DomainRows
    <2> HIDE DEF saved
    <2>2. /\ task' \in [Actors -> DkimTasks]
          /\ \/ ~task[a].current /\ UNCHANGED dom /\ Done(a)
             \/ task[a].current /\ dom' = saved /\ OthersOutdated(a) /\ task'[a] = NoTask
      BY <1>1, <1>3, <2>1, SavesCases DEF DkimInv, saved
    <2>3. CASE ~task[a].current
      BY <1>1, <1>3, <2>2, <2>3, RestKeeps DEF Fixes
    <2>4. CASE task[a].current
      <3>0. /\ dom' \in DomainRows /\ task' \in [Actors -> DkimTasks] /\ task'[a].at = "idle"
            /\ task'[a].current = FALSE /\ OthersOutdated(a)
        BY <2>1, <2>2, <2>4 DEF NoTask
      <3>r. task[a].row = dom /\ dom.phase = "pending"
        BY <1>1, <2>4 DEF DkimInv, ReadIsRow, StageFits
      <3>f. /\ dom'.sel = dom.sel /\ dom'.phase = "pending" /\ dom'.next = dom.next /\ dom'.key = dom.key
            /\ dom'.prev = dom.prev
        BY <1>1, <2>2, <2>4, <3>r DEF saved, DomainRows
      <3>1. DkimTypeOK'
        BY <1>1, <1>3, <3>0, <3>r, <3>f DEF DkimTypeOK, DkimInv, OthersOutdated, DomainRows, DkimTasks
      <3>2. RowShape'
        BY <1>1, <1>3, <3>0, <3>r, <3>f DEF RowShape, DkimInv, OthersOutdated, DkimTypeOK, DomainRows, DkimTasks
      <3>3. KeysKept'
        BY <1>1, <1>3, <3>0, <3>r, <3>f DEF KeysKept, DkimInv, OthersOutdated, DkimTypeOK, DomainRows, DkimTasks,
           RowShape, StageFits
      <3>4. ReadIsRow'
        BY <1>1, <1>3, <3>0, <3>r, <3>f DEF ReadIsRow, DkimInv, OthersOutdated, DkimTypeOK, DomainRows, DkimTasks
      <3>5. StageFits'
        BY <1>1, <1>3, <3>0, <3>r, <3>f DEF StageFits, Unnamed, DkimInv, OthersOutdated, DkimTypeOK, DomainRows,
           DkimTasks, RowShape
      <3>6. NextUnused'
        BY <1>1, <1>3, <3>0, <3>r, <3>f DEF NextUnused, Settled, DkimInv, OthersOutdated, DkimTypeOK, DomainRows,
           DkimTasks, RowShape, StageFits
      <3>7. Epoch'
        BY <1>1, <1>3, <3>0, <3>r, <3>f DEF Epoch, DkimInv, OthersOutdated, DkimTypeOK, DomainRows, DkimTasks, RowShape,
           StageFits
      <3>8. Pointed'
        BY <1>1, <1>3, <3>0, <3>r, <3>f DEF Pointed, Fixes, DkimInv, OthersOutdated, DkimTypeOK, DomainRows, DkimTasks,
           RowShape, StageFits, Epoch
      <3>9. QED BY <3>1, <3>2, <3>3, <3>4, <3>5, <3>6, <3>7, <3>8 DEF DkimInv
    <2>5. QED BY <2>3, <2>4
  <1>4. ASSUME Saves(a, [task[a].row EXCEPT !.phase = "switching", !.sel = task[a].row.next, !.prev = task[a].row.sel,
            !.next = 0,
                                            !.key = FALSE, !.live = FALSE], "idle", 0, "idle"),
               IF \E b \in Actors : Pointing(b) THEN Lapse ELSE UNCHANGED lapses
        PROVE  DkimInv'
    <2> DEFINE saved == [task[a].row EXCEPT !.phase = "switching", !.sel = task[a].row.next, !.prev = task[a].row.sel,
            !.next = 0,
                                          !.key = FALSE, !.live = FALSE]
    <2>1. /\ saved \in DomainRows /\ saved.sel = task[a].row.next /\ saved.phase = "switching" /\ saved.next = 0
          /\ saved.key = FALSE
          /\ saved.prev = task[a].row.sel
      BY <1>1 DEF DomainRows, Phases
    <2> HIDE DEF saved
    <2>2. /\ task' \in [Actors -> DkimTasks]
          /\ \/ ~task[a].current /\ UNCHANGED dom /\ Done(a)
             \/ task[a].current /\ dom' = saved /\ OthersOutdated(a) /\ task'[a] = NoTask
      BY <1>1, <1>4, <2>1, SavesCases DEF DkimInv, saved
    <2>l. lapses' \in Nat /\ (lapses' = 0 => lapses = 0 /\ \A b \in Actors : ~Pointing(b))
      BY <1>4 DEF Lapse, DkimInv, DkimTypeOK
    <2>3. CASE ~task[a].current
      <3>1. CASE UNCHANGED lapses
        BY <1>1, <2>2, <2>3, <3>1, RestKeeps DEF Fixes
      <3>2. CASE lapses' # 0
        <4>0. dom' = dom /\ task'[a].at = "idle" /\ task'[a].current = FALSE /\ \A b \in Actors \ {a} : task'[b] = task[b]
          BY <2>2, <2>3, TaskDone DEF DkimInv, NoTask
        <4>1. DkimTypeOK'
          BY <1>1, <2>2, <2>l, <3>2, <4>0 DEF DkimTypeOK, DkimInv, OthersOutdated, DomainRows, DkimTasks
        <4>2. RowShape'
          BY <1>1, <2>2, <2>l, <3>2, <4>0 DEF RowShape, DkimInv, OthersOutdated, DkimTypeOK, DomainRows, DkimTasks
        <4>3. KeysKept'
          BY <1>1, <2>2, <2>l, <3>2, <4>0 DEF KeysKept, DkimInv, OthersOutdated, DkimTypeOK, DomainRows, DkimTasks,
             RowShape, StageFits
        <4>4. ReadIsRow'
          BY <1>1, <2>2, <2>l, <3>2, <4>0 DEF ReadIsRow, DkimInv, OthersOutdated, DkimTypeOK, DomainRows, DkimTasks
        <4>5. StageFits'
          BY <1>1, <2>2, <2>l, <3>2, <4>0 DEF StageFits, Unnamed, DkimInv, OthersOutdated, DkimTypeOK, DomainRows,
             DkimTasks, RowShape
        <4>6. NextUnused'
          BY <1>1, <2>2, <2>l, <3>2, <4>0 DEF NextUnused, Settled, DkimInv, OthersOutdated, DkimTypeOK, DomainRows,
             DkimTasks, RowShape, StageFits
        <4>7. Epoch'
          BY <1>1, <2>2, <2>l, <3>2, <4>0 DEF Epoch, DkimInv, OthersOutdated, DkimTypeOK, DomainRows, DkimTasks,
             RowShape, StageFits
        <4>8. Pointed'
          BY <1>1, <2>2, <2>l, <3>2, <4>0 DEF Pointed, Fixes, DkimInv, OthersOutdated, DkimTypeOK, DomainRows,
             DkimTasks, RowShape, StageFits, Epoch
        <4>9. QED BY <4>1, <4>2, <4>3, <4>4, <4>5, <4>6, <4>7, <4>8 DEF DkimInv
      <3>3. QED BY <1>4, <3>1, <3>2, <2>l DEF Lapse, DkimInv, DkimTypeOK
    <2>4. CASE task[a].current
      <3>0. /\ dom' \in DomainRows /\ task' \in [Actors -> DkimTasks] /\ task'[a].at = "idle"
            /\ task'[a].current = FALSE /\ OthersOutdated(a)
        BY <2>1, <2>2, <2>4 DEF NoTask
      <3>r. task[a].row = dom /\ dom.phase = "pending" /\ dom.key
        BY <1>1, <2>4 DEF DkimInv, ReadIsRow, StageFits
      <3>f. dom'.sel = dom.next /\ dom'.phase = "switching" /\ dom'.next = 0 /\ dom'.key = FALSE /\ dom'.prev = dom.sel
        BY <2>1, <2>2, <2>4, <3>r
      <3>s. \A s : Settled(s) => Settled(s)'
        BY <1>1, <3>f DEF Settled, DkimInv, DkimTypeOK
      <3>1. DkimTypeOK'
        BY <1>1, <2>l, <3>0, <3>r, <3>s, <3>f DEF DkimTypeOK, DkimInv, OthersOutdated, DomainRows, DkimTasks
      <3>2. RowShape'
        BY <1>1, <2>l, <3>0, <3>r, <3>s, <3>f DEF RowShape, DkimInv, OthersOutdated, DkimTypeOK, DomainRows, DkimTasks
      <3>3. KeysKept'
        BY <1>1, <2>l, <3>0, <3>r, <3>s, <3>f DEF KeysKept, DkimInv, OthersOutdated, DkimTypeOK, DomainRows, DkimTasks,
           RowShape, StageFits
      <3>4. ReadIsRow'
        BY <1>1, <2>l, <3>0, <3>r, <3>s, <3>f DEF ReadIsRow, DkimInv, OthersOutdated, DkimTypeOK, DomainRows, DkimTasks
      <3>5. StageFits'
        BY <1>1, <2>l, <3>0, <3>r, <3>s, <3>f DEF StageFits, Unnamed, DkimInv, OthersOutdated, DkimTypeOK, DomainRows,
           DkimTasks, RowShape
      <3>6. NextUnused'
        BY <1>1, <3>0, <3>s DEF NextUnused, DkimInv, OthersOutdated, DkimTypeOK, DomainRows, DkimTasks, RowShape,
           StageFits
      <3>7. Epoch'
        BY <1>1, <2>l, <3>0, <3>r, <3>s, <3>f DEF Epoch, DkimInv, OthersOutdated, DkimTypeOK, DomainRows, DkimTasks,
           RowShape, StageFits, Pointing
      <3>8. Pointed'
        BY <1>1, <2>l, <3>0, <3>r, <3>s, <3>f DEF Pointed, Fixes, DkimInv, OthersOutdated, DkimTypeOK, DomainRows,
           DkimTasks, RowShape, StageFits, Epoch, Pointing, NextUnused, Settled
      <3>9. QED BY <3>1, <3>2, <3>3, <3>4, <3>5, <3>6, <3>7, <3>8 DEF DkimInv
    <2>5. QED BY <2>3, <2>4
  <1>5. \/ Done(a) /\ UNCHANGED <<dom, lapses>>
        \/ \E live \in BOOLEAN : Saves(a, [task[a].row EXCEPT !.live = live], "idle", 0, "idle") /\ UNCHANGED lapses
        \/ /\ Saves(a, [task[a].row EXCEPT !.phase = "switching", !.sel = task[a].row.next, !.prev = task[a].row.sel,
               !.next = 0,
                                            !.key = FALSE, !.live = FALSE], "idle", 0, "idle")
           /\ IF \E b \in Actors : Pointing(b) THEN Lapse ELSE UNCHANGED lapses
    <2>1. PICK live \in {task[a].row.next \in dns, FALSE} :
             \/ Done(a) /\ UNCHANGED <<dom, lapses>>
             \/ Saves(a, [task[a].row EXCEPT !.live = live], "idle", 0, "idle") /\ UNCHANGED lapses
             \/ /\ Saves(a, [task[a].row EXCEPT !.phase = "switching", !.sel = task[a].row.next,
                    !.prev = task[a].row.sel, !.next = 0,
                                                 !.key = FALSE, !.live = FALSE], "idle", 0, "idle")
                /\ IF \E b \in Actors : Pointing(b) THEN Lapse ELSE UNCHANGED lapses
      BY Zenon DEF Look
    <2>2. (task[a].row.next \in dns) \in BOOLEAN
      OBVIOUS
    <2>4. live = (task[a].row.next \in dns) \/ live = FALSE
      BY <2>1, Zenon
    <2>5. live \in BOOLEAN
      BY <2>2, <2>4, Zenon
    <2>3. QED BY <2>1, <2>5, Zenon
  <1>6. QED BY <1>2, <1>3, <1>4, <1>5

\* The mail server taking up the selector file keeps it.
LEMMA MtaSignsKeeps ==
    ASSUME DkimInv, MtaSigns
    PROVE  DkimInv'
  <1>1. DkimTypeOK'
    BY RotationAssumption DEF MtaSigns, DkimTypeOK, DkimInv, OthersOutdated, DomainRows, DkimTasks
  <1>2. RowShape'
    BY RotationAssumption DEF MtaSigns, RowShape, DkimInv, OthersOutdated, DkimTypeOK, DomainRows, DkimTasks
  <1>3. KeysKept'
    BY RotationAssumption DEF MtaSigns, KeysKept, DkimInv, OthersOutdated, DkimTypeOK, DomainRows, DkimTasks, RowShape,
       StageFits
  <1>4. ReadIsRow'
    BY RotationAssumption DEF MtaSigns, ReadIsRow, DkimInv, OthersOutdated, DkimTypeOK, DomainRows, DkimTasks
  <1>5. StageFits'
    BY RotationAssumption DEF MtaSigns, StageFits, Unnamed, DkimInv, OthersOutdated, DkimTypeOK, DomainRows, DkimTasks,
       RowShape
  <1>6. NextUnused'
    BY RotationAssumption DEF MtaSigns, NextUnused, Settled, DkimInv, OthersOutdated, DkimTypeOK, DomainRows, DkimTasks,
       RowShape, StageFits
  <1>7. Epoch'
    BY RotationAssumption DEF MtaSigns, Epoch, DkimInv, OthersOutdated, DkimTypeOK, DomainRows, DkimTasks, RowShape,
       StageFits
  <1>8. Pointed'
    BY RotationAssumption DEF MtaSigns, Pointed, Fixes, DkimInv, OthersOutdated, DkimTypeOK, DomainRows, DkimTasks,
       RowShape, StageFits, Epoch
  <1>9. QED BY <1>1, <1>2, <1>3, <1>4, <1>5, <1>6, <1>7, <1>8 DEF DkimInv

\* The publication of the desired records keeps it.
LEMMA PublishKeeps ==
    ASSUME DkimInv, Publish
    PROVE  DkimInv'
  <1>1. DkimTypeOK'
    BY RotationAssumption DEF Publish, DkimTypeOK, DkimInv, OthersOutdated, DomainRows, DkimTasks
  <1>2. RowShape'
    BY RotationAssumption DEF Publish, RowShape, DkimInv, OthersOutdated, DkimTypeOK, DomainRows, DkimTasks
  <1>3. KeysKept'
    BY RotationAssumption DEF Publish, KeysKept, DkimInv, OthersOutdated, DkimTypeOK, DomainRows, DkimTasks, RowShape,
       StageFits
  <1>4. ReadIsRow'
    BY RotationAssumption DEF Publish, ReadIsRow, DkimInv, OthersOutdated, DkimTypeOK, DomainRows, DkimTasks
  <1>5. StageFits'
    BY RotationAssumption DEF Publish, StageFits, Unnamed, DkimInv, OthersOutdated, DkimTypeOK, DomainRows, DkimTasks,
       RowShape
  <1>6. NextUnused'
    BY RotationAssumption DEF Publish, NextUnused, Settled, DkimInv, OthersOutdated, DkimTypeOK, DomainRows, DkimTasks,
       RowShape, StageFits
  <1>7. Epoch'
    BY RotationAssumption DEF Publish, Epoch, DkimInv, OthersOutdated, DkimTypeOK, DomainRows, DkimTasks, RowShape,
       StageFits
  <1>8. Pointed'
    BY RotationAssumption DEF Publish, Pointed, Fixes, DkimInv, OthersOutdated, DkimTypeOK, DomainRows, DkimTasks,
       RowShape, StageFits, Epoch
  <1>9. QED BY <1>1, <1>2, <1>3, <1>4, <1>5, <1>6, <1>7, <1>8 DEF DkimInv

\* A step that changes nothing keeps it.
LEMMA IdleKeeps ==
    ASSUME DkimInv, UNCHANGED dkimVars
    PROVE  DkimInv'
  <1>1. DkimTypeOK'
    BY RotationAssumption DEF dkimVars, DkimTypeOK, DkimInv, OthersOutdated, DomainRows, DkimTasks
  <1>2. RowShape'
    BY RotationAssumption DEF dkimVars, RowShape, DkimInv, OthersOutdated, DkimTypeOK, DomainRows, DkimTasks
  <1>3. KeysKept'
    BY RotationAssumption DEF dkimVars, KeysKept, DkimInv, OthersOutdated, DkimTypeOK, DomainRows, DkimTasks, RowShape,
       StageFits
  <1>4. ReadIsRow'
    BY RotationAssumption DEF dkimVars, ReadIsRow, DkimInv, OthersOutdated, DkimTypeOK, DomainRows, DkimTasks
  <1>5. StageFits'
    BY RotationAssumption DEF dkimVars, StageFits, Unnamed, DkimInv, OthersOutdated, DkimTypeOK, DomainRows, DkimTasks,
       RowShape
  <1>6. NextUnused'
    BY RotationAssumption DEF dkimVars, NextUnused, Settled, DkimInv, OthersOutdated, DkimTypeOK, DomainRows, DkimTasks,
       RowShape, StageFits
  <1>7. Epoch'
    BY RotationAssumption DEF dkimVars, Epoch, DkimInv, OthersOutdated, DkimTypeOK, DomainRows, DkimTasks, RowShape,
       StageFits
  <1>8. Pointed'
    BY RotationAssumption DEF dkimVars, Pointed, Fixes, DkimInv, OthersOutdated, DkimTypeOK, DomainRows, DkimTasks,
       RowShape, StageFits, Epoch
  <1>9. QED BY <1>1, <1>2, <1>3, <1>4, <1>5, <1>6, <1>7, <1>8 DEF dkimVars, DkimInv

\* The invariant holds of every reachable state, for every number of jobs, administrators, selectors and lapses.
THEOREM DkimInductive == DkimSpec => []DkimInv
  <1>1. DkimInit => DkimInv
    BY NoTaskType, RotationAssumption DEF DkimInit, DkimInv, DkimTypeOK, RowShape, KeysKept, ReadIsRow, StageFits,
       NextUnused, Epoch, Pointed, Settled, Unnamed,
       FirstRow, NoTask, DomainRows, Phases
  <1>2. DkimInv /\ [DkimNext]_dkimVars => DkimInv'
    BY IdleKeeps, MtaSignsKeeps, PublishKeeps, JobReadsKeeps, LookKeeps, ConfirmKeeps, ActivateKeeps, RecheckKeeps,
       AdminReadsKeeps, CancelKeeps,
       RevertKeeps, SaveRevertKeeps, PointAgainKeeps, UndoKeeps, StartKeeps, GenerateKeeps, RecordKeeps, UnrecordKeeps,
           DeleteKeyPairKeeps,
       RetireKeeps, PointKeeps, DiesKeeps DEF DkimNext, Actors
  <1>3. QED BY <1>1, <1>2, PTL DEF DkimSpec

\* No step of a DKIM rotation leaves the row, its predecessor or the mail server without its key, and the mail
\* server is pointed where the row says (DkimHeld), however jobs, reverts and deletions cross.
THEOREM KeysAreHeld == DkimSpec => []DkimHeld
  <1>1. DkimInv => DkimHeld
    BY DEF DkimInv, DkimHeld, KeysHeld, KeysKept, PointedAtRow, Pointed, Fixes, DkimTypeOK
  <1>2. QED BY <1>1, DkimInductive, PTL

================================================================================
