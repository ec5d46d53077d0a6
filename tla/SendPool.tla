-------------------------------- MODULE SendPool --------------------------------
(****************************************************************************)
(* The work a process of ScheduledSendJob does at once: background sends    *)
(* handed over by the route (enqueue()), the startup sweep and scheduled    *)
(* runs (run()), all through one table of pending work and a fixed number   *)
(* of slots, and the shutdown that waits for them (stop()).                 *)
(*                                                                          *)
(* A step is what the event loop runs between two awaits.                   *)
(****************************************************************************)
EXTENDS Naturals, Sequences, FiniteSets

CONSTANTS
    Uids,         \* messages
    Runs,         \* invocations of run(): the startup sweep and scheduled runs
    MaxParallel,  \* mail:jobs:scheduled_send:concurrency, at least 1
    MaxCalls      \* bound: calls of enqueue(), run(), start() and stop()

ASSUME SendPoolAssumption ==
    /\ IsFiniteSet(Uids)
    /\ MaxParallel \in Nat \ {0} /\ MaxCalls \in Nat

None == "none"
ASSUME NoneAssumption == None \notin Runs /\ None \notin Uids

VARIABLES
    pending,     \* uids of the map of promises not settled yet
    active,      \* slots taken
    slotWaiters, \* uids whose work waits for a slot, oldest first
    working,     \* how many works of each uid hold a slot
    settled,     \* uids whose work is over and whose entry is not deleted yet
    queue,       \* what each run() has still to go through
    awaits,      \* the uid whose promise each run() awaits
    phase,       \* idle, find (the query is under way), loop
    stopping,
    sweeping,    \* the run() the last start() began, or None
    drain,       \* stop(): no, sweep (awaits the sweep), check, settle (awaits a snapshot),
                 \* quiet (returned, nothing pending), cut (returned by its timer)
    snapshot,    \* the promises whenIdle() awaits
    calls        \* bound

pool == <<pending, active, slotWaiters, working, settled>>
runs == <<queue, awaits, phase>>
stop == <<stopping, sweeping, drain, snapshot>>
vars == <<pool, runs, stop, calls>>

Init ==
    /\ pending = {} /\ active = 0 /\ slotWaiters = <<>>
    /\ working = [u \in Uids |-> 0] /\ settled = {}
    /\ queue = [r \in Runs |-> <<>>] /\ awaits = [r \in Runs |-> None]
    /\ phase = [r \in Runs |-> "idle"]
    /\ stopping = FALSE /\ sweeping = None /\ drain = "no" /\ snapshot = {}
    /\ calls = 0

Call == calls < MaxCalls /\ calls' = calls + 1

--------------------------------------------------------------------------------

\* withSlot(), up to its first await: a free slot is taken, or the work waits for one.
WithSlot(u) ==
    IF active >= MaxParallel
      THEN slotWaiters' = Append(slotWaiters, u) /\ UNCHANGED <<active, working>>
      ELSE /\ active' = active + 1
           /\ working' = [working EXCEPT ![u] = @ + 1]
           /\ UNCHANGED slotWaiters

\* track(): a uid already worked on is not started a second time.
Track(u) ==
    IF u \in pending
      THEN UNCHANGED pool
      ELSE pending' = pending \cup {u} /\ WithSlot(u) /\ UNCHANGED settled

\* enqueue(): what the route calls after a background send.
Enqueue(u) ==
    /\ Call /\ ~stopping
    /\ Track(u)
    /\ UNCHANGED <<runs, stop>>

SlotFreed_Decremented(u) ==
    IF slotWaiters # <<>>
      THEN /\ slotWaiters' = Tail(slotWaiters)
           /\ working' = [working EXCEPT ![u] = @ - 1]
           /\ active' = active - 1
      ELSE /\ active' = active - 1
           /\ working' = [working EXCEPT ![u] = @ - 1]
           /\ UNCHANGED slotWaiters

\* The end of withSlot(): the slot is handed to the oldest waiter, or given back.
SlotFreed(u) ==
    IF slotWaiters # <<>>
      THEN /\ slotWaiters' = Tail(slotWaiters)
           /\ working' = [[working EXCEPT ![u] = @ - 1] EXCEPT ![Head(slotWaiters)] = @ + 1]
           /\ UNCHANGED active
      ELSE /\ active' = active - 1
           /\ working' = [working EXCEPT ![u] = @ - 1]
           /\ UNCHANGED slotWaiters

\* A work ends, relayed, not due any more, or failed; relayDueMessage() itself is in
\* ScheduledSend.
WorkEnds(u) ==
    /\ working[u] > 0
    /\ SlotFreed(u)
    /\ settled' = settled \cup {u}
    /\ UNCHANGED <<pending, runs, stop, calls>>

\* The promise settles: the entry is deleted and the run()s that await it go on.
Settle(u) ==
    /\ u \in settled
    /\ settled' = settled \ {u} /\ pending' = pending \ {u}
    /\ awaits' = [r \in Runs |-> IF awaits[r] = u THEN None ELSE awaits[r]]
    /\ snapshot' = snapshot \ {u}
    /\ UNCHANGED <<active, slotWaiters, working, queue, phase, stopping, sweeping, drain, calls>>

--------------------------------------------------------------------------------

\* A scheduled run; the scheduler starts none once it has stopped the service.
RunStarts(r) ==
    /\ Call /\ phase[r] = "idle" /\ r # sweeping /\ ~stopping
    /\ phase' = [phase EXCEPT ![r] = "find"]
    /\ UNCHANGED <<pool, queue, awaits, stop>>

\* The query answers with the due messages, each once, oldest first.
Batches == UNION {{q \in [1..n -> Uids] : \A i, j \in 1..n : q[i] = q[j] => i = j} : n \in 0..Cardinality(Uids)}

RunFinds(r) ==
    /\ phase[r] = "find"
    /\ \E q \in Batches : queue' = [queue EXCEPT ![r] = q]
    /\ phase' = [phase EXCEPT ![r] = "loop"]
    /\ UNCHANGED <<pool, awaits, stop, calls>>

\* The loop: one message at a time, the promise of each awaited.
RunTracks(r) ==
    /\ phase[r] = "loop" /\ awaits[r] = None /\ queue[r] # <<>>
    /\ Track(Head(queue[r]))
    /\ awaits' = [awaits EXCEPT ![r] = Head(queue[r])]
    /\ queue' = [queue EXCEPT ![r] = Tail(@)]
    /\ UNCHANGED <<phase, stop, calls>>

RunEnds(r) ==
    /\ phase[r] = "loop" /\ awaits[r] = None /\ queue[r] = <<>>
    /\ phase' = [phase EXCEPT ![r] = "idle"]
    /\ UNCHANGED <<pool, queue, awaits, stop, calls>>

--------------------------------------------------------------------------------

\* A stop() is under way; the process calls start() and stop() one after the other.
Stopping == drain \in {"sweep", "check", "settle"}

\* start(): the sweep is begun and not awaited.
Start(r) ==
    /\ Call /\ ~Stopping /\ phase[r] = "idle"
    /\ stopping' = FALSE /\ sweeping' = r
    /\ phase' = [phase EXCEPT ![r] = "find"]
    /\ UNCHANGED <<pool, queue, awaits, drain, snapshot>>

\* stop(): from here enqueue() does nothing; whenIdle() first awaits the sweep.
Stop ==
    /\ Call /\ ~Stopping
    /\ stopping' = TRUE /\ drain' = "sweep"
    /\ UNCHANGED <<pool, runs, sweeping, snapshot>>

SweepOver ==
    /\ drain = "sweep"
    /\ \A r \in Runs : sweeping = r => phase[r] = "idle"
    /\ drain' = "check"
    /\ UNCHANGED <<pool, runs, stopping, sweeping, snapshot, calls>>

\* A run() resumed by a settled promise goes on before whenIdle() does: its continuation
\* is queued before the one behind Promise.allSettled().
Resumed(r) == phase[r] = "loop" /\ awaits[r] = None /\ queue[r] # <<>>

Drained_Snapshot == settled = {}
Drained == pending = {}

WaitsOn ==
    /\ drain = "check" /\ ~Drained
    /\ drain' = "settle" /\ snapshot' = pending
    /\ UNCHANGED <<pool, runs, stopping, sweeping, calls>>

AllSettled ==
    /\ drain = "settle" /\ snapshot = {} /\ \A r \in Runs : ~Resumed(r)
    /\ drain' = "check"
    /\ UNCHANGED <<pool, runs, stopping, sweeping, snapshot, calls>>

IdleStop ==
    /\ drain = "check" /\ Drained
    /\ drain' = "quiet"
    /\ UNCHANGED <<pool, runs, stopping, sweeping, snapshot, calls>>

\* drain_ms is over first: whatever is in flight is left to the process's end.
DrainTimeout ==
    /\ Stopping
    /\ drain' = "cut" /\ snapshot' = {}
    /\ UNCHANGED <<pool, runs, stopping, sweeping, calls>>

Loop == \/ \E u \in Uids : WorkEnds(u) \/ Settle(u)
        \/ \E r \in Runs : RunFinds(r) \/ RunTracks(r) \/ RunEnds(r)
        \/ SweepOver \/ WaitsOn \/ AllSettled \/ IdleStop

Next == \/ Loop
        \/ \E u \in Uids : Enqueue(u)
        \/ \E r \in Runs : RunStarts(r) \/ Start(r)
        \/ Stop \/ DrainTimeout

Spec == Init /\ [][Next]_vars

\* The event loop runs on, and every relay ends: the transport and the datastore answer
\* or time out.
Fairness == /\ \A u \in Uids : WF_vars(WorkEnds(u)) /\ WF_vars(Settle(u))
            /\ \A r \in Runs : WF_vars(RunFinds(r)) /\ WF_vars(RunTracks(r)) /\ WF_vars(RunEnds(r))
            /\ WF_vars(SweepOver) /\ WF_vars(WaitsOn) /\ WF_vars(AllSettled) /\ WF_vars(IdleStop)

FairSpec == Spec /\ Fairness

--------------------------------------------------------------------------------

TypeOK ==
    /\ pending \subseteq Uids /\ settled \subseteq Uids /\ snapshot \subseteq Uids
    /\ active \in Nat /\ slotWaiters \in Seq(Uids) /\ working \in [Uids -> Nat]
    /\ queue \in [Runs -> Seq(Uids)] /\ awaits \in [Runs -> Uids \cup {None}]
    /\ phase \in [Runs -> {"idle", "find", "loop"}]
    /\ stopping \in BOOLEAN /\ sweeping \in Runs \cup {None}
    /\ drain \in {"no", "sweep", "check", "settle", "quiet", "cut"}
    /\ calls \in 0..MaxCalls

Works == {u \in Uids : working[u] > 0}

\* "The slot is handed over by whoever finishes, so active is never decremented in
\* between": active counts the works that hold a slot, never more than there are, and a
\* work waits only while every slot is taken (no wake-up is lost).
SlotsAccounted ==
    /\ active = Cardinality(Works) /\ active <= MaxParallel
    /\ slotWaiters # <<>> => active = MaxParallel

\* Nothing is worked on twice in this process: a uid holds one slot, or waits once for
\* one, or its promise is about to settle - and it is in the table all that time.
OnePerUid ==
    \A u \in Uids :
        LET waits == Cardinality({i \in 1..Len(slotWaiters) : slotWaiters[i] = u})
        IN  working[u] + waits + (IF u \in settled THEN 1 ELSE 0) = (IF u \in pending THEN 1 ELSE 0)

\* "Stops taking new work and waits (up to drain_ms) for the relays in flight": a stop()
\* that is not cut off by its timer returns with no relay in flight.
StopIsQuiet == [][drain = "check" /\ drain' = "quiet" => Works = {} /\ slotWaiters = <<>>]_vars

\* Every message taken into the table is worked on and leaves it.
AllServed == \A u \in Uids : u \in pending ~> u \notin pending

\* The table and its slots agree at every moment of ScheduledSendJob's runs, sweeps and stop(),
\* and what stop() takes from the table for quiet is quiet.
PoolInv == TypeOK /\ SlotsAccounted /\ OnePerUid
PoolHolds == []PoolInv /\ StopIsQuiet
==================================================================================
