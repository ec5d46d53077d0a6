------------------------------- MODULE Reminders -------------------------------
(****************************************************************************)
(* CalendarReminderJob on several replicas, for one event: its reminder and *)
(* its start alarm.  Each process keeps its own watermark and rings what    *)
(* falls between it and its horizon, after claiming the occurrence by a     *)
(* versioned stamp on the row; the mailbox's owner edits the row meanwhile. *)
(* One unit of time is the job's window.                                    *)
(****************************************************************************)
EXTENDS Naturals, FiniteSets

CONSTANTS
    Clocks,      \* processes running the job
    Lead,        \* reminderMinutesBeforeStart
    Lookback,    \* initial_lookback_seconds
    First,       \* the event's first start
    End,         \* bound: when the model's time ends
    MaxEdits     \* bound: saves of the event, restarts and crashes

\* Some process runs the job.
ASSUME ReminderAssumption == Clocks # {} /\ {Lead, Lookback, First, End, MaxEdits} \subseteq Nat

VARIABLES
    now, ev,   \* time; the event's row
    job,       \* each process: its watermark, and the copy its run works on
    rung,      \* the occurrences a notification was sent for
    edits,
    fault      \* what keeps an occurrence from ringing exactly once

rmVars == <<now, ev, job, rung, edits, fault>>

\* The markers reminderSentFor and startAlarmSentFor are 0 until something is sent.
NewEvent(m) == [start |-> First, master |-> m, sent |-> [k \in {"reminder", "start"} |-> 0]]
\* A process starts without a watermark.
Started == [at |-> "idle", kind |-> "reminder", mark |-> 0, upper |-> 0, copy |-> NewEvent(FALSE), fresh |-> FALSE, ran |-> 0]
RmInit ==
    /\ now = Lookback + 1 /\ \E m \in BOOLEAN : ev = NewEvent(m)
    /\ job = [c \in Clocks |-> Started] /\ rung = {} /\ edits = 0 /\ fault = {}

Before(k) == IF k = "reminder" THEN Lead ELSE 0
Largest(S) == CHOOSE x \in S : \A y \in S : y <= x
\* expandStarts(): a recurring event repeats one window later.
Starts(e) == IF e.master THEN {e.start, e.start + 1} ELSE {e.start}

\* run(): the candidates are read, from the watermark (or the lookback) to the horizon.
Run(c) ==
    /\ job[c].at = "idle" /\ job[c].ran < now
    /\ LET mark == IF job[c].mark = 0 THEN now - Lookback ELSE job[c].mark IN
       job' = [job EXCEPT ![c] = [@ EXCEPT !.at = "claim", !.ran = now, !.copy = ev, !.fresh = TRUE,
                                           !.mark = mark, !.upper = now + 1]]
    /\ UNCHANGED <<now, ev, rung, edits, fault>>
\* processEvent(): the reminder, then the start alarm, which an event reminded at its start does not have.
After(j) == IF j.kind = "reminder" /\ Lead > 0 THEN [j EXCEPT !.at = "claim", !.kind = "start"]
            ELSE [Started EXCEPT !.mark = j.upper, !.ran = j.ran]
\* processKind(): what fires between the watermark and the horizon; of several occurrences the last is claimed.
Due(j) == {s \in Starts(j.copy) : s > j.mark + Before(j.kind) /\ s <= j.upper + Before(j.kind)}
\* alreadySent()
AlreadySent(j) == LET sent == j.copy.sent[j.kind] IN
    Due(j) # {} /\ sent # 0 /\ (IF j.copy.master THEN Largest(Due(j)) <= sent ELSE Largest(Due(j)) = sent)
NothingDue(c) ==
    /\ job[c].at # "idle" /\ (Due(job[c]) = {} \/ AlreadySent(job[c]))
    /\ job' = [job EXCEPT ![c] = After(@)]
    /\ UNCHANGED <<now, ev, rung, edits, fault>>
\* claim(): the stamp carries the version, so of several processes one rings.
Ring(c) ==
    LET j == job[c] s == Largest(Due(j)) IN
    /\ j.at # "idle" /\ Due(j) # {} /\ ~AlreadySent(j) /\ j.fresh
    /\ ev' = [ev EXCEPT !.sent[j.kind] = s] /\ rung' = rung \cup {<<j.kind, s>>}
    /\ job' = [d \in Clocks |-> IF d = c THEN After([j EXCEPT !.copy.sent[j.kind] = s]) ELSE [job[d] EXCEPT !.fresh = FALSE]]
    /\ fault' = IF <<j.kind, s>> \in rung THEN fault \cup {"twice"} ELSE fault
    /\ UNCHANGED <<now, edits>>
\* A conflict reads the row again, and a second one gives up.
Conflict_Stale(c) ==
    LET j == job[c] IN
    /\ j.at # "idle" /\ Due(j) # {} /\ ~AlreadySent(j) /\ ~j.fresh
    /\ job' = [job EXCEPT ![c].at = "again", ![c].fresh = TRUE]
    /\ UNCHANGED <<now, ev, rung, edits, fault>>
Conflict(c) ==
    LET j == job[c] IN
    /\ j.at # "idle" /\ Due(j) # {} /\ ~AlreadySent(j) /\ ~j.fresh
    /\ IF j.at = "claim"
       THEN job' = [job EXCEPT ![c].at = "again", ![c].copy = [ev EXCEPT !.start = j.copy.start], ![c].fresh = TRUE] /\ UNCHANGED fault
       ELSE job' = [job EXCEPT ![c] = After(@)] /\ fault' = fault \cup {"gave up"}
    /\ UNCHANGED <<now, ev, rung, edits>>

Disturbs == edits < MaxEdits /\ edits' = edits + 1
\* The owner saves the event: another title, or another start.
Edit(s) ==
    /\ Disturbs /\ ev' = [ev EXCEPT !.start = s] /\ job' = [c \in Clocks |-> [job[c] EXCEPT !.fresh = FALSE]]
    /\ fault' = IF s # ev.start THEN fault \cup {"moved"} ELSE fault
    /\ UNCHANGED <<now, rung>>
\* A process restarts: its watermark is forgotten and what it had claimed and not sent is not sent.
Restart(c) ==
    /\ Disturbs /\ job' = [job EXCEPT ![c] = [Started EXCEPT !.ran = now]]
    /\ fault' = fault \cup {"restarted"}
    /\ UNCHANGED <<now, ev, rung>>
Tick ==
    /\ now < End /\ now' = now + 1 /\ \A c \in Clocks : job[c].at = "idle" /\ job[c].ran = now
    /\ UNCHANGED <<ev, job, rung, edits, fault>>
RmNext ==
    \/ \E c \in Clocks : Run(c) \/ NothingDue(c) \/ Ring(c) \/ Conflict(c) \/ Restart(c)
    \/ (\E s \in First .. First + 1 : Edit(s)) \/ Tick
RmSpec == RmInit /\ [][RmNext]_rmVars

--------------------------------------------------------------------------------
(****************************************************************************)
(* CalendarReminderJob sends "exactly once across replicas": no occurrence  *)
(* of an event that keeps its start rings twice, restarts, retried claims   *)
(* and saves of the row in between included; and once the time of an alarm  *)
(* has passed at every process it has rung, unless a process restarted,     *)
(* gave a claim up or the event was moved.                                  *)
(****************************************************************************)
Passed(k, s) == s <= now + 1 + Before(k) /\ s > 1 + Before(k)
RungOnce ==
    /\ "moved" \notin fault => "twice" \notin fault
    /\ (fault = {} /\ \A c \in Clocks : job[c].at = "idle" /\ job[c].ran = now) =>
          \A k \in (IF Lead > 0 THEN {"reminder", "start"} ELSE {"reminder"}) :
              LET passed == {s \in Starts(ev) : Passed(k, s)} IN passed # {} => <<k, Largest(passed)>> \in rung
================================================================================
