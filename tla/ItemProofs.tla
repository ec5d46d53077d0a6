------------------------------- MODULE ItemProofs ------------------------------
(****************************************************************************)
(* What is proved of single items of a mailbox: the reminders of an event,  *)
(* the bookings of a room, and what is done to one message at once. The     *)
(* components share no variable; each has an invariant of its own.          *)
(****************************************************************************)
EXTENDS Reminders, Meetings, MessageActions, TLAPS

--------------------------------------------------------------------------------
(****************************************************************************)
(* Reminders: CalendarReminderJob at any number of processes. While the     *)
(* event keeps its start, the marker on the row is in rung and is the       *)
(* largest occurrence rung (RungFit), and a copy that is fresh carries the  *)
(* row's markers (CopyFits): so a claim that succeeds rings an occurrence   *)
(* past the marker, never one that rang. As long as nothing disturbed a     *)
(* process (Timely), every occurrence at or below its watermark has rung or *)
(* one after it has (RungUpTo), for the kinds it has looked at; ticks leave *)
(* it so because the watermark is the horizon of the last run.              *)
(****************************************************************************)

RmKinds == {"reminder", "start"}
EventRows == [start : Nat, master : BOOLEAN, sent : [RmKinds -> Nat]]
ReminderJobs == [at : {"idle", "claim", "again"}, kind : RmKinds, mark : Nat, upper : Nat, copy : EventRows, fresh :
    BOOLEAN, ran : Nat]
RmTypeOK ==
    /\ now \in Nat /\ now > Lookback /\ ev \in EventRows /\ job \in [Clocks -> ReminderJobs]
    /\ rung \subseteq RmKinds \X Nat
    /\ fault \subseteq {"moved", "restarted", "gave up", "twice"}
\* A process in the middle of a run.
Busy(c) == job[c].at # "idle"
Unmoved == "moved" \notin fault
\* The markers of a row or of a copy stand for what rang.
SentRung(sent) == \A k \in RmKinds : sent[k] # 0 => <<k, sent[k]>> \in rung
\* A copy that is fresh has the markers of the row.
CopyFits(c) == Busy(c) =>
    /\ job[c].mark > 0 /\ job[c].copy.master = ev.master
    /\ job[c].fresh => job[c].copy.sent = ev.sent
    /\ Unmoved => job[c].copy.start = First /\ SentRung(job[c].copy.sent)
\* While the event keeps its start, nothing past the marker has rung.
RungFit == Unmoved =>
    /\ ev.start = First /\ SentRung(ev.sent) /\ "twice" \notin fault
    /\ \A x \in rung : x[2] \in Starts(ev) /\ 0 < x[2] /\ x[2] <= ev.sent[x[1]]
\* An occurrence of the event that fires between the beginning of time and a horizon.
InTime(k, s, upper) == s \in Starts(ev) /\ s > 1 + Before(k) /\ s <= upper + Before(k)
\* Every occurrence that fires by a horizon has rung, or a later one has.
RungUpTo(k, upper) == \A s \in Nat : InTime(k, s, upper) => \E t \in Nat : s <= t /\ InTime(k, t, upper) /\ <<k, t>> \in rung
\* How far a process has looked for a kind.
Looked(c, k) == IF job[c].kind = "start" /\ k = "reminder" THEN job[c].upper ELSE job[c].mark
\* The kinds of alarm the event has: one reminded at its start has no start alarm.
Used == IF Lead > 0 THEN RmKinds ELSE {"reminder"}
\* A process that nothing disturbed missed no occurrence.
OnTime(c) ==
    /\ Busy(c) => job[c].ran = now /\ job[c].upper = now + 1 /\ job[c].kind \in Used
    /\ job[c].mark = 0 => ~Busy(c) /\ job[c].ran = 0 /\ now = Lookback + 1
    /\ ~Busy(c) => job[c].kind = "reminder" /\ (job[c].mark # 0 => job[c].mark = job[c].ran + 1)
    /\ job[c].mark # 0 => \A k \in Used : RungUpTo(k, Looked(c, k))
Timely == fault = {} =>
    /\ \A x \in rung : InTime(x[1], x[2], now + 1)
    /\ \A c \in Clocks : OnTime(c)
RmInv == RmTypeOK /\ (\A c \in Clocks : CopyFits(c)) /\ RungFit /\ Timely

\* The largest of one or two neighbouring numbers is one of them, and no smaller than the other.
LEMMA LargestIs ==
  ASSUME NEW n \in Nat, NEW S \in SUBSET {n, n + 1}, S # {}
  PROVE  Largest(S) \in S /\ \A y \in S : y <= Largest(S)
<1>1. \E x \in S : \A y \in S : y <= x
  <2>1. CASE n + 1 \in S
    BY <2>1
  <2>2. CASE n + 1 \notin S
    <3>1. S = {n}
      BY <2>2
    <3> QED BY <3>1
  <2> QED BY <2>1, <2>2
<1> QED BY <1>1 DEF Largest

\* expandStarts(): an event has one start, or two a window apart.
LEMMA StartsAre ==
  ASSUME NEW e \in EventRows
  PROVE  Starts(e) \subseteq {e.start, e.start + 1} /\ Starts(e) \subseteq Nat
BY DEF Starts, EventRows

\* The lead of an alarm is a number.
LEMMA BeforeIs == \A k \in RmKinds : Before(k) \in Nat
BY ReminderAssumption DEF Before

\* What is due (processKind) lies past the watermark, within the horizon, and has a largest occurrence.
LEMMA DueIs ==
  ASSUME NEW j \in ReminderJobs
  PROVE  /\ Due(j) \subseteq Starts(j.copy) /\ Due(j) \subseteq Nat
         /\ \A s \in Due(j) : s > j.mark + Before(j.kind) /\ s <= j.upper + Before(j.kind)
         /\ Due(j) # {} => Largest(Due(j)) \in Due(j) /\ \A y \in Due(j) : y <= Largest(Due(j))
<1>1. j.copy \in EventRows /\ j.copy.start \in Nat
  BY DEF ReminderJobs, EventRows
<1>2. Due(j) \subseteq {j.copy.start, j.copy.start + 1} /\ Due(j) \subseteq Nat
  BY <1>1, StartsAre DEF Due
<1>3. Due(j) # {} => Largest(Due(j)) \in Due(j) /\ \A y \in Due(j) : y <= Largest(Due(j))
  BY <1>1, <1>2, LargestIs
<1> QED BY <1>2, <1>3 DEF Due

\* processEvent() goes from the reminder to the start alarm, and then rests with its watermark at the horizon.
LEMMA AfterIs ==
  ASSUME NEW j \in ReminderJobs
  PROVE  /\ After(j) \in ReminderJobs
         /\ After(j).ran = j.ran
         /\ j.kind = "reminder" /\ Lead > 0 =>
               /\ After(j).at # "idle" /\ After(j).kind = "start" /\ After(j).mark = j.mark /\ After(j).upper = j.upper
               /\ After(j).copy = j.copy /\ After(j).fresh = j.fresh
         /\ ~(j.kind = "reminder" /\ Lead > 0) =>
               After(j).at = "idle" /\ After(j).kind = "reminder" /\ After(j).mark = j.upper
<1>1. NewEvent(FALSE) \in EventRows
  BY ReminderAssumption DEF NewEvent, EventRows, RmKinds
<1>2. CASE j.kind = "reminder" /\ Lead > 0
  BY <1>2 DEF After, ReminderJobs, RmKinds
<1>3. CASE ~(j.kind = "reminder" /\ Lead > 0)
  BY <1>1, <1>3 DEF After, Started, ReminderJobs, RmKinds
<1> QED BY <1>2, <1>3

\* What has rung stays rung.
LEMMA RungStays ==
  ASSUME NEW k, NEW upper, RungUpTo(k, upper), Starts(ev') = Starts(ev), rung \subseteq rung'
  PROVE  RungUpTo(k, upper)'
BY DEF RungUpTo, InTime

\* A step that leaves a process alone leaves it on time.
LEMMA TimeStays ==
  ASSUME NEW c \in Clocks, OnTime(c), now' = now, Starts(ev') = Starts(ev), rung \subseteq rung',
         job'[c].at = job[c].at, job'[c].kind = job[c].kind, job'[c].mark = job[c].mark,
         job'[c].upper = job[c].upper, job'[c].ran = job[c].ran
  PROVE  OnTime(c)'
<1>1. ASSUME job[c].mark # 0, NEW k \in Used PROVE RungUpTo(k, Looked(c, k))'
  <2> DEFINE u == Looked(c, k)
  <2>1. Looked(c, k)' = u
    BY DEF Looked
  <2>2. RungUpTo(k, u)
    BY <1>1 DEF OnTime
  <2> HIDE DEF u
  <2>3. QED
    BY <2>1, <2>2 DEF RungUpTo, InTime
<1> QED BY <1>1 DEF OnTime, Busy, Used

\* Once everything due at a process has rung, so has everything that fires by its horizon.
LEMMA Caught ==
  ASSUME RmInv, fault = {}, NEW c \in Clocks, Busy(c), NEW R, rung \subseteq R,
         \A s \in Due(job[c]) : \E t \in Nat : s <= t /\ InTime(job[c].kind, t, now + 1) /\ <<job[c].kind, t>> \in R,
         NEW s \in Nat, InTime(job[c].kind, s, now + 1)
  PROVE  \E t \in Nat : s <= t /\ InTime(job[c].kind, t, now + 1) /\ <<job[c].kind, t>> \in R
<1> DEFINE k == job[c].kind
<1>1. /\ OnTime(c) /\ CopyFits(c) /\ RungFit /\ job[c] \in ReminderJobs /\ now \in Nat
      /\ \A x \in rung : InTime(x[1], x[2], now + 1)
  BY DEF RmInv, Timely, RmTypeOK
<1>2. /\ k \in Used /\ k \in RmKinds /\ job[c].upper = now + 1 /\ job[c].mark # 0 /\ job[c].mark \in Nat
      /\ Before(k) \in Nat
  BY <1>1, BeforeIs DEF OnTime, CopyFits, ReminderJobs
<1>3. CASE s > job[c].mark + Before(k)
  <2>1. Starts(job[c].copy) = Starts(ev)
    BY <1>1 DEF CopyFits, RungFit, Unmoved, Starts
  <2>2. s \in Due(job[c])
    BY <1>2, <1>3, <2>1 DEF Due, InTime
  <2> QED BY <2>2
<1>4. CASE s <= job[c].mark + Before(k)
  <2>1. Looked(c, k) = job[c].mark
    BY DEF Looked
  <2>2. RungUpTo(k, job[c].mark)
    BY <1>1, <1>2, <2>1 DEF OnTime
  <2>3. InTime(k, s, job[c].mark)
    BY <1>4 DEF InTime
  <2>4. PICK t \in Nat : s <= t /\ <<k, t>> \in rung
    BY <2>2, <2>3 DEF RungUpTo
  <2>5. InTime(k, t, now + 1)
    BY <1>1, <2>4
  <2> QED BY <2>4, <2>5
<1>5. s > job[c].mark + Before(k) \/ s <= job[c].mark + Before(k)
  BY <1>2
<1> QED BY <1>3, <1>4, <1>5

\* A process that goes on to its next kind, or ends its run, with everything due rung is on time.
LEMMA StepOnTime ==
  ASSUME RmInv, fault = {}, fault' = {}, NEW c \in Clocks, Busy(c), now' = now, Starts(ev') = Starts(ev),
      rung \subseteq rung',
         \A s \in Due(job[c]) :
            \E t \in Nat : s <= t /\ InTime(job[c].kind, t, now + 1) /\ <<job[c].kind, t>> \in rung',
         job'[c].at = After(job[c]).at, job'[c].kind = After(job[c]).kind, job'[c].mark = After(job[c]).mark,
         job'[c].ran = After(job[c]).ran, Busy(c)' => job'[c].upper = After(job[c]).upper
  PROVE  OnTime(c)'
<1>1. /\ OnTime(c) /\ CopyFits(c) /\ job[c] \in ReminderJobs /\ now \in Nat
  BY DEF RmInv, Timely, RmTypeOK
<1>2. /\ job[c].kind \in Used /\ job[c].kind \in RmKinds /\ job[c].upper = now + 1 /\ job[c].mark # 0
      /\ job[c].mark \in Nat
      /\ job[c].ran = now
  BY <1>1 DEF OnTime, CopyFits, ReminderJobs
<1>3. PICK k \in RmKinds, u \in Nat : k = job[c].kind /\ u = now + 1
  BY <1>1, <1>2
<1>4. RungUpTo(k, u)'
  <2>1. ASSUME NEW s \in Nat, InTime(k, s, u)
        PROVE  \E t \in Nat : s <= t /\ InTime(k, t, u) /\ <<k, t>> \in rung'
    BY <1>3, <2>1, Caught
  <2>2. ASSUME NEW s PROVE InTime(k, s, u)' = InTime(k, s, u)
    BY DEF InTime
  <2> QED BY <2>1, <2>2 DEF RungUpTo
<1>5. PICK m \in Nat : m = job[c].mark /\ m # 0
  BY <1>2
<1>6. ASSUME NEW h \in Used, NEW v, v = Looked(c, h) PROVE RungUpTo(h, v)'
  BY <1>1, <1>2, <1>6, RungStays DEF OnTime
<1>7. CASE k = "reminder" /\ Lead > 0
  <2>1. Busy(c)' /\ job'[c].kind = "start" /\ job'[c].mark = m /\ job'[c].upper = u /\ job'[c].ran = now
    <3>1. /\ After(job[c]).at # "idle" /\ After(job[c]).kind = "start" /\ After(job[c]).mark = m
          /\ After(job[c]).upper = u /\ After(job[c]).ran = now
      <4>1. job[c] \in ReminderJobs /\ job[c].kind = "reminder" /\ Lead > 0
        BY <1>1, <1>3, <1>7
      <4>2. /\ After(job[c]).at # "idle" /\ After(job[c]).kind = "start" /\ After(job[c]).mark = job[c].mark
            /\ After(job[c]).upper = job[c].upper /\ After(job[c]).ran = job[c].ran
        BY <4>1, AfterIs
      <4> QED BY <1>2, <1>3, <1>5, <4>2
    <3>2. Busy(c)'
      BY <3>1 DEF Busy
    <3> QED BY <3>1, <3>2
  <2>2. RungUpTo("start", m)'
    BY <1>3, <1>5, <1>6, <1>7 DEF Looked, Used, RmKinds
  <2>3. \A h \in Used : RungUpTo(h, Looked(c, h))'
    BY <1>4, <1>7, <2>1, <2>2 DEF Looked, Used, RmKinds
  <2> QED BY <1>3, <1>5, <1>7, <2>1, <2>3 DEF OnTime, Used, RmKinds
<1>8. CASE ~(k = "reminder" /\ Lead > 0)
  <2>1. ~Busy(c)' /\ job'[c].kind = "reminder" /\ job'[c].mark = u /\ job'[c].ran = now
    BY <1>1, <1>2, <1>3, <1>8, AfterIs DEF Busy
  <2>2. ASSUME NEW h \in Used PROVE RungUpTo(h, u)'
    BY <1>2, <1>3, <1>4, <1>6, <1>8, <2>2 DEF Looked, Used, RmKinds
  <2>3. \A h \in Used : Looked(c, h)' = u
    BY <2>1 DEF Looked
  <2>4. \A h \in Used : RungUpTo(h, Looked(c, h))'
    BY <2>2, <2>3
  <2> QED BY <1>1, <1>3, <2>1, <2>4 DEF OnTime, Used
<1> QED BY <1>7, <1>8

\* A step that leaves the copy of a process alone, and outdates it if it saves the row, keeps it fitting.
LEMMA CopyStays ==
  ASSUME NEW c \in Clocks, CopyFits(c), Unmoved' => Unmoved, rung \subseteq rung', ev'.master = ev.master,
         Busy(c)' => /\ Busy(c) /\ job'[c].mark = job[c].mark /\ job'[c].copy = job[c].copy
                     /\ job'[c].fresh => job[c].fresh /\ ev'.sent = ev.sent
  PROVE  CopyFits(c)'
<1>1. \A sent : SentRung(sent) => SentRung(sent)'
  BY DEF SentRung
<1> SUFFICES ASSUME Busy(c)' PROVE CopyFits(c)'
  BY DEF CopyFits
<1>2. PICK copy : copy = job[c].copy
  OBVIOUS
<1>3. (Unmoved => copy.start = First /\ SentRung(copy.sent)) /\ job'[c].copy = copy
  BY <1>2 DEF CopyFits
<1>4. Unmoved' => copy.start = First /\ SentRung(copy.sent)'
  BY <1>1, <1>3
<1>5. SentRung(job[c].copy.sent)' = SentRung(copy.sent)'
  BY <1>3 DEF SentRung
<1> QED BY <1>2, <1>3, <1>4, <1>5 DEF CopyFits

\* A first run starts without a watermark, and nothing has rung.
LEMMA RmInitOK == RmInit => RmInv
<1> SUFFICES ASSUME RmInit PROVE RmInv
  OBVIOUS
<1>1. PICK m \in BOOLEAN : ev = NewEvent(m)
  BY DEF RmInit
<1>2. \A b \in BOOLEAN : NewEvent(b) \in EventRows
  BY ReminderAssumption DEF NewEvent, EventRows, RmKinds
<1>3. job \in [Clocks -> ReminderJobs]
  BY <1>2 DEF RmInit, Started, ReminderJobs, RmKinds
<1>4. RmTypeOK
  BY <1>1, <1>2, <1>3, ReminderAssumption DEF RmInit, RmTypeOK
<1>5. \A c \in Clocks : ~Busy(c) /\ job[c].mark = 0 /\ job[c].ran = 0 /\ job[c].kind = "reminder"
  BY DEF RmInit, Started, Busy
<1>6. RungFit
  BY <1>1, RmInit DEF RmInit, RungFit, SentRung, NewEvent, RmKinds
<1>7. Timely
  BY <1>5 DEF RmInit, Timely, OnTime
<1>8. \A c \in Clocks : CopyFits(c)
  BY <1>5 DEF CopyFits
<1> QED BY <1>4, <1>6, <1>7, <1>8 DEF RmInv

\* run() keeps it: the copy is the row, and the watermark is where the last run's horizon was.
LEMMA RunKeeps ==
  ASSUME RmInv, NEW c \in Clocks, Run(c)
  PROVE  RmInv'
<1>1. /\ RmTypeOK /\ RungFit /\ Timely /\ \A d \in Clocks : CopyFits(d)
      /\ job[c] \in ReminderJobs /\ now \in Nat /\ now > Lookback /\ Lookback \in Nat /\ ev \in EventRows
  BY ReminderAssumption DEF RmInv, RmTypeOK
<1> DEFINE upper == now + 1
           mark == IF job[c].mark = 0 THEN now - Lookback ELSE job[c].mark
           j == [job[c] EXCEPT !.at = "claim", !.ran = now, !.copy = ev, !.fresh = TRUE, !.mark = mark, !.upper = upper]
<1>2. PICK m \in Nat : m = mark /\ m > 0
  <2>1. job[c].mark \in Nat
    BY <1>1 DEF ReminderJobs
  <2>2. mark \in Nat /\ mark > 0
    BY <1>1, <2>1
  <2> QED BY <2>2
<1>3. job' = [job EXCEPT ![c] = j] /\ UNCHANGED <<now, ev, rung, fault>> /\ ~Busy(c)
  BY DEF Run, Busy
<1> HIDE DEF mark, upper
<1>4. /\ job'[c] \in ReminderJobs /\ \A d \in Clocks \ {c} : job'[d] = job[d]
      /\ job'[c].at = "claim" /\ job'[c].ran = now /\ job'[c].copy = ev /\ job'[c].fresh = TRUE /\ job'[c].mark = m
      /\ job'[c].upper = now + 1 /\ job'[c].kind = job[c].kind
  <2>1. /\ j \in ReminderJobs /\ j.at = "claim" /\ j.ran = now /\ j.copy = ev /\ j.fresh = TRUE /\ j.mark = m
        /\ j.upper = now + 1 /\ j.kind = job[c].kind
    <3>1. mark \in Nat /\ now \in Nat /\ upper \in Nat /\ upper = now + 1 /\ job[c] \in ReminderJobs /\ ev \in EventRows
      BY <1>1, <1>2 DEF upper
    <3>2. j \in ReminderJobs
      BY <3>1 DEF ReminderJobs
    <3>3. /\ j.at = "claim" /\ j.ran = now /\ j.copy = ev /\ j.fresh = TRUE /\ j.mark = mark
          /\ j.upper = upper /\ j.kind = job[c].kind
      BY <3>1 DEF ReminderJobs
    <3> QED BY <1>2, <3>1, <3>2, <3>3
  <2> HIDE DEF j
  <2>2. job'[c] = j /\ \A d \in Clocks \ {c} : job'[d] = job[d]
    BY <1>1, <1>3 DEF RmTypeOK
  <2> QED BY <2>1, <2>2
<1>5. RmTypeOK'
  BY <1>1, <1>3, <1>4 DEF RmTypeOK
<1>6. RungFit'
  BY <1>1, <1>3 DEF RungFit, Unmoved, SentRung, Starts
<1>7. ASSUME NEW d \in Clocks PROVE CopyFits(d)'
  <2>1. CASE d = c
    BY <1>1, <1>2, <1>3, <1>4, <2>1 DEF CopyFits, RungFit, Unmoved, SentRung
  <2>2. CASE d # c
    BY <1>1, <1>3, <1>4, <2>2 DEF CopyFits, Busy, Unmoved, SentRung
  <2> QED BY <2>1, <2>2
<1>8. Timely'
  <2> SUFFICES ASSUME fault' = {} PROVE (\A x \in rung : InTime(x[1], x[2], now + 1))' /\ \A d \in Clocks : OnTime(d)'
    BY DEF Timely
  <2>1. fault = {} /\ (\A d \in Clocks : OnTime(d)) /\ \A x \in rung : InTime(x[1], x[2], now + 1)
    BY <1>1, <1>3 DEF Timely
  <2>2. (\A x \in rung : InTime(x[1], x[2], now + 1))'
    BY <1>3, <2>1 DEF InTime, Starts
  <2>3. ASSUME NEW d \in Clocks PROVE OnTime(d)'
    <3>1. CASE d # c
      BY <1>3, <1>4, <2>1, <3>1, TimeStays DEF Starts
    <3>2. CASE d = c
      <4>1. job[c].kind = "reminder" /\ "reminder" \in Used
        BY <1>3, <2>1 DEF OnTime, Used, RmKinds
      <4>2. ASSUME NEW k \in Used PROVE RungUpTo(k, m)'
        <5>1. CASE job[c].mark = 0
          <6>1. m = 1
            BY <1>1, <1>2, <2>1, <5>1 DEF OnTime, mark
          <6> QED BY <6>1, BeforeIs DEF RungUpTo, InTime, Used, RmKinds
        <5>2. CASE job[c].mark # 0
          <6>1. Looked(c, k) = m
            BY <1>2, <4>1, <5>2 DEF Looked, mark
          <6>2. RungUpTo(k, m)
            BY <2>1, <5>2, <6>1 DEF OnTime
          <6> QED BY <1>3, <6>2, RungStays DEF Starts
        <5> QED BY <5>1, <5>2
      <4>3. \A k \in Used : Looked(c, k)' = m
        BY <1>4, <4>1 DEF Looked
      <4>4. \A k \in Used : RungUpTo(k, Looked(c, k))'
        BY <4>2, <4>3
      <4> QED BY <1>2, <1>3, <1>4, <3>2, <4>1, <4>4 DEF OnTime, Busy, Used
    <3> QED BY <3>1, <3>2
  <2> QED BY <2>2, <2>3
<1> QED BY <1>5, <1>6, <1>7, <1>8 DEF RmInv

\* A process that goes on without ringing (processKind finds nothing due, or the occurrence already sent, or
\* claim() gives up) keeps it.
LEMMA PassedOver ==
  ASSUME RmInv, NEW c \in Clocks, job' = [job EXCEPT ![c] = After(job[c])], UNCHANGED <<now, ev, rung>>,
         fault \subseteq fault', Busy(c), fault' \subseteq fault \cup {"gave up"},
         fault' = {} => Due(job[c]) = {} \/ AlreadySent(job[c])
  PROVE  RmInv'
<1>0. Unmoved' => Unmoved
  BY DEF Unmoved
<1>1. /\ RmTypeOK /\ RungFit /\ Timely /\ (\A d \in Clocks : CopyFits(d)) /\ job[c] \in ReminderJobs /\ now \in Nat
  BY DEF RmInv, RmTypeOK
<1>2. /\ job'[c] = After(job[c]) /\ After(job[c]) \in ReminderJobs /\ \A d \in Clocks \ {c} : job'[d] = job[d]
  BY <1>1, AfterIs DEF RmTypeOK
<1>3. RmTypeOK'
  BY <1>1, <1>2 DEF RmTypeOK
<1>4. RungFit'
  BY <1>1 DEF RungFit, Unmoved, SentRung, Starts
<1>5. ASSUME NEW d \in Clocks PROVE CopyFits(d)'
  <2>1. CASE d = c
    <3>1. After(job[c]).at # "idle" =>
             /\ After(job[c]).mark = job[c].mark /\ After(job[c]).copy = job[c].copy
             /\ After(job[c]).fresh = job[c].fresh
      BY <1>1, AfterIs
    <3>2. Busy(c)' => /\ job'[c].mark = job[c].mark /\ job'[c].copy = job[c].copy /\ job'[c].fresh = job[c].fresh
      BY <1>2, <3>1 DEF Busy
    <3>3. CopyFits(c)
      BY <1>1
    <3> QED BY <1>0, <2>1, <3>2, <3>3, CopyStays
  <2>2. CASE d # c
    <3>1. CopyFits(d) /\ job'[d] = job[d]
      BY <1>1, <1>2, <2>2
    <3> QED BY <1>0, <3>1, CopyStays DEF Busy
  <2> QED BY <2>1, <2>2
<1>6. Timely'
  <2> SUFFICES ASSUME fault' = {} PROVE (\A x \in rung : InTime(x[1], x[2], now + 1))' /\ \A d \in Clocks : OnTime(d)'
    BY DEF Timely
  <2>1. fault = {} /\ (\A d \in Clocks : OnTime(d)) /\ \A x \in rung : InTime(x[1], x[2], now + 1)
    BY <1>1 DEF Timely
  <2>2. (\A x \in rung : InTime(x[1], x[2], now + 1))'
    BY <2>1 DEF InTime, Starts
  <2>3. Starts(ev') = Starts(ev)
    BY DEF Starts
  <2>4. ASSUME NEW s \in Due(job[c])
        PROVE  \E t \in Nat : s <= t /\ InTime(job[c].kind, t, now + 1) /\ <<job[c].kind, t>> \in rung'
    <3>1. AlreadySent(job[c])
      BY <2>4
    <3>2. PICK sent \in Nat : sent = job[c].copy.sent[job[c].kind] /\ sent # 0
      BY <1>1, <3>1 DEF AlreadySent, ReminderJobs, EventRows
    <3>3. <<job[c].kind, sent>> \in rung
      BY <1>1, <2>1, <3>2 DEF CopyFits, Unmoved, SentRung, ReminderJobs
    <3>4. s <= Largest(Due(job[c])) /\ Largest(Due(job[c])) \in Nat /\ s \in Nat
      BY <1>1, DueIs
    <3>5. Largest(Due(job[c])) <= sent
      BY <3>1, <3>2, <3>4 DEF AlreadySent
    <3>6. InTime(job[c].kind, sent, now + 1)
      BY <2>1, <3>3
    <3> QED BY <3>2, <3>3, <3>4, <3>5, <3>6
  <2>5. OnTime(c)'
    BY <1>2, <2>1, <2>3, <2>4, StepOnTime
  <2>6. ASSUME NEW d \in Clocks PROVE OnTime(d)'
    <3>1. CASE d # c
      BY <1>2, <2>1, <2>3, <3>1, TimeStays
    <3> QED BY <2>5, <3>1
  <2> QED BY <2>2, <2>6
<1> QED BY <1>3, <1>4, <1>5, <1>6 DEF RmInv

\* claim() keeps it: its stamp carries the version, so what it rings lies past every marker of the row.
LEMMA RingKeeps ==
  ASSUME RmInv, NEW c \in Clocks, Ring(c)
  PROVE  RmInv'
<1> DEFINE j == job[c]
           s == Largest(Due(j))
           sent == j.copy.sent[j.kind]
           m == [j EXCEPT !.copy.sent[j.kind] = s]
<1>1. /\ RmTypeOK /\ RungFit /\ Timely /\ (\A d \in Clocks : CopyFits(d)) /\ j \in ReminderJobs /\ now \in Nat
      /\ ev \in EventRows
      /\ j.kind \in RmKinds /\ j.copy.sent \in [RmKinds -> Nat] /\ ev.sent \in [RmKinds -> Nat] /\ j.mark \in Nat
      /\ Before(j.kind) \in Nat /\ j.upper \in Nat
  BY BeforeIs DEF RmInv, RmTypeOK, ReminderJobs, EventRows
<1>2. /\ Busy(c) /\ Due(j) # {} /\ ~AlreadySent(j) /\ j.fresh
      /\ ev' = [ev EXCEPT !.sent[j.kind] = s] /\ rung' = rung \cup {<<j.kind, s>>}
      /\ job' = [d \in Clocks |-> IF d = c THEN After(m) ELSE [job[d] EXCEPT !.fresh = FALSE]]
      /\ fault' = (IF <<j.kind, s>> \in rung THEN fault \cup {"twice"} ELSE fault) /\ now' = now
  BY DEF Ring, Busy
<1>3. /\ s \in Nat /\ s \in Starts(j.copy) /\ s > j.mark + Before(j.kind) /\ s <= j.upper + Before(j.kind)
      /\ \A y \in Due(j) : y <= s
  BY <1>1, <1>2, DueIs
<1>4. j.copy.sent = ev.sent /\ j.copy.master = ev.master /\ j.mark > 0 /\ sent = ev.sent[j.kind] /\ sent \in Nat
  BY <1>1, <1>2 DEF CopyFits
<1>5. sent = 0 \/ (IF ev.master THEN s > sent ELSE s # sent)
  BY <1>2, <1>3, <1>4 DEF AlreadySent
<1> HIDE DEF s
<1>6. /\ ev' \in EventRows /\ ev'.start = ev.start /\ ev'.master = ev.master /\ Starts(ev') = Starts(ev)
      /\ ev'.sent = [ev.sent EXCEPT ![j.kind] = s]
  BY <1>1, <1>2, <1>3 DEF EventRows, Starts
<1>7. /\ m \in ReminderJobs /\ m.kind = j.kind /\ m.mark = j.mark /\ m.upper = j.upper /\ m.ran = j.ran
      /\ m.fresh = j.fresh
      /\ m.copy.start = j.copy.start /\ m.copy.master = j.copy.master /\ m.copy.sent = ev'.sent /\ m.at = j.at
  BY <1>1, <1>3, <1>4, <1>6 DEF ReminderJobs, EventRows
<1> HIDE DEF m
<1>8. /\ job'[c] = After(m) /\ job' \in [Clocks -> ReminderJobs]
      /\ \A d \in Clocks \ {c} : job'[d] = [job[d] EXCEPT !.fresh = FALSE]
  <2>1. \A d \in Clocks : [job[d] EXCEPT !.fresh = FALSE] \in ReminderJobs
    BY <1>1 DEF RmTypeOK, ReminderJobs
  <2>2. After(m) \in ReminderJobs
    BY <1>7, AfterIs
  <2> QED BY <1>2, <2>1, <2>2
<1>9. ASSUME NEW d \in Clocks, d # c
      PROVE  /\ job'[d].fresh = FALSE /\ job'[d].at = job[d].at /\ job'[d].kind = job[d].kind /\ job'[d].mark = job[d].mark
             /\ job'[d].upper = job[d].upper /\ job'[d].ran = job[d].ran /\ job'[d].copy = job[d].copy
  <2>1. job[d] \in ReminderJobs /\ job'[d] = [job[d] EXCEPT !.fresh = FALSE]
    BY <1>1, <1>8, <1>9 DEF RmTypeOK
  <2> QED BY <2>1 DEF ReminderJobs
<1>10. RmTypeOK'
  <2>1. rung' \subseteq RmKinds \X Nat /\ fault' \subseteq {"moved", "restarted", "gave up", "twice"}
    <3>1. <<j.kind, s>> \in RmKinds \X Nat
      BY <1>1, <1>3
    <3> QED BY <1>1, <1>2, <3>1 DEF RmTypeOK
  <2> QED BY <1>1, <1>2, <1>6, <1>8, <2>1 DEF RmTypeOK
<1>11. (Unmoved' => Unmoved) /\ rung \subseteq rung'
  BY <1>2 DEF Unmoved
<1>12. PICK now_sent : now_sent = ev'.sent
  OBVIOUS
<1>13. ASSUME Unmoved PROVE SentRung(now_sent)'
  <2>1. SentRung(ev.sent)
    BY <1>1, <1>13 DEF RungFit
  <2>2. ASSUME NEW k \in RmKinds, now_sent[k] # 0 PROVE <<k, now_sent[k]>> \in rung'
    BY <1>1, <1>2, <1>6, <1>12, <2>1, <2>2 DEF SentRung
  <2> QED BY <2>2 DEF SentRung
<1>14. RungFit'
  <2> SUFFICES ASSUME Unmoved' PROVE RungFit'
    BY DEF RungFit
  <2>1. /\ ev.start = First /\ Starts(j.copy) = Starts(ev) /\ SentRung(ev.sent) /\ "twice" \notin fault
        /\ \A x \in rung : x[2] \in Starts(ev) /\ 0 < x[2] /\ x[2] <= ev.sent[x[1]]
    BY <1>1, <1>2, <1>4, <1>11 DEF RungFit, CopyFits, Starts
  <2>2. s \in Starts(ev) /\ 0 < s /\ (~ev.master => s = First)
    BY <1>1, <1>3, <1>4, <2>1 DEF Starts
  <2>3. sent # 0 => <<j.kind, sent>> \in rung /\ sent \in Starts(ev)
    BY <1>1, <1>4, <2>1 DEF SentRung
  <2>4. sent = 0 \/ s > sent
    BY <1>3, <1>4, <1>5, <2>1, <2>2, <2>3 DEF Starts
  <2>5. <<j.kind, s>> \notin rung
    BY <1>3, <1>4, <2>1, <2>2, <2>4
  <2>6. ASSUME NEW x \in rung' PROVE x[2] \in Starts(ev') /\ 0 < x[2] /\ x[2] <= ev'.sent[x[1]]
    <3>1. CASE x = <<j.kind, s>>
      BY <1>1, <1>3, <1>6, <2>2, <3>1
    <3>2. CASE x \in rung
      <4>1. x[1] \in RmKinds /\ x[2] \in Nat
        BY <1>1, <3>2 DEF RmTypeOK
      <4>2. CASE x[1] = j.kind
        BY <1>1, <1>3, <1>4, <1>6, <2>1, <2>4, <3>2, <4>1, <4>2
      <4>3. CASE x[1] # j.kind
        BY <1>1, <1>6, <2>1, <3>2, <4>1, <4>3
      <4> QED BY <4>2, <4>3
    <3> QED BY <1>2, <3>1, <3>2
  <2>7. SentRung(now_sent)'
    BY <1>11, <1>13
  <2>8. "twice" \notin fault'
    BY <1>2, <2>1, <2>5
  <2>9. SentRung(ev.sent)'
    BY <1>12, <2>7 DEF SentRung
  <2>10. (\A x \in rung : x[2] \in Starts(ev) /\ 0 < x[2] /\ x[2] <= ev.sent[x[1]])'
    BY <2>6 DEF Starts
  <2> QED BY <1>6, <2>1, <2>8, <2>9, <2>10 DEF RungFit
<1>15. ASSUME NEW d \in Clocks PROVE CopyFits(d)'
  <2>1. CASE d = c
    <3>1. After(m).at # "idle" => After(m).mark = m.mark /\ After(m).copy = m.copy
      BY <1>7, AfterIs
    <3>2. Unmoved' => m.copy.start = First /\ SentRung(now_sent)'
      BY <1>1, <1>2, <1>7, <1>11, <1>13 DEF CopyFits
    <3>3. PICK copy, se : copy = m.copy /\ se = copy.sent
      OBVIOUS
    <3>4. Busy(c)' => job'[c].mark > 0 /\ job'[c].copy = copy
      BY <1>4, <1>7, <1>8, <3>1, <3>3 DEF Busy
    <3>5. Unmoved' => copy.start = First /\ SentRung(se)'
      BY <1>7, <1>12, <3>2, <3>3
    <3> QED BY <1>4, <1>6, <1>7, <2>1, <3>3, <3>4, <3>5 DEF CopyFits, SentRung
  <2>2. CASE d # c
    BY <1>1, <1>6, <1>9, <1>11, <2>2, CopyStays DEF Busy
  <2> QED BY <2>1, <2>2
<1>16. Timely'
  <2> SUFFICES ASSUME fault' = {} PROVE (\A x \in rung : InTime(x[1], x[2], now + 1))' /\ \A d \in Clocks : OnTime(d)'
    BY DEF Timely
  <2>1. fault = {} /\ (\A d \in Clocks : OnTime(d)) /\ \A x \in rung : InTime(x[1], x[2], now + 1)
    BY <1>1, <1>2 DEF Timely
  <2>2. Starts(j.copy) = Starts(ev) /\ j.upper = now + 1
    BY <1>1, <1>2, <1>4, <2>1 DEF CopyFits, RungFit, Unmoved, OnTime, Starts
  <2>3. InTime(j.kind, s, now + 1)
    BY <1>1, <1>3, <1>4, <2>2 DEF InTime
  <2>4. (\A x \in rung : InTime(x[1], x[2], now + 1))'
    BY <1>2, <1>6, <2>1, <2>3 DEF InTime
  <2>5. OnTime(c)'
    <3>1. ASSUME NEW y \in Due(j) PROVE \E t \in Nat : y <= t /\ InTime(j.kind, t, now + 1) /\ <<j.kind, t>> \in rung'
      BY <1>2, <1>3, <2>3
    <3>2. /\ job'[c].at = After(j).at /\ job'[c].kind = After(j).kind /\ job'[c].mark = After(j).mark
          /\ job'[c].ran = After(j).ran /\ (After(j).at # "idle" => job'[c].upper = After(j).upper)
      <4>1. CASE j.kind = "reminder" /\ Lead > 0
        <5>1. /\ After(m).at # "idle" /\ After(m).kind = "start" /\ After(m).mark = j.mark /\ After(m).upper = j.upper
              /\ After(m).ran = j.ran
          BY <1>7, <4>1, AfterIs
        <5>2. /\ After(j).kind = "start" /\ After(j).mark = j.mark /\ After(j).upper = j.upper /\ After(j).ran = j.ran
          BY <1>1, <4>1, AfterIs
        <5>3. After(j).at = "claim" /\ After(m).at = "claim"
          BY <1>1, <1>7, <4>1 DEF After, ReminderJobs
        <5> QED BY <1>8, <5>1, <5>2, <5>3
      <4>2. CASE ~(j.kind = "reminder" /\ Lead > 0)
        BY <1>1, <1>7, <1>8, <4>2, AfterIs
      <4> QED BY <4>1, <4>2
    <3> QED BY <1>2, <1>6, <1>11, <2>1, <3>1, <3>2, StepOnTime DEF Busy
  <2>6. ASSUME NEW d \in Clocks PROVE OnTime(d)'
    <3>1. CASE d # c
      BY <1>2, <1>6, <1>9, <1>11, <2>1, <3>1, TimeStays
    <3> QED BY <2>5, <3>1
  <2> QED BY <2>4, <2>6
<1> QED BY <1>10, <1>14, <1>15, <1>16 DEF RmInv

\* A claim that conflicts and reads the row again keeps it.
LEMMA ConflictKeeps ==
  ASSUME RmInv, NEW c \in Clocks, Conflict(c)
  PROVE  RmInv'
<1>1. /\ RmTypeOK /\ RungFit /\ Timely /\ (\A d \in Clocks : CopyFits(d)) /\ job[c] \in ReminderJobs /\ ev \in EventRows
      /\ Busy(c) /\ UNCHANGED <<now, ev, rung>>
  BY DEF RmInv, RmTypeOK, Conflict, Busy
<1>2. CASE job[c].at # "claim"
  <2>1. job' = [job EXCEPT ![c] = After(job[c])] /\ fault' = fault \cup {"gave up"}
    BY <1>2 DEF Conflict
  <2> QED BY <1>1, <2>1, PassedOver
<1>3. CASE job[c].at = "claim"
  <2> DEFINE copy == [ev EXCEPT !.start = job[c].copy.start]
             j == [job[c] EXCEPT !.at = "again", !.copy = copy, !.fresh = TRUE]
  <2>1. job' = [job EXCEPT ![c] = j] /\ fault' = fault
    BY <1>3 DEF Conflict
  <2>2. copy \in EventRows /\ copy.start = job[c].copy.start /\ copy.master = ev.master /\ copy.sent = ev.sent
    BY <1>1 DEF EventRows, ReminderJobs
  <2> HIDE DEF copy
  <2>3. /\ j \in ReminderJobs /\ j.at = "again" /\ j.copy = copy /\ j.kind = job[c].kind /\ j.mark = job[c].mark
        /\ j.upper = job[c].upper /\ j.ran = job[c].ran
    BY <1>1, <2>2 DEF ReminderJobs
  <2> HIDE DEF j
  <2>4. job'[c] = j /\ \A d \in Clocks \ {c} : job'[d] = job[d]
    BY <1>1, <2>1 DEF RmTypeOK
  <2>5. RmTypeOK'
    BY <1>1, <2>1, <2>3 DEF RmTypeOK
  <2>6. RungFit'
    BY <1>1, <2>1 DEF RungFit, Unmoved, SentRung, Starts
  <2>7. ASSUME NEW d \in Clocks PROVE CopyFits(d)'
    <3>1. CASE d = c
      <4>1. PICK row : row = copy
        OBVIOUS
      <4>2. Unmoved' => row.start = First /\ SentRung(row.sent)'
        BY <1>1, <2>1, <2>2, <4>1 DEF CopyFits, RungFit, Unmoved, SentRung
      <4>3. /\ job[c].mark > 0 /\ row.master = ev'.master /\ row.sent = ev'.sent /\ job'[c].copy = row
            /\ job'[c].mark = job[c].mark
        BY <1>1, <2>2, <2>3, <2>4, <4>1 DEF CopyFits
      <4> QED BY <3>1, <4>2, <4>3 DEF CopyFits, SentRung
    <3>2. CASE d # c
      BY <1>1, <2>1, <2>4, <3>2, CopyStays DEF Busy, Unmoved
    <3> QED BY <3>1, <3>2
  <2>8. Timely'
    <3> SUFFICES ASSUME fault' = {} PROVE (\A x \in rung : InTime(x[1], x[2], now + 1))' /\ \A d \in Clocks : OnTime(d)'
      BY DEF Timely
    <3>1. fault = {} /\ (\A d \in Clocks : OnTime(d)) /\ \A x \in rung : InTime(x[1], x[2], now + 1)
      BY <1>1, <2>1 DEF Timely
    <3>2. (\A x \in rung : InTime(x[1], x[2], now + 1))'
      BY <1>1, <3>1 DEF InTime, Starts
    <3>3. ASSUME NEW d \in Clocks PROVE OnTime(d)'
      <4>1. CASE d # c
        BY <1>1, <2>4, <3>1, <4>1, TimeStays DEF Starts
      <4>2. ASSUME NEW k \in Used, job[c].mark # 0 PROVE RungUpTo(k, Looked(c, k))'
        <5>1. PICK u : u = Looked(c, k)
          OBVIOUS
        <5>2. RungUpTo(k, u)
          BY <3>1, <4>2, <5>1 DEF OnTime
        <5>3. Looked(c, k)' = u
          BY <2>3, <2>4, <5>1 DEF Looked
        <5> QED BY <1>1, <5>2, <5>3 DEF RungUpTo, InTime, Starts
      <4>3. OnTime(c) /\ Busy(c)' /\ now' = now /\ job[c].mark # 0
        BY <1>1, <2>3, <2>4, <3>1 DEF Busy, OnTime
      <4>4. CASE d = c
        BY <1>1, <2>3, <2>4, <4>2, <4>3, <4>4 DEF OnTime, Used
      <4> QED BY <4>1, <4>4
    <3> QED BY <3>2, <3>3
  <2> QED BY <2>5, <2>6, <2>7, <2>8 DEF RmInv
<1> QED BY <1>2, <1>3

\* A save of the event by its owner keeps it: it outdates every copy, and a moved start is a disturbance.
LEMMA EditKeeps ==
  ASSUME RmInv, NEW s \in First .. First + 1, Edit(s)
  PROVE  RmInv'
<1>1. /\ RmTypeOK /\ RungFit /\ Timely /\ (\A d \in Clocks : CopyFits(d)) /\ ev \in EventRows /\ s \in Nat
      /\ ev' = [ev EXCEPT !.start = s] /\ job' = [d \in Clocks |-> [job[d] EXCEPT !.fresh = FALSE]]
      /\ fault' = (IF s # ev.start THEN fault \cup {"moved"} ELSE fault) /\ UNCHANGED <<now, rung>>
  <2>1. First \in Nat
    BY ReminderAssumption
  <2>2. s \in Nat
    BY <2>1
  <2> QED BY <2>2 DEF RmInv, RmTypeOK, Edit
<1>2. ev' \in EventRows /\ ev'.start = s /\ ev'.master = ev.master /\ ev'.sent = ev.sent
  BY <1>1 DEF EventRows
<1>3. ASSUME NEW d \in Clocks
      PROVE  /\ job'[d] \in ReminderJobs
             /\ job'[d].fresh = FALSE /\ job'[d].at = job[d].at /\ job'[d].kind = job[d].kind
             /\ job'[d].mark = job[d].mark
             /\ job'[d].upper = job[d].upper /\ job'[d].ran = job[d].ran /\ job'[d].copy = job[d].copy
  <2>1. job[d] \in ReminderJobs /\ job'[d] = [job[d] EXCEPT !.fresh = FALSE]
    BY <1>1 DEF RmTypeOK
  <2> QED BY <2>1 DEF ReminderJobs
<1>4. RmTypeOK'
  BY <1>1, <1>2, <1>3 DEF RmTypeOK
<1>5. /\ (Unmoved' => Unmoved /\ Starts(ev') = Starts(ev) /\ ev'.start = ev.start)
      /\ (fault' = {} => fault = {} /\ Unmoved')
  BY <1>1, <1>2 DEF Unmoved, Starts
<1>6. RungFit'
  BY <1>1, <1>2, <1>5 DEF RungFit, SentRung, Unmoved
<1>7. \A d \in Clocks : CopyFits(d)'
  BY <1>1, <1>2, <1>3, <1>5, CopyStays DEF Busy
<1>8. Timely'
  BY <1>1, <1>3, <1>5, TimeStays DEF Timely, InTime
<1> QED BY <1>4, <1>6, <1>7, <1>8 DEF RmInv

\* A process that restarts keeps it: that is a disturbance.
LEMMA RestartKeeps ==
  ASSUME RmInv, NEW c \in Clocks, Restart(c)
  PROVE  RmInv'
<1>1. /\ RmTypeOK /\ RungFit /\ (\A d \in Clocks : CopyFits(d)) /\ now \in Nat /\ UNCHANGED <<now, ev, rung>>
      /\ job' = [job EXCEPT ![c] = [Started EXCEPT !.ran = now]] /\ fault' = fault \cup {"restarted"}
  BY DEF RmInv, RmTypeOK, Restart
<1>2. [Started EXCEPT !.ran = now] \in ReminderJobs /\ [Started EXCEPT !.ran = now].at = "idle"
  <2>1. NewEvent(FALSE) \in EventRows
    BY ReminderAssumption DEF NewEvent, EventRows, RmKinds
  <2> QED BY <1>1, <2>1 DEF Started, ReminderJobs, RmKinds
<1>3. RmTypeOK'
  BY <1>1, <1>2 DEF RmTypeOK
<1>4. Unmoved' => Unmoved
  BY <1>1 DEF Unmoved
<1>5. RungFit'
  BY <1>1 DEF RungFit, Unmoved, SentRung, Starts
<1>6. ASSUME NEW d \in Clocks PROVE CopyFits(d)'
  <2>1. CASE d = c
    BY <1>1, <1>2, <2>1 DEF RmTypeOK, CopyFits, Busy
  <2>2. CASE d # c
    <3>1. CopyFits(d) /\ job'[d] = job[d]
      BY <1>1, <2>2 DEF RmTypeOK
    <3> QED BY <1>1, <1>4, <3>1, CopyStays DEF Busy
  <2> QED BY <2>1, <2>2
<1>7. Timely'
  BY <1>1 DEF Timely
<1> QED BY <1>3, <1>5, <1>6, <1>7 DEF RmInv

\* A tick keeps it: every process has run, so the watermark is the new moment's beginning.
LEMMA TickKeeps ==
  ASSUME RmInv, Tick
  PROVE  RmInv'
<1>1. /\ RmTypeOK /\ RungFit /\ Timely /\ (\A d \in Clocks : CopyFits(d)) /\ now \in Nat /\ now > Lookback
      /\ Lookback \in Nat
      /\ now' = now + 1 /\ UNCHANGED <<ev, job, rung, fault>> /\ \A d \in Clocks : ~Busy(d) /\ job[d].ran = now
  BY ReminderAssumption DEF RmInv, RmTypeOK, Tick, Busy
<1>2. RmTypeOK'
  <2>1. now' \in Nat /\ now' > Lookback
    BY <1>1
  <2>2. UNCHANGED <<ev, job, rung, fault>>
    BY <1>1
  <2> QED BY <1>1, <2>1, <2>2 DEF RmTypeOK
<1>3. RungFit' /\ \A d \in Clocks : CopyFits(d)'
  BY <1>1 DEF RungFit, Unmoved, SentRung, Starts, CopyFits, Busy
<1>4. Timely'
  <2> SUFFICES ASSUME fault' = {} PROVE (\A x \in rung : InTime(x[1], x[2], now + 1))' /\ \A d \in Clocks : OnTime(d)'
    BY DEF Timely
  <2>1. fault = {} /\ (\A d \in Clocks : OnTime(d)) /\ \A x \in rung : InTime(x[1], x[2], now + 1)
    BY <1>1 DEF Timely
  <2>2. ASSUME NEW x \in rung PROVE InTime(x[1], x[2], now + 2)
    BY <1>1, <2>1, <2>2, BeforeIs DEF InTime, RmTypeOK
  <2>3. (\A x \in rung : InTime(x[1], x[2], now + 1))'
    BY <1>1, <2>2 DEF InTime, Starts
  <2>4. ASSUME NEW d \in Clocks PROVE OnTime(d)'
    <3>1. OnTime(d) /\ ~Busy(d) /\ job[d].mark # 0
      BY <1>1, <2>1 DEF OnTime
    <3>2. ASSUME NEW k \in Used PROVE RungUpTo(k, Looked(d, k))'
      <4>1. PICK u : u = Looked(d, k)
        OBVIOUS
      <4>2. RungUpTo(k, u)
        BY <3>1, <4>1 DEF OnTime
      <4>3. Looked(d, k)' = u
        BY <1>1, <4>1 DEF Looked
      <4> QED BY <1>1, <4>2, <4>3 DEF RungUpTo, InTime, Starts
    <3> QED BY <1>1, <3>1, <3>2 DEF OnTime, Busy, Used
  <2> QED BY <2>3, <2>4
<1> QED BY <1>2, <1>3, <1>4 DEF RmInv

\* A step that changes nothing keeps it.
LEMMA RmStutters ==
  ASSUME RmInv, UNCHANGED rmVars
  PROVE  RmInv'
<1>1. UNCHANGED <<now, ev, job, rung, fault>>
  BY DEF rmVars
<1>2. RmTypeOK' /\ RungFit' /\ \A c \in Clocks : CopyFits(c)'
  BY <1>1 DEF RmInv, RmTypeOK, RungFit, CopyFits, Busy, Unmoved, SentRung, Starts
<1>3. Timely'
  BY <1>1, TimeStays DEF RmInv, Timely, InTime, Starts
<1> QED BY <1>2, <1>3 DEF RmInv

\* Every step keeps the invariant.
LEMMA RmStep == RmInv /\ [RmNext]_rmVars => RmInv'
<1> SUFFICES ASSUME RmInv, [RmNext]_rmVars PROVE RmInv'
  OBVIOUS
<1>1. ASSUME NEW c \in Clocks, NothingDue(c) PROVE RmInv'
  BY <1>1, PassedOver DEF NothingDue, Busy
<1> QED BY <1>1, RunKeeps, RingKeeps, ConflictKeeps, RestartKeeps, EditKeeps, TickKeeps, RmStutters DEF RmNext

\* The invariant says that nothing rang twice and that what passed has rung.
LEMMA RmInvImplies == RmInv => RungOnce
<1> SUFFICES ASSUME RmInv PROVE RungOnce
  OBVIOUS
<1>1. RmTypeOK /\ RungFit /\ Timely /\ now \in Nat /\ ev \in EventRows /\ now > Lookback /\ Lookback \in Nat
  BY ReminderAssumption DEF RmInv, RmTypeOK
<1>2. "moved" \notin fault => "twice" \notin fault
  BY <1>1 DEF RungFit, Unmoved
<1>3. ASSUME fault = {}, \A c \in Clocks : job[c].at = "idle" /\ job[c].ran = now,
             NEW k \in Used, {s \in Starts(ev) : Passed(k, s)} # {}
      PROVE  <<k, Largest({s \in Starts(ev) : Passed(k, s)})>> \in rung
  <2> DEFINE passed == {s \in Starts(ev) : Passed(k, s)}
             last == Largest(passed)
  <2>1. PICK c \in Clocks : TRUE
    BY ReminderAssumption
  <2>2. ~Busy(c) /\ OnTime(c) /\ job[c].ran = now
    BY <1>1, <1>3 DEF Timely, Busy
  <2>3. job[c].mark = now + 1 /\ job[c].kind = "reminder" /\ job[c].mark # 0
    BY <1>1, <2>2 DEF OnTime
  <2>4. RungUpTo(k, now + 1)
    BY <2>2, <2>3 DEF OnTime, Looked
  <2>5. passed \in SUBSET {ev.start, ev.start + 1} /\ passed # {} /\ ev.start \in Nat
    BY <1>1, <1>3, StartsAre DEF EventRows
  <2>6. \A s \in Nat : s \in passed <=> InTime(k, s, now + 1)
    BY DEF Passed, InTime
  <2> HIDE DEF passed
  <2>7. last \in passed /\ last \in Nat /\ \A y \in passed : y <= last
    BY <2>5, LargestIs
  <2> HIDE DEF last
  <2>8. PICK t \in Nat : last <= t /\ InTime(k, t, now + 1) /\ <<k, t>> \in rung
    BY <2>4, <2>6, <2>7 DEF RungUpTo
  <2>9. t = last
    BY <2>6, <2>7, <2>8
  <2> QED BY <2>8, <2>9 DEF last, passed
<1> QED BY <1>2, <1>3 DEF RungOnce, Used, RmKinds

\* The invariant holds of every reachable state, for every number of processes, every lead and lookback.
THEOREM ReminderInductive == RmSpec => []RmInv
BY RmInitOK, RmStep, PTL DEF RmSpec

\* "Exactly once across replicas": no occurrence of an event that keeps its start rings twice, and one that
\* passed has rung (RungOnce).
THEOREM EachRungOnce == RmSpec => []RungOnce
BY ReminderInductive, RmInvImplies, PTL

--------------------------------------------------------------------------------
(****************************************************************************)
(* A room's bookings: REQUESTs and CANCELs of any number of meetings,       *)
(* decided and filed by any number of workers. A revision is in the mailbox *)
(* or in one worker's hands, never in both or twice (OneEach), so nobody    *)
(* but its worker files it (NotYetFiled, AsDecided). A yes that is still to *)
(* be filed is free of every row on the calendar, unless the calendar       *)
(* changed since (FreeWhenRead): so two rows that were said yes to lie      *)
(* apart (Apart). A row in the trash stays there; it got there by a refusal *)
(* of its own revision or by a newer cancellation (TrashedRightly), but for *)
(* a deletion that met another revision's row (raced).                      *)
(****************************************************************************)

\* The hours of a meeting, none for a cancellation; rows, mails and what a worker is doing.
BookingHours == Spans \cup {{}}
RoomRows == [st : {"none", "live", "trash"}, seq : Nat, hours : BookingHours, yes : BOOLEAN]
BookingMails == [id : Bookers, seq : Nat, hours : BookingHours]
BookingRuns == [at : {"idle", "decided", "filed"}, id : Bookers \cup {"none"}, seq : Nat, hours : BookingHours, had :
    BOOLEAN,
         yes : BOOLEAN, moved : BOOLEAN]
\* A worker that has a message in hand.
Deciding(s) == scan[s].at # "idle"
BkTypeOK ==
    /\ asked \in [Bookers -> Nat] /\ requests \subseteq BookingMails /\ room \in [Bookers -> RoomRows]
    /\ scan \in [Scanners -> BookingRuns] /\ raced \in BOOLEAN
    /\ \A s \in Scanners : Deciding(s) => scan[s].id \in Bookers
\* What is under way or filed was sent.
SentBefore ==
    /\ \A q \in requests : 0 < q.seq /\ q.seq <= asked[q.id]
    /\ \A s \in Scanners : Deciding(s) => 0 < scan[s].seq /\ scan[s].seq <= asked[scan[s].id]
    /\ \A b \in Bookers : room[b].seq <= asked[b]
\* Of the same meeting and revision.
SameRevision(x, y) == x.id = y.id /\ x.seq = y.seq
\* A revision is in one place.
OneEach ==
    /\ \A q, r \in requests : SameRevision(q, r) => q = r
    /\ \A q \in requests, s \in Scanners : Deciding(s) => ~SameRevision(q, scan[s])
    /\ \A s, t \in Scanners : s # t /\ Deciding(s) /\ Deciding(t) => ~SameRevision(scan[s], scan[t])
\* A revision that is not filed yet is not the row's.
NotYetFiled ==
    /\ \A b \in Bookers : room[b].st = "none" => ~room[b].yes /\ room[b].seq = 0
    /\ \A q \in requests : q.seq # room[q.id].seq
    /\ \A s \in Scanners : scan[s].at = "decided" => scan[s].seq # room[scan[s].id].seq
\* A filed revision that is still the row's says what its worker decided.
AsDecided == \A s \in Scanners : scan[s].at = "filed" /\ room[scan[s].id].seq = scan[s].seq
    => room[scan[s].id].yes = scan[s].yes
\* A yes to be filed meets nothing on the calendar, unless the calendar changed.
FreeWhenRead == \A s \in Scanners : scan[s].at = "decided" /\ scan[s].yes /\ ~scan[s].moved =>
    \A b \in Bookers \ {scan[s].id} : Live(b) => scan[s].hours \cap room[b].hours = {}
\* Rows that were said yes to lie apart.
Apart == ~raced => \A b, c \in Bookers :
    b # c /\ Live(b) /\ Live(c) /\ room[b].yes /\ room[c].yes => room[b].hours \cap room[c].hours = {}
\* A row in the trash was refused, or a newer revision was sent.
TrashedRightly == ~raced => \A b \in Bookers : room[b].st = "trash" => ~room[b].yes \/ asked[b] > room[b].seq
BkInv == BkTypeOK /\ SentBefore /\ OneEach /\ NotYetFiled /\ AsDecided /\ FreeWhenRead /\ Apart /\ TrashedRightly

\* A worker at rest and an empty row have their types.
LEMMA UnusedType == Unused \in BookingRuns /\ Unused.at = "idle" /\ NoRow \in RoomRows
  BY DEF Unused, BookingRuns, NoRow, RoomRows, BookingHours

\* What the types say of the parts.
LEMMA BookingTypes == ASSUME BkTypeOK PROVE
    /\ \A s \in Scanners :
        scan[s] \in BookingRuns /\ scan[s].seq \in Nat /\ scan[s].hours \in BookingHours /\ scan[s].yes \in BOOLEAN
    /\ \A q \in requests : q \in BookingMails /\ q.id \in Bookers /\ q.seq \in Nat /\ q.hours \in BookingHours
    /\ \A b \in Bookers : room[b] \in RoomRows /\ room[b].seq \in Nat /\ asked[b] \in Nat
  BY DEF BkTypeOK, BookingRuns, BookingMails, RoomRows

\* A row that is deleted keeps its revision, hours and answer (deleteReceivedEventCopy).
LEMMA RowTrashed == ASSUME BkTypeOK, NEW b \in Bookers, room' = [room EXCEPT ![b].st = "trash"] PROVE
    /\ room' \in [Bookers -> RoomRows] /\ \A c \in Bookers \ {b} : room'[c] = room[c]
    /\ room'[b].st = "trash" /\ room'[b].seq = room[b].seq /\ room'[b].hours = room[b].hours
    /\ room'[b].yes = room[b].yes
  <1> DEFINE row == [room[b] EXCEPT !.st = "trash"]
  <1>1. room[b] \in RoomRows
    BY DEF BkTypeOK
  <1>2. /\ row \in RoomRows /\ row.st = "trash" /\ row.seq = room[b].seq /\ row.hours = room[b].hours
        /\ row.yes = room[b].yes
    BY <1>1 DEF RoomRows
  <1>3. room' = [room EXCEPT ![b] = row]
    OBVIOUS
  <1> HIDE DEF row
  <1>4. QED BY <1>2, <1>3 DEF BkTypeOK
\* A worker that another one leaves alone, but for its mark.
SameBooking(x) == /\ scan'[x].at = scan[x].at /\ scan'[x].id = scan[x].id /\ scan'[x].seq = scan[x].seq
              /\ scan'[x].hours = scan[x].hours /\ scan'[x].yes = scan[x].yes /\ scan'[x].had = scan[x].had

\* A step of a worker leaves the others alone, and marks them if it changed the calendar.
LEMMA BookingMoves == ASSUME BkTypeOK, NEW s \in Scanners, NEW r \in BookingRuns,
        scan' = [Changes(s) EXCEPT ![s] = r] \/ scan' = [scan EXCEPT ![s] = r]
    PROVE  /\ scan' \in [Scanners -> BookingRuns] /\ scan'[s] = r
           /\ \A x \in Scanners \ {s} : SameBooking(x) /\ (scan[x].moved => scan'[x].moved)
           /\ scan' = [Changes(s) EXCEPT ![s] = r] => \A x \in Scanners \ {s} : scan'[x].moved
  <1>1. \A x \in Scanners : scan[x] \in BookingRuns
    BY DEF BkTypeOK
  <1>2. \A x \in Scanners : LET y == [scan[x] EXCEPT !.moved = TRUE] IN
            /\ y \in BookingRuns /\ y.moved /\ y.at = scan[x].at /\ y.id = scan[x].id /\ y.seq = scan[x].seq
            /\ y.hours = scan[x].hours /\ y.yes = scan[x].yes /\ y.had = scan[x].had
    BY <1>1 DEF BookingRuns
  <1>3. /\ Changes(s) \in [Scanners -> BookingRuns]
        /\ \A x \in Scanners \ {s} : Changes(s)[x] = [scan[x] EXCEPT !.moved = TRUE]
    BY <1>1, <1>2 DEF Changes
  <1>4. CASE scan' = [scan EXCEPT ![s] = r]
    <2>1. /\ scan' \in [Scanners -> BookingRuns] /\ scan'[s] = r
          /\ \A x \in Scanners \ {s} : SameBooking(x) /\ (scan[x].moved => scan'[x].moved)
      BY <1>4 DEF SameBooking, BkTypeOK
    <2>2. ASSUME scan' = [Changes(s) EXCEPT ![s] = r], NEW x \in Scanners \ {s} PROVE scan'[x].moved
      BY <2>2, <1>2, <1>3
    <2>3. QED BY <2>1, <2>2
  <1>5. CASE scan' = [Changes(s) EXCEPT ![s] = r]
    <2>1. scan' \in [Scanners -> BookingRuns] /\ scan'[s] = r /\ \A x \in Scanners \ {s} :
              scan'[x] = [scan[x] EXCEPT !.moved = TRUE]
      BY <1>3, <1>5
    <2>2. ASSUME NEW x \in Scanners \ {s} PROVE SameBooking(x) /\ scan'[x].moved
      BY <1>2, <2>1 DEF SameBooking
    <2>3. QED BY <2>1, <2>2
  <1>6. QED BY <1>4, <1>5

\* A new revision keeps the invariant: it has never been sent.
LEMMA AskKeeps ==
    ASSUME BkInv, NEW b \in Bookers, NEW H \in BookingHours, Ask(b, H)
    PROVE  BkInv'
  <1> DEFINE q == [id |-> b, seq |-> asked[b] + 1, hours |-> H]
  <1>t. BkTypeOK /\ asked[b] \in Nat
    BY DEF BkInv, BkTypeOK
  <1>q. /\ q \in BookingMails /\ q.id = b /\ q.seq = asked[b] + 1 /\ q.seq \in Nat
        /\ requests' = requests \cup {q}
    BY <1>t DEF Ask, BookingMails
  <1>u. UNCHANGED <<room, scan, raced>>
    BY DEF Ask
  <1> HIDE DEF q
  <1>a. asked' \in [Bookers -> Nat] /\ asked'[b] = q.seq /\ \A c \in Bookers \ {b} : asked'[c] = asked[c]
    BY <1>t, <1>q DEF Ask, BkTypeOK
  <1>g. /\ 0 < q.seq /\ asked[b] < q.seq
        /\ \A c \in Bookers : asked[c] \in Nat /\ asked'[c] \in Nat /\ asked[c] <= asked'[c]
    BY <1>t, <1>a, <1>q, BookingTypes
  <1>n. /\ \A r \in requests : ~SameRevision(q, r) /\ ~SameRevision(r, q)
        /\ \A s \in Scanners : Deciding(s) => ~SameRevision(q, scan[s])
        /\ room[b].seq # q.seq
    BY <1>t, <1>q, BookingTypes DEF BkInv, SentBefore, SameRevision
  <1>1. BkTypeOK'
    BY <1>t, <1>q, <1>u, <1>a, <1>g, <1>n DEF BkInv, BkTypeOK, Deciding
  <1>2. SentBefore'
    <2>1. \A m \in requests : 0 < m.seq /\ m.seq <= asked'[m.id]
      BY <1>t, <1>g, BookingTypes DEF BkInv, SentBefore
    <2>2. \A s \in Scanners : Deciding(s) => 0 < scan[s].seq /\ scan[s].seq <= asked'[scan[s].id]
      BY <1>t, <1>g, BookingTypes DEF BkInv, BkTypeOK, SentBefore
    <2>3. \A c \in Bookers : room[c].seq <= asked'[c]
      BY <1>t, <1>g, BookingTypes DEF BkInv, SentBefore
    <2>4. QED BY <2>1, <2>2, <2>3, <1>q, <1>u, <1>a, <1>g DEF SentBefore, Deciding
  <1>3. OneEach'
    BY <1>t, <1>q, <1>u, <1>a, <1>g, <1>n DEF BkInv, OneEach, Deciding, SameRevision
  <1>4. NotYetFiled'
    BY <1>t, <1>q, <1>u, <1>a, <1>g, <1>n DEF BkInv, NotYetFiled
  <1>5. AsDecided'
    BY <1>t, <1>q, <1>u, <1>a, <1>g, <1>n DEF BkInv, AsDecided
  <1>6. FreeWhenRead'
    BY <1>t, <1>q, <1>u, <1>a, <1>g, <1>n DEF BkInv, FreeWhenRead, Live
  <1>7. Apart'
    BY <1>t, <1>q, <1>u, <1>a, <1>g, <1>n DEF BkInv, Apart, Live
  <1>8. TrashedRightly'
    BY <1>t, <1>u, <1>g, BookingTypes DEF BkInv, TrashedRightly
  <1>9. QED BY <1>1, <1>2, <1>3, <1>4, <1>5, <1>6, <1>7, <1>8 DEF BkInv

\* The decision keeps it: a yes meets no other row (decideResourceBooking).
LEMMA LookKeeps ==
    ASSUME BkInv, NEW s \in Scanners, NEW m \in requests, Look(s, m)
    PROVE  BkInv'
  <1>t. BkTypeOK /\ m \in BookingMails /\ m.id \in Bookers /\ m.seq \in Nat /\ m.hours \in BookingHours
    BY BookingTypes DEF BkInv
  <1>u. scan[s].at = "idle" /\ requests' = requests \ {m} /\ UNCHANGED <<asked, room, raced>>
    BY DEF Look
  <1>c. CASE scan' = scan
    <2>1. QED BY <1>c, <1>u DEF BkInv, BkTypeOK, SentBefore, OneEach, NotYetFiled, AsDecided, FreeWhenRead, Apart,
       TrashedRightly, Deciding, Live
  <1>d. CASE scan' # scan
    <2> DEFINE r == [at |-> "decided", id |-> m.id, seq |-> m.seq, hours |-> m.hours, had |-> Live(m.id),
                     yes |-> m.hours # {} /\ DecideBooking(m), moved |-> FALSE]
    <2>1. scan' = [scan EXCEPT ![s] = r]
      BY <1>d DEF Look
    <2>2. /\ r \in BookingRuns /\ r.at = "decided" /\ r.id = m.id /\ r.seq = m.seq /\ r.hours = m.hours
          /\ r.yes => ~Conflicts(m)
      BY <1>t DEF BookingRuns, DecideBooking, Live
    <2> HIDE DEF r
    <2>3. /\ scan' \in [Scanners -> BookingRuns] /\ scan'[s] = r /\ \A x \in Scanners \ {s} : scan'[x] = scan[x]
      BY <1>t, <2>1, <2>2 DEF BkTypeOK
    <2>4. BkTypeOK'
      BY <1>t, <1>u, <2>2, <2>3 DEF BkInv, BkTypeOK, Deciding
    <2>5. SentBefore'
      BY <1>t, <1>u, <2>2, <2>3 DEF BkInv, SentBefore, Deciding
    <2>6. OneEach'
      BY <1>t, <1>u, <2>2, <2>3 DEF BkInv, OneEach, Deciding, SameRevision
    <2>7. NotYetFiled'
      BY <1>t, <1>u, <2>2, <2>3 DEF BkInv, NotYetFiled
    <2>8. AsDecided'
      BY <1>t, <1>u, <2>2, <2>3 DEF BkInv, AsDecided
    <2>9. FreeWhenRead'
      BY <1>t, <1>u, <2>2, <2>3 DEF BkInv, FreeWhenRead, Live, Conflicts
    <2>10. Apart'
      BY <1>t, <1>u, <2>2, <2>3 DEF BkInv, Apart, Live
    <2>11. TrashedRightly'
      BY <1>t, <1>u, <2>2, <2>3 DEF BkInv, TrashedRightly
    <2>12. QED BY <2>4, <2>5, <2>6, <2>7, <2>8, <2>9, <2>10, <2>11 DEF BkInv
  <1>9. QED BY <1>c, <1>d

\* Filing keeps it: a yes to an unchanged calendar lies apart from the other rows.
LEMMA FileBookingKeeps ==
    ASSUME BkInv, NEW s \in Scanners, FileBooking(s)
    PROVE  BkInv'
  <1> DEFINE m == scan[s]
             files == IF m.had THEN room[m.id].st = "live" /\ m.seq > room[m.id].seq ELSE room[m.id].st = "none"
             row == [st |-> "live", seq |-> m.seq, hours |-> m.hours, yes |-> m.yes]
             r == IF files THEN [m EXCEPT !.at = "filed"] ELSE Unused
  <1>t. BkTypeOK /\ m \in BookingRuns /\ m.at = "decided" /\ m.id \in Bookers /\ m.seq \in Nat
    BY DEF BkInv, BkTypeOK, FileBooking, Deciding, BookingRuns
  <1>u. UNCHANGED <<asked, requests>>
    BY DEF FileBooking
  <1>r. /\ r \in BookingRuns /\ r.at \in {"idle", "filed"} /\ (r.at = "filed" <=> files)
        /\ files => r.id = m.id /\ r.seq = m.seq /\ r.hours = m.hours /\ r.yes = m.yes
    BY <1>t, UnusedType DEF BookingRuns
  <1>w. row \in RoomRows /\ row.st = "live" /\ row.seq = m.seq /\ row.hours = m.hours /\ row.yes = m.yes
    BY <1>t DEF RoomRows, BookingRuns
  <1>c. /\ files => room' = [room EXCEPT ![m.id] = row] /\ scan' = [Changes(s) EXCEPT ![s] = r] /\ raced' = (raced \/ m.moved)
        /\ ~files => room' = room /\ scan' = [scan EXCEPT ![s] = r] /\ raced' = raced
    <2>1. CASE files
      <3>1. /\ room' = [room EXCEPT ![m.id] = row] /\ scan' = [Changes(s) EXCEPT ![s].at = "filed"]
            /\ raced' = (raced \/ m.moved)
        BY <2>1 DEF FileBooking
      <3>2. Changes(s)[s] = m
        BY DEF Changes
      <3>3. QED BY <2>1, <3>1, <3>2
    <2>2. CASE ~files
      BY <2>2 DEF FileBooking
    <2>3. QED BY <2>1, <2>2
  <1> HIDE DEF files, row, r
  <1>s. /\ scan' \in [Scanners -> BookingRuns] /\ scan'[s] = r
        /\ \A x \in Scanners \ {s} : SameBooking(x) /\ (scan[x].moved => scan'[x].moved)
        /\ files => \A x \in Scanners \ {s} : scan'[x].moved
    BY <1>t, <1>r, <1>c, BookingMoves
  <1>m. /\ files => /\ room' \in [Bookers -> RoomRows] /\ room'[m.id] = row
                    /\ \A b \in Bookers \ {m.id} : room'[b] = room[b]
        /\ ~files => room' = room /\ raced' = raced
    BY <1>t, <1>w, <1>c DEF BkTypeOK
  <1>o. /\ \A q \in requests : ~(q.id = m.id /\ q.seq = m.seq)
        /\ \A x \in Scanners \ {s} : Deciding(x) => ~(scan[x].id = m.id /\ scan[x].seq = m.seq)
        /\ 0 < m.seq /\ m.seq <= asked[m.id]
    BY <1>t DEF BkInv, OneEach, SameRevision, Deciding, SentBefore
  <1>v. files /\ m.yes /\ ~m.moved => \A b \in Bookers \ {m.id} : Live(b) => m.hours \cap room[b].hours = {}
    BY <1>t DEF BkInv, FreeWhenRead
  <1>x. raced' \in BOOLEAN /\ (raced => raced') /\ (files /\ m.moved => raced')
    BY <1>t, <1>c DEF BkTypeOK, BookingRuns
  <1> HIDE DEF m
  <1>1. BkTypeOK'
    BY <1>t, <1>u, <1>r, <1>w, <1>s, <1>m, <1>o, <1>x DEF BkInv, BkTypeOK, Deciding, SameBooking
  <1>2. SentBefore'
    BY <1>t, <1>u, <1>r, <1>w, <1>s, <1>m, <1>o, <1>x DEF BkInv, SentBefore, Deciding, SameBooking
  <1>3. OneEach'
    BY <1>t, <1>u, <1>r, <1>w, <1>s, <1>m, <1>o, <1>x DEF BkInv, OneEach, Deciding, SameRevision, SameBooking
  <1>4. NotYetFiled'
    <2>1. \A b \in Bookers : room'[b].st = "none" => ~room'[b].yes /\ room'[b].seq = 0
      BY <1>t, <1>w, <1>m, <1>o DEF BkInv, NotYetFiled
    <2>2. ASSUME NEW q \in requests PROVE q.seq # room'[q.id].seq
      BY <1>t, <1>w, <1>m, <1>o, BookingTypes DEF BkInv, NotYetFiled
    <2>3. ASSUME NEW x \in Scanners, scan'[x].at = "decided" PROVE scan'[x].seq # room'[scan'[x].id].seq
      <3>1. x # s
        BY <1>r, <1>w, <1>s, <1>m, <2>3
      <3>2. scan[x].id \in Bookers /\ scan'[x].id = scan[x].id /\ scan'[x].seq = scan[x].seq /\ scan[x].at = "decided"
        BY <1>t, <2>3, <3>1, <1>s DEF BkTypeOK, Deciding, SameBooking
      <3>3. QED BY <3>1, <3>2, <1>t, <1>w, <1>m, <1>o DEF BkInv, NotYetFiled, Deciding
    <2>4. QED BY <2>1, <2>2, <2>3, <1>u DEF NotYetFiled
  <1>5. AsDecided'
    <2> SUFFICES ASSUME NEW x \in Scanners, scan'[x].at = "filed", room'[scan'[x].id].seq = scan'[x].seq
                 PROVE  room'[scan'[x].id].yes = scan'[x].yes
      BY DEF AsDecided
    <2>1. CASE x = s
      BY <2>1, <1>r, <1>w, <1>s, <1>m
    <2>2. CASE x # s
      <3>1. /\ scan[x].id \in Bookers /\ scan'[x].id = scan[x].id /\ scan'[x].seq = scan[x].seq
            /\ scan'[x].yes = scan[x].yes /\ scan[x].at = "filed"
        BY <1>t, <2>2, <1>s DEF BkTypeOK, Deciding, SameBooking
      <3>2. QED BY <3>1, <2>2, <1>t, <1>w, <1>m, <1>o DEF BkInv, AsDecided, Deciding
    <2>3. QED BY <2>1, <2>2
  <1>6. FreeWhenRead'
    BY <1>t, <1>u, <1>r, <1>w, <1>s, <1>m, <1>o, <1>x DEF BkInv, FreeWhenRead, Live, SameBooking
  <1>7. Apart'
    BY <1>t, <1>w, <1>m, <1>v, <1>x DEF BkInv, Apart, Live
  <1>8. TrashedRightly'
    BY <1>t, <1>u, <1>w, <1>m, <1>x DEF BkInv, TrashedRightly
  <1>9. QED BY <1>1, <1>2, <1>3, <1>4, <1>5, <1>6, <1>7, <1>8 DEF BkInv

\* The answer keeps it: a refused row goes to the trash (finalizeResourceDecision).
LEMMA AnswerBookingKeeps ==
    ASSUME BkInv, NEW s \in Scanners, AnswerBooking(s)
    PROVE  BkInv'
  <1> DEFINE m == scan[s]
  <1>t. BkTypeOK /\ m \in BookingRuns /\ m.at = "filed" /\ m.id \in Bookers /\ m.seq \in Nat
    BY DEF BkInv, BkTypeOK, AnswerBooking, Deciding, BookingRuns
  <1>u. UNCHANGED <<asked, requests>>
    BY DEF AnswerBooking
  <1>c. /\ m.yes => room' = room /\ scan' = [scan EXCEPT ![s] = Unused]
        /\ ~m.yes => room' = [room EXCEPT ![m.id].st = "trash"] /\ scan' = [Changes(s) EXCEPT ![s] = Unused]
        /\ raced' = (raced \/ (~m.yes /\ room[m.id].seq # m.seq))
    BY DEF AnswerBooking
  <1>s. /\ scan' \in [Scanners -> BookingRuns] /\ scan'[s] = Unused
        /\ \A x \in Scanners \ {s} : SameBooking(x) /\ (scan[x].moved => scan'[x].moved)
        /\ ~m.yes => \A x \in Scanners \ {s} : scan'[x].moved
    BY <1>t, <1>c, UnusedType, BookingMoves
  <1>m. /\ room' \in [Bookers -> RoomRows] /\ \A c \in Bookers \ {m.id} : room'[c] = room[c]
        /\ m.yes => room' = room
        /\ ~m.yes => room'[m.id].st = "trash"
        /\ room'[m.id].seq = room[m.id].seq /\ room'[m.id].hours = room[m.id].hours /\ room'[m.id].yes = room[m.id].yes
    <2>1. CASE m.yes
      BY <2>1, <1>c, <1>t DEF BkTypeOK
    <2>2. CASE ~m.yes
      BY <2>2, <1>c, <1>t, RowTrashed
    <2>3. QED BY <2>1, <2>2
  <1>n. ~m.yes /\ room[m.id].seq = m.seq => ~room[m.id].yes
    BY <1>t, BookingTypes DEF BkInv, AsDecided
  <1>x. raced' \in BOOLEAN /\ (raced => raced') /\ (~m.yes /\ room[m.id].seq # m.seq => raced')
    BY <1>t, <1>c DEF BkTypeOK
  <1> HIDE DEF m
  <1>1. BkTypeOK'
    BY <1>t, <1>u, <1>s, <1>m, <1>x, UnusedType DEF BkInv, BkTypeOK, Deciding, SameBooking
  <1>2. SentBefore'
    BY <1>t, <1>u, <1>s, <1>m, <1>x, UnusedType DEF BkInv, SentBefore, Deciding, SameBooking
  <1>3. OneEach'
    BY <1>t, <1>u, <1>s, <1>m, <1>x, UnusedType DEF BkInv, OneEach, Deciding, SameRevision, SameBooking
  <1>4. NotYetFiled'
    <2>1. \A b \in Bookers : room'[b].st = "none" => ~room'[b].yes /\ room'[b].seq = 0
      BY <1>t, <1>m DEF BkInv, NotYetFiled
    <2>2. ASSUME NEW q \in requests PROVE q.seq # room'[q.id].seq
      BY <1>t, <1>m, BookingTypes DEF BkInv, NotYetFiled
    <2>3. ASSUME NEW x \in Scanners, scan'[x].at = "decided" PROVE scan'[x].seq # room'[scan'[x].id].seq
      <3>1. x # s
        BY <1>s, UnusedType, <2>3
      <3>2. scan[x].id \in Bookers /\ scan'[x].id = scan[x].id /\ scan'[x].seq = scan[x].seq /\ scan[x].at = "decided"
        BY <1>t, <2>3, <3>1, <1>s DEF BkTypeOK, Deciding, SameBooking
      <3>3. QED BY <3>1, <3>2, <1>t, <1>m DEF BkInv, NotYetFiled, Deciding
    <2>4. QED BY <2>1, <2>2, <2>3, <1>u DEF NotYetFiled
  <1>5. AsDecided'
    <2> SUFFICES ASSUME NEW x \in Scanners, scan'[x].at = "filed", room'[scan'[x].id].seq = scan'[x].seq
                 PROVE  room'[scan'[x].id].yes = scan'[x].yes
      BY DEF AsDecided
    <2>1. CASE x = s
      BY <2>1, <1>s, UnusedType
    <2>2. CASE x # s
      <3>1. /\ scan[x].id \in Bookers /\ scan'[x].id = scan[x].id /\ scan'[x].seq = scan[x].seq
            /\ scan'[x].yes = scan[x].yes /\ scan[x].at = "filed"
        BY <1>t, <2>2, <1>s DEF BkTypeOK, Deciding, SameBooking
      <3>2. QED BY <3>1, <2>2, <1>t, <1>m DEF BkInv, AsDecided, Deciding
    <2>3. QED BY <2>1, <2>2
  <1>6. FreeWhenRead'
    BY <1>t, <1>u, <1>s, <1>m, <1>x, UnusedType DEF BkInv, FreeWhenRead, Live, SameBooking
  <1>7. Apart'
    BY <1>t, <1>m, <1>x DEF BkInv, Apart, Live
  <1>8. TrashedRightly'
    BY <1>t, <1>u, <1>m, <1>n, <1>x DEF BkInv, TrashedRightly
  <1>9. QED BY <1>1, <1>2, <1>3, <1>4, <1>5, <1>6, <1>7, <1>8 DEF BkInv

\* A cancellation keeps it: the row it deletes is older, or that is known.
LEMMA CancelBookingKeeps ==
    ASSUME BkInv, NEW s \in Scanners, CancelBooking(s)
    PROVE  BkInv'
  <1> DEFINE m == scan[s]
  <1>t. BkTypeOK /\ m \in BookingRuns /\ m.at = "decided" /\ m.id \in Bookers /\ m.seq \in Nat
    BY DEF BkInv, BkTypeOK, CancelBooking, Deciding, BookingRuns
  <1>u. UNCHANGED <<asked, requests>>
    BY DEF CancelBooking
  <1>c. /\ ~m.had => room' = room /\ scan' = [scan EXCEPT ![s] = Unused]
        /\ m.had => room' = [room EXCEPT ![m.id].st = "trash"] /\ scan' = [Changes(s) EXCEPT ![s] = Unused]
        /\ raced' = (raced \/ (m.had /\ room[m.id].seq > m.seq))
    BY DEF CancelBooking
  <1>s. /\ scan' \in [Scanners -> BookingRuns] /\ scan'[s] = Unused
        /\ \A x \in Scanners \ {s} : SameBooking(x) /\ (scan[x].moved => scan'[x].moved)
        /\ m.had => \A x \in Scanners \ {s} : scan'[x].moved
    BY <1>t, <1>c, UnusedType, BookingMoves
  <1>m. /\ room' \in [Bookers -> RoomRows] /\ \A c \in Bookers \ {m.id} : room'[c] = room[c]
        /\ ~m.had => room' = room
        /\ m.had => room'[m.id].st = "trash"
        /\ room'[m.id].seq = room[m.id].seq /\ room'[m.id].hours = room[m.id].hours /\ room'[m.id].yes = room[m.id].yes
    <2>1. CASE ~m.had
      BY <2>1, <1>c, <1>t DEF BkTypeOK
    <2>2. CASE m.had
      BY <2>2, <1>c, <1>t, RowTrashed
    <2>3. QED BY <2>1, <2>2
  <1>n. ~(room[m.id].seq > m.seq) => asked[m.id] > room[m.id].seq
    BY <1>t, BookingTypes DEF BkInv, SentBefore, NotYetFiled, Deciding
  <1>x. raced' \in BOOLEAN /\ (raced => raced') /\ (m.had /\ room[m.id].seq > m.seq => raced')
    BY <1>t, <1>c DEF BkTypeOK
  <1> HIDE DEF m
  <1>1. BkTypeOK'
    BY <1>t, <1>u, <1>s, <1>m, <1>x, UnusedType DEF BkInv, BkTypeOK, Deciding, SameBooking
  <1>2. SentBefore'
    BY <1>t, <1>u, <1>s, <1>m, <1>x, UnusedType DEF BkInv, SentBefore, Deciding, SameBooking
  <1>3. OneEach'
    BY <1>t, <1>u, <1>s, <1>m, <1>x, UnusedType DEF BkInv, OneEach, Deciding, SameRevision, SameBooking
  <1>4. NotYetFiled'
    <2>1. \A b \in Bookers : room'[b].st = "none" => ~room'[b].yes /\ room'[b].seq = 0
      BY <1>t, <1>m DEF BkInv, NotYetFiled
    <2>2. ASSUME NEW q \in requests PROVE q.seq # room'[q.id].seq
      BY <1>t, <1>m, BookingTypes DEF BkInv, NotYetFiled
    <2>3. ASSUME NEW x \in Scanners, scan'[x].at = "decided" PROVE scan'[x].seq # room'[scan'[x].id].seq
      <3>1. x # s
        BY <1>s, UnusedType, <2>3
      <3>2. scan[x].id \in Bookers /\ scan'[x].id = scan[x].id /\ scan'[x].seq = scan[x].seq /\ scan[x].at = "decided"
        BY <1>t, <2>3, <3>1, <1>s DEF BkTypeOK, Deciding, SameBooking
      <3>3. QED BY <3>1, <3>2, <1>t, <1>m DEF BkInv, NotYetFiled, Deciding
    <2>4. QED BY <2>1, <2>2, <2>3, <1>u DEF NotYetFiled
  <1>5. AsDecided'
    <2> SUFFICES ASSUME NEW x \in Scanners, scan'[x].at = "filed", room'[scan'[x].id].seq = scan'[x].seq
                 PROVE  room'[scan'[x].id].yes = scan'[x].yes
      BY DEF AsDecided
    <2>1. CASE x = s
      BY <2>1, <1>s, UnusedType
    <2>2. CASE x # s
      <3>1. /\ scan[x].id \in Bookers /\ scan'[x].id = scan[x].id /\ scan'[x].seq = scan[x].seq
            /\ scan'[x].yes = scan[x].yes /\ scan[x].at = "filed"
        BY <1>t, <2>2, <1>s DEF BkTypeOK, Deciding, SameBooking
      <3>2. QED BY <3>1, <2>2, <1>t, <1>m DEF BkInv, AsDecided, Deciding
    <2>3. QED BY <2>1, <2>2
  <1>6. FreeWhenRead'
    BY <1>t, <1>u, <1>s, <1>m, <1>x, UnusedType DEF BkInv, FreeWhenRead, Live, SameBooking
  <1>7. Apart'
    BY <1>t, <1>m, <1>x DEF BkInv, Apart, Live
  <1>8. TrashedRightly'
    BY <1>t, <1>u, <1>m, <1>n, <1>x DEF BkInv, TrashedRightly
  <1>9. QED BY <1>1, <1>2, <1>3, <1>4, <1>5, <1>6, <1>7, <1>8 DEF BkInv

\* The invariant is inductive, for any workers, meetings, hours and number of revisions, and implies RoomBookedOnce.
THEOREM BookingInductive ==
    /\ BkInit => BkInv
    /\ BkInv /\ [BkNext]_bkVars => BkInv'
    /\ BkInv => RoomBookedOnce
  <1>1. ASSUME BkInit PROVE BkInv
    <2>1. /\ \A s \in Scanners : scan[s] = Unused
          /\ \A b \in Bookers : room[b] = NoRow /\ asked[b] = 0
      BY <1>1 DEF BkInit
    <2>2. NoRow.st = "none" /\ NoRow.seq = 0 /\ NoRow.yes = FALSE
      BY DEF NoRow
    <2>3. BkTypeOK
      BY <1>1, <2>1, UnusedType DEF BkInit, BkTypeOK, Deciding
    <2>4. SentBefore /\ OneEach /\ NotYetFiled /\ AsDecided
      BY <1>1, <2>1, <2>2, UnusedType DEF BkInit, SentBefore, OneEach, NotYetFiled, AsDecided, Deciding
    <2>5. FreeWhenRead /\ Apart /\ TrashedRightly
      BY <2>1, <2>2, UnusedType DEF FreeWhenRead, Apart, TrashedRightly, Live
    <2>6. QED BY <2>3, <2>4, <2>5 DEF BkInv
  <1>2. ASSUME BkInv, [BkNext]_bkVars PROVE BkInv'
    <2>1. CASE UNCHANGED bkVars
      BY <1>2, <2>1 DEF bkVars, BkInv, BkTypeOK, SentBefore, OneEach, NotYetFiled, AsDecided, FreeWhenRead, Apart,
         TrashedRightly, Deciding, Live
    <2>2. CASE \E b \in Bookers, H \in Spans \cup {{}} : Ask(b, H)
      BY <1>2, <2>2, AskKeeps DEF BookingHours
    <2>3. CASE \E s \in Scanners : FileBooking(s) \/ AnswerBooking(s) \/ CancelBooking(s) \/ \E m \in requests : Look(s, m)
      BY <1>2, <2>3, FileBookingKeeps, AnswerBookingKeeps, CancelBookingKeeps, LookKeeps
    <2>4. QED BY <1>2, <2>1, <2>2, <2>3 DEF BkNext
  <1>3. ASSUME BkInv PROVE RoomBookedOnce
    <2>1. ASSUME ~raced, NEW b \in Bookers, room[b].seq = LastAnswer(b).seq, room[b].yes
          PROVE  Live(b) \/ asked[b] > LastAnswer(b).seq
      <3>1. room[b].st \in {"none", "live", "trash"}
        BY <1>3 DEF BkInv, BkTypeOK, RoomRows
      <3>2. room[b].st # "none"
        BY <1>3, <2>1 DEF BkInv, NotYetFiled
      <3>3. room[b].st = "trash" => asked[b] > room[b].seq
        BY <1>3, <2>1 DEF BkInv, TrashedRightly
      <3>4. QED BY <2>1, <3>1, <3>2, <3>3 DEF Live
    <2>2. QED BY <1>3, <2>1 DEF BkInv, Apart, RoomBookedOnce
  <1>4. QED BY <1>1, <1>2, <1>3

\* No hour of the room belongs to two meetings it said yes to, and who was told yes last has it, unless a decision or
\* a deletion crossed a change of the calendar (RoomBookedOnce).
THEOREM RoomNotShared == BkSpec => []RoomBookedOnce
  <1>1. QED BY BookingInductive, PTL DEF BkSpec

--------------------------------------------------------------------------------
(****************************************************************************)
(* One message, its receipts, its seal, its recall, and the sender lists. A *)
(* request that read the row and finds its version unchanged finds what it  *)
(* read (GotFits, SentFits, ListFits): a write counts the version up, so    *)
(* what an older read saw is refused. A receipt of a kind may be sent by    *)
(* one that claimed it, when the row says it was sent, or by one that       *)
(* approved it, when the row says it is pending or was declined meanwhile;  *)
(* unless approvals crossed there is only one of them, and it counts for    *)
(* what went out (OnceFor). Of the recall notice the same with the sender's *)
(* copy (NoticeOnce). A recall that is about to delete saw the message      *)
(* unread, or somebody opened it since (SlipSeen).                          *)
(****************************************************************************)

\* What requests carry, and the values rows and requests can have.
SenderChanges == Blockable \X {"safe", "blocked", "untrust", "unblock"}
ActArgs == (SUBSET Seals) \cup (SUBSET Receivers) \cup (SUBSET SenderChanges)
Receipts == {"none", "pending", "sent", "declined"}
ActOps == {"none", "mark_read", "mark_unread", "archive", "approve_read", "approve_delivery", "decline_read", "deliver",
    "report", "recall",
           "seal", "receipt", "request_recall", "sender"}
ActStages == {"idle", "read", "write", "decide", "mail", "release", "sent", "unsent", "claim", "reread", "judge",
    "lock", "delete"}
GotRows == [read : BOOLEAN, gone : BOOLEAN, folder : {"inbox", "archive", "junk"}, rr : Receipts, dr : Receipts,
    reported : BOOLEAN,
            seal : ActArgs, sealGen : Nat, rev : Nat]
SeenRows == [rev : Nat, seal : ActArgs, sealGen : Nat]
SentRows == [recall : BOOLEAN, roster : SUBSET ActArgs, rev : Nat]
ListRecs == [of : [Blockable -> {"none", "safe", "blocked"}], rev : Nat]
MaActs == [op : ActOps, pc : ActStages, was : [read : BOOLEAN, rr : Receipts], seen : SeenRows, sent : SentRows, lists :
    ListRecs,
           arg : ActArgs, gen : Nat, tries : Nat]
MaGhosts == [double : BOOLEAN, slipped : BOOLEAN, opened : BOOLEAN]
MaTypeOK == /\ got \in GotRows /\ act \in [Actors -> MaActs] /\ vaultGen \in Nat /\ receipts \in [read : Nat, delivery : Nat]
            /\ sentMsg \in SentRows /\ lists \in ListRecs /\ recallNotices \in Nat /\ maGhost \in MaGhosts

\* What a request goes by is what the row says, if the row is still the one it read.
GotFits(x, g) ==
    /\ x.seen.rev <= g.rev
    /\ x.seen.rev = g.rev =>
          /\ x.seen.seal = g.seal /\ x.seen.sealGen = g.sealGen
          /\ x.pc = "decide" => g.rr = "none"
          /\ x.op = "approve_read" /\ x.pc \in {"mail", "sent", "unsent"} => g.rr = "pending"
          /\ x.op = "decline_read" /\ x.pc = "write" => g.rr = "pending"
          /\ x.op = "approve_delivery" /\ x.pc \in {"mail", "sent", "unsent"} => g.dr = "pending"
          /\ x.pc = "claim" => g.dr = "none"
          /\ x.pc = "lock" => ~g.read
    /\ x.op = "seal" /\ x.pc = "write" => x.seen.seal = {} \/ x.seen.sealGen < x.gen
\* The same for the sender's copy.
SentFits(x, s) ==
    /\ x.sent.rev <= s.rev /\ (x.sent.rev = s.rev => x.sent = s)
    /\ x.op = "request_recall" /\ x.pc = "write" => ~x.sent.recall
\* The stages only one kind of request has.
StagesFit(x) ==
    /\ x.pc = "judge" => x.op = "seal"
    /\ x.pc = "reread" => x.op = "deliver"
    /\ x.pc = "decide" => x.op = "mark_read"
    /\ x.pc \in {"lock", "delete"} => x.op = "recall"
    /\ x.pc \in {"sent", "unsent"} => x.op \in {"approve_read", "approve_delivery"}
\* The same for the sender lists.
ListFits(x, l) == x.lists.rev <= l.rev /\ (x.lists.rev = l.rev => x.lists = l)
ActFits(x, g, s, l) == GotFits(x, g) /\ SentFits(x, s) /\ ListFits(x, l) /\ StagesFit(x)
\* A row never written is as it was filed.
StartsFiled(g, s, l) ==
    /\ g.rev = 0 => g.seal = {} /\ g.sealGen = 0
    /\ s.rev = 0 => s = Sent0
    /\ l.rev = 0 => l = Lists0

\* One that claimed a receipt and has not sent it, and one whose approval is on its way.
Claiming(x, c) == x.op = c /\ x.pc \in {"mail", "reread", "release"}
Approving(x, p) == x.op = p /\ x.pc \in {"mail", "sent", "unsent"}
Flying(x, c, p) == Claiming(x, c) \/ Approving(x, p)
\* A receipt of a kind: sent r, n went out; by A the requests.
OnceFor(A, c, p, r, n) ==
    /\ \A a, b \in Actors : Flying(A[a], c, p) /\ Flying(A[b], c, p) => a = b
    /\ \A a \in Actors : Claiming(A[a], c) => r = "sent" /\ n = 0
    /\ \A a \in Actors : Approving(A[a], p) => r \in {"pending", "declined"} /\ n = IF A[a].pc = "sent" THEN 1 ELSE 0
    /\ (\A a \in Actors : ~Flying(A[a], c, p)) => n = 0 \/ (n = 1 /\ r = "sent")
ReadOnce == OnceFor(act, "mark_read", "approve_read", got.rr, receipts.read)
DeliveredOnce == OnceFor(act, "deliver", "approve_delivery", got.dr, receipts.delivery)
OnceInv == ~maGhost.double => ReadOnce /\ DeliveredOnce

\* One that may send the recall notice.
Recalling(x) == x.op = "request_recall" /\ x.pc = "mail"
NoticeOnce ==
    /\ \A a, b \in Actors : Recalling(act[a]) /\ Recalling(act[b]) => a = b
    /\ \A a \in Actors : Recalling(act[a]) => sentMsg.recall /\ recallNotices = 0
    /\ (\A a \in Actors : ~Recalling(act[a])) => recallNotices = 0 \/ (recallNotices = 1 /\ sentMsg.recall)

\* A recall that locked the message and is about to delete it.
Deleting(x) == x.op = "recall" /\ x.pc = "delete"
SlipSeen == \A a \in Actors : Deleting(act[a]) /\ got.read => maGhost.slipped

\* The invariant.
MaInv == /\ MaTypeOK /\ StartsFiled(got, sentMsg, lists) /\ OnceInv /\ NoticeOnce /\ SlipSeen /\ RecalledUnread
         /\ \A a \in Actors : ActFits(act[a], got, sentMsg, lists)

\* What a step does to the row: nothing, a write, or its deletion.
GotMoves(g, h) == h = g \/ h.rev = g.rev + 1 \/ h = [g EXCEPT !.gone = TRUE]

\* What the invariant says of a request.
LEMMA MaParts ==
    ASSUME MaInv, NEW a \in Actors
    PROVE  /\ MaTypeOK /\ OnceInv /\ NoticeOnce /\ SlipSeen /\ RecalledUnread /\ StartsFiled(got, sentMsg, lists)
           /\ act[a] \in MaActs /\ got \in GotRows /\ sentMsg \in SentRows /\ lists \in ListRecs /\ maGhost \in MaGhosts
           /\ GotFits(act[a], got) /\ SentFits(act[a], sentMsg) /\ ListFits(act[a], lists) /\ StagesFit(act[a])
           /\ receipts \in [read : Nat, delivery : Nat]
  BY DEF MaInv, MaTypeOK, ActFits

\* A request at rest.
LEMMA NoActIs ==
    /\ NoAct.op = "none" /\ NoAct.pc = "idle" /\ NoAct.seen = Seen(Message0) /\ NoAct.sent = Sent0
    /\ NoAct.lists = Lists0
    /\ NoAct.arg = {} /\ NoAct.gen = 0 /\ NoAct.tries = 1 /\ NoAct.was = FlagBefore(Message0)
  BY DEF NoAct

\* It has its type, and the rows as they are filed theirs.
LEMMA NoActType == NoAct \in MaActs /\ Sent0 \in SentRows /\ Lists0 \in ListRecs /\ Message0 \in GotRows
  <1>1. {} \in ActArgs
    BY DEF ActArgs
  <1>2. Sent0 \in SentRows /\ Lists0 \in ListRecs
    BY <1>1 DEF Sent0, Lists0, SentRows, ListRecs
  <1>3. Message0 \in GotRows
    BY <1>1 DEF Message0, GotRows, Receipts
  <1>4. FlagBefore(Message0) \in [read : BOOLEAN, rr : Receipts] /\ Seen(Message0) \in SeenRows
    BY <1>1 DEF Message0, FlagBefore, Seen, SeenRows, Receipts
  <1> QED
    BY <1>1, <1>2, <1>3, <1>4 DEF NoAct, MaActs, ActOps, ActStages

\* What is noted of a row that was read.
LEMMA SeenIs ==
    ASSUME NEW g \in GotRows
    PROVE  Seen(g) \in SeenRows /\ Seen(g).rev = g.rev /\ Seen(g).seal = g.seal /\ Seen(g).sealGen = g.sealGen
  BY DEF Seen, SeenRows, GotRows

\* What has not read anything yet fits.
LEMMA RestFits ==
    ASSUME NEW x, x.pc \in {"idle", "read"}, x.seen = Seen(Message0), x.sent = Sent0, x.lists = Lists0,
           NEW g \in GotRows, NEW s \in SentRows, NEW l \in ListRecs, StartsFiled(g, s, l)
    PROVE  ActFits(x, g, s, l)
  <1>1. x.seen.rev = 0 /\ x.seen.seal = {} /\ x.seen.sealGen = 0
    BY DEF Seen, Message0
  <1>2. Sent0.rev = 0 /\ Lists0.rev = 0
    BY DEF Sent0, Lists0
  <1>3. g.rev \in Nat /\ s.rev \in Nat /\ l.rev \in Nat
    BY DEF GotRows, SentRows, ListRecs
  <1>4. GotFits(x, g)
    BY <1>1, <1>3 DEF GotFits, StartsFiled
  <1>5. SentFits(x, s) /\ ListFits(x, l)
    BY <1>2, <1>3 DEF SentFits, ListFits, StartsFiled
  <1> QED
    BY <1>4, <1>5 DEF ActFits, StagesFit

\* A request at rest fits every row.
LEMMA NoActFits ==
    ASSUME NEW g \in GotRows, NEW s \in SentRows, NEW l \in ListRecs, StartsFiled(g, s, l)
    PROVE  ActFits(NoAct, g, s, l)
  BY NoActIs, RestFits

\* A request that goes on has its type and holds what it held.
LEMMA StageType ==
    ASSUME NEW x \in MaActs, NEW p \in ActStages, NEW n, n = [x EXCEPT !.pc = p]
    PROVE  /\ n \in MaActs /\ n.pc = p /\ n.op = x.op /\ n.seen = x.seen
           /\ n.sent = x.sent /\ n.lists = x.lists /\ n.arg = x.arg /\ n.gen = x.gen
  BY DEF MaActs

\* A write leaves behind who read the row before.
LEMMA StaleFits ==
    ASSUME NEW x \in MaActs, NEW g \in GotRows, NEW h \in GotRows, GotMoves(g, h), GotFits(x, g)
    PROVE  GotFits(x, h)
  <1>1. g.rev \in Nat /\ x.seen.rev \in Nat
    BY DEF GotRows, MaActs, SeenRows
  <1>2. CASE h.rev = g.rev + 1
    BY <1>1, <1>2 DEF GotFits
  <1>3. CASE h = [g EXCEPT !.gone = TRUE]
    <2>1. h.rev = g.rev /\ h.seal = g.seal /\ h.sealGen = g.sealGen /\ h.rr = g.rr /\ h.dr = g.dr /\ h.read = g.read
      BY <1>3 DEF GotRows
    <2> QED
      BY <2>1 DEF GotFits
  <1> QED
    BY <1>2, <1>3 DEF GotMoves

\* The same for the sender's copy.
LEMMA StaleSentFits ==
    ASSUME NEW x \in MaActs, NEW s \in SentRows, NEW v \in SentRows, v = s \/ v.rev = s.rev + 1, SentFits(x, s)
    PROVE  SentFits(x, v)
  <1>1. s.rev \in Nat /\ x.sent.rev \in Nat
    BY DEF MaActs, SentRows
  <1> QED
    BY <1>1 DEF SentFits

\* The same for the sender lists.
LEMMA StaleListFits ==
    ASSUME NEW x \in MaActs, NEW l \in ListRecs, NEW v \in ListRecs, v = l \/ v.rev = l.rev + 1, ListFits(x, l)
    PROVE  ListFits(x, v)
  <1>1. l.rev \in Nat /\ x.lists.rev \in Nat
    BY DEF MaActs, ListRecs
  <1> QED
    BY <1>1 DEF ListFits

\* A row that was written is not one never written.
LEMMA StillStarts ==
    ASSUME NEW g \in GotRows, NEW h \in GotRows, GotMoves(g, h), NEW s \in SentRows, NEW v \in SentRows,
        v = s \/ v.rev = s.rev + 1,
           NEW l \in ListRecs, NEW w \in ListRecs, w = l \/ w.rev = l.rev + 1, StartsFiled(g, s, l)
    PROVE  StartsFiled(h, v, w)
  <1>1. g.rev \in Nat /\ s.rev \in Nat /\ l.rev \in Nat
    BY DEF GotRows, SentRows, ListRecs
  <1>2. h.rev = 0 => h.seal = {} /\ h.sealGen = 0
    <2>1. CASE h = [g EXCEPT !.gone = TRUE]
      <3>1. h.rev = g.rev /\ h.seal = g.seal /\ h.sealGen = g.sealGen
        BY <2>1 DEF GotRows
      <3> QED
        BY <3>1 DEF StartsFiled
    <2> QED
      BY <1>1, <2>1 DEF StartsFiled, GotMoves
  <1> QED
    BY <1>1, <1>2 DEF StartsFiled

\* One request or worker moves.
LEMMA ActMoves ==
    ASSUME MaInv, NEW a \in Actors, NEW n \in MaActs, act' = [act EXCEPT ![a] = n],
           got' \in GotRows, GotMoves(got, got'), sentMsg' \in SentRows,
               sentMsg' = sentMsg \/ sentMsg'.rev = sentMsg.rev + 1,
           lists' \in ListRecs, lists' = lists \/ lists'.rev = lists.rev + 1,
           vaultGen' \in Nat, receipts' \in [read : Nat, delivery : Nat], recallNotices' \in Nat, maGhost' \in MaGhosts,
           GotFits(n, got'), SentFits(n, sentMsg'), ListFits(n, lists'), StagesFit(n),
           OnceInv', NoticeOnce', SlipSeen', RecalledUnread'
    PROVE  MaInv'
  <1>1. MaTypeOK /\ StartsFiled(got, sentMsg, lists)
    BY MaParts
  <1>2. \A b \in Actors : act'[b] = IF b = a THEN n ELSE act[b]
    BY <1>1 DEF MaTypeOK
  <1>3. MaTypeOK'
    BY <1>1 DEF MaTypeOK
  <1>4. got \in GotRows /\ sentMsg \in SentRows /\ lists \in ListRecs
    BY <1>1 DEF MaTypeOK
  <1>5. StartsFiled(got', sentMsg', lists')
    BY <1>1, <1>4, StillStarts
  <1>6. ASSUME NEW b \in Actors PROVE ActFits(act'[b], got', sentMsg', lists')
    <2>1. CASE b = a
      BY <1>2, <2>1 DEF ActFits
    <2>2. CASE b # a
      <3>1. /\ act[b] \in MaActs /\ GotFits(act[b], got) /\ SentFits(act[b], sentMsg)
            /\ ListFits(act[b], lists) /\ StagesFit(act[b])
        BY MaParts
      <3>2. GotFits(act[b], got') /\ SentFits(act[b], sentMsg') /\ ListFits(act[b], lists')
        BY <3>1, <1>4, StaleFits, StaleSentFits, StaleListFits
      <3> QED
        BY <1>2, <2>2, <3>1, <3>2 DEF ActFits
    <2> QED
      BY <2>1, <2>2
  <1> QED
    BY <1>3, <1>5, <1>6 DEF MaInv

--------------------------------------------------------------------------------

\* A request that has nothing to do with the receipt moves.
LEMMA OnceQuiet ==
    ASSUME NEW A, NEW B, NEW a \in Actors, \A b \in Actors \ {a} : B[b] = A[b], NEW c, NEW p, NEW r, NEW n,
           ~Flying(A[a], c, p), ~Flying(B[a], c, p), OnceFor(A, c, p, r, n)
    PROVE  OnceFor(B, c, p, r, n)
  BY DEF OnceFor, Flying

\* One that has, and is alone.
LEMMA OnceAlone ==
    ASSUME NEW B, NEW a \in Actors, NEW c, NEW p, NEW r, NEW n, \A b \in Actors \ {a} : ~Flying(B[b], c, p),
           Claiming(B[a], c) => r = "sent" /\ n = 0,
           Approving(B[a], p) => r \in {"pending", "declined"} /\ n = IF B[a].pc = "sent" THEN 1 ELSE 0,
           ~Flying(B[a], c, p) => n = 0 \/ (n = 1 /\ r = "sent")
    PROVE  OnceFor(B, c, p, r, n)
  BY DEF OnceFor, Flying

\* When one may send it no other may.
LEMMA OnceOthers ==
    ASSUME NEW A, NEW a \in Actors, NEW c, NEW p, NEW r, NEW n, OnceFor(A, c, p, r, n), Flying(A[a], c, p)
    PROVE  \A b \in Actors \ {a} : ~Flying(A[b], c, p)
  BY DEF OnceFor

\* Nobody has sent, or is about to, what is not on record.
LEMMA OnceNone ==
    ASSUME NEW A, NEW c, NEW p, NEW n, OnceFor(A, c, p, "none", n)
    PROVE  n = 0 /\ \A b \in Actors : ~Flying(A[b], c, p)
  BY DEF OnceFor, Flying

\* Nor a receipt that is pending, when no approval is on its way.
LEMMA OncePending ==
    ASSUME NEW A, NEW c, NEW p, NEW n, OnceFor(A, c, p, "pending", n), \A b \in Actors : ~Approving(A[b], p)
    PROVE  n = 0 /\ \A b \in Actors : ~Flying(A[b], c, p)
  BY DEF OnceFor, Flying

\* A receipt that was pending may be declined under an approval.
LEMMA OnceDeclines ==
    ASSUME NEW A, NEW c, NEW p, NEW n, OnceFor(A, c, p, "pending", n)
    PROVE  OnceFor(A, c, p, "declined", n)
  BY DEF OnceFor, Flying

\* It goes out at most once.
LEMMA OnceAtMost ==
    ASSUME NEW A, NEW c, NEW p, NEW r, NEW n, OnceFor(A, c, p, r, n)
    PROVE  n \in {0, 1}
  BY DEF OnceFor, Flying

\* A step that neither sends a receipt nor concerns one.
\* A step that neither sends a receipt nor concerns one.
ReadIdle(x) == ~Flying(x, "mark_read", "approve_read")
DeliveryIdle(x) == ~Flying(x, "deliver", "approve_delivery")
SameReceipts(g, h) == h.rr = g.rr /\ h.dr = g.dr /\ h.read = g.read

\* Such a step keeps the receipts once.
LEMMA OnceInvQuiet ==
    ASSUME MaInv, NEW a \in Actors, NEW n \in MaActs, act' = [act EXCEPT ![a] = n], got'.rr = got.rr, got'.dr = got.dr,
        UNCHANGED receipts,
           maGhost'.double \/ ~maGhost.double, ReadIdle(act[a]), ReadIdle(n), DeliveryIdle(act[a]), DeliveryIdle(n)
    PROVE  OnceInv'
  <1>1. MaTypeOK /\ OnceInv
    BY MaParts
  <1>2. act'[a] = n /\ \A b \in Actors \ {a} : act'[b] = act[b]
    BY <1>1 DEF MaTypeOK
  <1>3. SUFFICES ASSUME ~maGhost.double PROVE ReadOnce' /\ DeliveredOnce'
    BY DEF OnceInv
  <1>4. /\ OnceFor(act, "mark_read", "approve_read", got.rr, receipts.read)
        /\ OnceFor(act, "deliver", "approve_delivery", got.dr, receipts.delivery)
    BY <1>1, <1>3 DEF OnceInv, ReadOnce, DeliveredOnce
  <1>5. /\ ~Flying(act[a], "mark_read", "approve_read") /\ ~Flying(act'[a], "mark_read", "approve_read")
        /\ ~Flying(act[a], "deliver", "approve_delivery") /\ ~Flying(act'[a], "deliver", "approve_delivery")
    BY <1>2 DEF ReadIdle, DeliveryIdle
  <1>6. OnceFor(act', "mark_read", "approve_read", got.rr, receipts.read)
    BY <1>2, <1>4, <1>5, OnceQuiet
  <1>7. OnceFor(act', "deliver", "approve_delivery", got.dr, receipts.delivery)
    BY <1>2, <1>4, <1>5, OnceQuiet
  <1> QED
    BY <1>6, <1>7 DEF ReadOnce, DeliveredOnce

\* A step that has nothing to do with the recall notice.
LEMMA NoticeQuiet ==
    ASSUME MaInv, NEW a \in Actors, NEW n \in MaActs, act' = [act EXCEPT ![a] = n], UNCHANGED recallNotices,
        sentMsg'.recall = sentMsg.recall,
           ~Recalling(act[a]), ~Recalling(n)
    PROVE  NoticeOnce'
  <1>1. MaTypeOK /\ NoticeOnce
    BY MaParts
  <1>2. \A b \in Actors : act'[b] = IF b = a THEN n ELSE act[b]
    BY <1>1 DEF MaTypeOK
  <1> QED
    BY <1>1, <1>2 DEF NoticeOnce

\* A step that does not mark the message read.
LEMMA SlipQuiet ==
    ASSUME MaInv, NEW a \in Actors, NEW n \in MaActs, act' = [act EXCEPT ![a] = n], got'.read => got.read,
        maGhost.slipped => maGhost'.slipped,
           ~Deleting(n)
    PROVE  SlipSeen'
  <1>1. MaTypeOK /\ SlipSeen
    BY MaParts
  <1>2. \A b \in Actors : act'[b] = IF b = a THEN n ELSE act[b]
    BY <1>1 DEF MaTypeOK
  <1> QED
    BY <1>1, <1>2 DEF SlipSeen

\* A step on the received message that concerns neither its receipts nor its reading.
LEMMA RowMoves ==
    ASSUME MaInv, NEW a \in Actors, NEW n \in MaActs, act' = [act EXCEPT ![a] = n], MaUnch, UNCHANGED <<receipts, maGhost>>,
           got' \in GotRows, GotMoves(got, got'), SameReceipts(got, got'), GotFits(n, got'), StagesFit(n), SentFits(n,
               sentMsg), ListFits(n, lists),
           ReadIdle(act[a]), ReadIdle(n), DeliveryIdle(act[a]), DeliveryIdle(n), ~Recalling(act[a]), ~Recalling(n),
               ~Deleting(n)
    PROVE  MaInv'
  <1>1. MaTypeOK /\ RecalledUnread
    BY MaParts
  <1>2. OnceInv'
    BY OnceInvQuiet DEF SameReceipts
  <1>3. NoticeOnce'
    BY NoticeQuiet DEF MaUnch
  <1>4. SlipSeen'
    BY SlipQuiet DEF SameReceipts
  <1>5. RecalledUnread'
    BY <1>1 DEF RecalledUnread
  <1> QED
    BY <1>1, <1>2, <1>3, <1>4, <1>5, ActMoves DEF MaUnch, MaTypeOK

\* Who is not about to send is none of the three.
LEMMA IdleStage ==
    ASSUME NEW x, x.pc \notin {"mail", "reread", "release", "sent", "unsent"}
    PROVE  ReadIdle(x) /\ DeliveryIdle(x) /\ ~Recalling(x)
  BY DEF ReadIdle, DeliveryIdle, Recalling, Flying, Claiming, Approving

\* A request at rest is none of them.
LEMMA NoActIdle == ReadIdle(NoAct) /\ DeliveryIdle(NoAct) /\ ~Recalling(NoAct) /\ ~Deleting(NoAct) /\ StagesFit(NoAct)
  BY NoActIs, IdleStage DEF Deleting, StagesFit

\* A write counts the version up and is the row otherwise.
LEMMA WrittenIs ==
    ASSUME got \in GotRows, NEW row \in GotRows, Written(row)
    PROVE  /\ got' \in GotRows /\ got'.rev = got.rev + 1 /\ got'.rr = row.rr /\ got'.dr = row.dr /\ got'.read = row.read
           /\ got'.gone = row.gone /\ got'.seal = row.seal /\ got'.sealGen = row.sealGen /\ got'.reported = row.reported
  <1> DEFINE v == got.rev + 1
  <1>1. v \in Nat
    BY DEF GotRows
  <1>2. got' = [row EXCEPT !.rev = v]
    BY DEF Written
  <1> HIDE DEF v
  <1>3. /\ got' \in GotRows /\ got'.rev = v /\ got'.rr = row.rr /\ got'.dr = row.dr /\ got'.read = row.read
        /\ got'.gone = row.gone /\ got'.seal = row.seal /\ got'.sealGen = row.sealGen /\ got'.reported = row.reported
    BY <1>1, <1>2 DEF GotRows
  <1> QED
    BY <1>3 DEF v

\* A request at rest fits the row after a step.
LEMMA NoActOfNow == ASSUME MaInv, NEW h \in GotRows, GotMoves(got, h)
    PROVE  GotFits(NoAct, h) /\ SentFits(NoAct, sentMsg) /\ ListFits(NoAct, lists) /\ NoAct \in MaActs
  <1>1. MaTypeOK /\ StartsFiled(got, sentMsg, lists) /\ got \in GotRows /\ sentMsg \in SentRows /\ lists \in ListRecs
    BY DEF MaInv, MaTypeOK
  <1>2. StartsFiled(h, sentMsg, lists)
    BY <1>1, StillStarts
  <1> QED
    BY <1>1, <1>2, NoActFits, NoActType DEF ActFits

\* A step after which it is at rest.
LEMMA RowEnds ==
    ASSUME MaInv, NEW a \in Actors, ActEnds(a), MaUnch, UNCHANGED <<receipts, maGhost>>, got' \in GotRows, GotMoves(got,
        got'),
           SameReceipts(got, got'), ReadIdle(act[a]), DeliveryIdle(act[a]), ~Recalling(act[a])
    PROVE  MaInv'
  BY NoActOfNow, NoActIdle, RowMoves DEF ActEnds

\* A step that leaves the message as it is.
LEMMA RowRead ==
    ASSUME MaInv, NEW a \in Actors, NEW n \in MaActs, act' = [act EXCEPT ![a] = n], MaUnch, UNCHANGED <<got, receipts,
        maGhost>>,
           GotFits(n, got), StagesFit(n), n.sent = act[a].sent, n.lists = act[a].lists, n.op = act[a].op,
               n.op # "request_recall",
           ReadIdle(act[a]), ReadIdle(n), DeliveryIdle(act[a]), DeliveryIdle(n), ~Deleting(n)
    PROVE  MaInv'
  <1>1. MaTypeOK /\ got \in GotRows /\ SentFits(act[a], sentMsg) /\ ListFits(act[a], lists)
    BY MaParts
  <1>2. GotMoves(got, got') /\ SameReceipts(got, got') /\ got' \in GotRows
    BY <1>1 DEF GotMoves, SameReceipts
  <1>3. SentFits(n, sentMsg) /\ ListFits(n, lists)
    BY <1>1 DEF SentFits, ListFits
  <1>4. ~Recalling(act[a]) /\ ~Recalling(n)
    BY DEF Recalling
  <1> QED
    BY <1>1, <1>2, <1>3, <1>4, RowMoves

\* A request that ends without having written.
LEMMA RowReadEnds ==
    ASSUME MaInv, NEW a \in Actors, ActEnds(a), MaUnch, UNCHANGED <<got, receipts, maGhost>>,
           ReadIdle(act[a]), DeliveryIdle(act[a]), ~Recalling(act[a])
    PROVE  MaInv'
  <1>1. got \in GotRows
    BY MaParts
  <1>2. GotMoves(got, got') /\ SameReceipts(got, got') /\ got' \in GotRows
    BY <1>1 DEF GotMoves, SameReceipts
  <1> QED
    BY <1>2, RowEnds

\* A try more, or the end of the tries.
LEMMA NextTryIs ==
    ASSUME NEW x \in MaActs, NEW p \in ActStages
    PROVE  \/ NextTry(x, p) = NoAct
           \/ /\ NextTry(x, p) \in MaActs /\ NextTry(x, p).pc = p /\ NextTry(x, p).op = x.op /\ NextTry(x, p).seen = x.seen
              /\ NextTry(x, p).sent = x.sent /\ NextTry(x, p).lists = x.lists /\ NextTry(x, p).arg = x.arg
  <1> DEFINE t == x.tries + 1
             n == [x EXCEPT !.pc = p, !.tries = t]
  <1>1. t \in Nat
    BY DEF MaActs
  <1>2. NextTry(x, p) = n \/ NextTry(x, p) = NoAct
    BY DEF NextTry
  <1> HIDE DEF t
  <1>3. /\ n \in MaActs /\ n.pc = p /\ n.op = x.op /\ n.seen = x.seen /\ n.sent = x.sent /\ n.lists = x.lists
        /\ n.arg = x.arg
    BY <1>1 DEF MaActs
  <1> HIDE DEF n
  <1> QED
    BY <1>2, <1>3

\* A conflict is tried again from the read.
LEMMA AgainKeeps ==
    ASSUME MaInv, NEW a \in Actors, NEW p \in {"read"}, Again(a, p), MaUnch, UNCHANGED <<got, receipts, maGhost>>,
           act[a].op # "request_recall", ReadIdle(act[a]), DeliveryIdle(act[a])
    PROVE  MaInv'
  <1> DEFINE n == NextTry(act[a], p)
  <1>1. act[a] \in MaActs /\ GotFits(act[a], got) /\ p \in ActStages
    BY MaParts DEF ActStages
  <1>2. act' = [act EXCEPT ![a] = n]
    BY DEF Again
  <1>3. \/ n = NoAct
        \/ /\ n \in MaActs /\ n.pc = "read" /\ n.op = act[a].op
           /\ n.seen = act[a].seen /\ n.sent = act[a].sent /\ n.lists = act[a].lists
    BY <1>1, NextTryIs
  <1> HIDE DEF n
  <1>4. CASE n = NoAct
    BY <1>2, <1>4, RowReadEnds DEF ActEnds, Recalling
  <1>5. CASE /\ n \in MaActs /\ n.pc = "read" /\ n.op = act[a].op
             /\ n.seen = act[a].seen /\ n.sent = act[a].sent /\ n.lists = act[a].lists
    <2>1. GotFits(n, got) /\ StagesFit(n) /\ ~Deleting(n) /\ ReadIdle(n) /\ DeliveryIdle(n)
      BY <1>1, <1>5, IdleStage DEF GotFits, StagesFit, Deleting
    <2> QED
      BY <1>2, <1>5, <2>1, RowRead
  <1> QED
    BY <1>3, <1>4, <1>5

--------------------------------------------------------------------------------

\* A request that arrives has read nothing.
LEMMA BeginActKeeps ==
    ASSUME MaInv, NEW a \in Actors, BeginAct(a)
    PROVE  MaInv'
  <1>1. MaTypeOK /\ StartsFiled(got, sentMsg, lists) /\ got \in GotRows /\ sentMsg \in SentRows /\ lists \in ListRecs
    BY DEF MaInv, MaTypeOK
  <1>2. MaUnch /\ UNCHANGED <<got, receipts, maGhost>>
    BY DEF BeginAct
  <1>3. PICK op \in ActOps, arg \in ActArgs : ActStarts(a, op, arg)
    <2>1. {} \in ActArgs /\ (\A s \in Seals : {s} \in ActArgs) /\ (\A r \in Receivers : {r} \in ActArgs)
          /\ \A e \in Blockable, to \in {"safe", "blocked", "untrust", "unblock"} : {<<e, to>>} \in ActArgs
      <3>1. {} \in ActArgs
        BY DEF ActArgs
      <3>2. \A s \in Seals : {s} \in ActArgs
        BY DEF ActArgs
      <3>3. \A r \in Receivers : {r} \in ActArgs
        BY DEF ActArgs
      <3>4. ASSUME NEW e \in Blockable, NEW to \in {"safe", "blocked", "untrust", "unblock"} PROVE {<<e, to>>} \in ActArgs
        <4>1. <<e, to>> \in SenderChanges
          BY DEF SenderChanges
        <4>2. {<<e, to>>} \in SUBSET SenderChanges
          BY <4>1
        <4> QED
          BY <4>2, Zenon DEF ActArgs
      <3> QED
        BY <3>1, <3>2, <3>3, <3>4
    <2> QED
      BY <2>1 DEF BeginAct, ActOps
  <1> DEFINE n == [NoAct EXCEPT !.op = op, !.pc = "read", !.arg = arg]
  <1>4. act' = [act EXCEPT ![a] = n] /\ act[a].pc = "idle"
    BY <1>3 DEF ActStarts
  <1>5. /\ n \in MaActs /\ n.pc = "read" /\ n.seen = Seen(Message0) /\ n.sent = Sent0 /\ n.lists = Lists0
    <2>1. NoAct \in MaActs /\ "read" \in ActStages
      BY NoActType DEF ActStages
    <2>2. /\ n \in MaActs /\ n.pc = "read" /\ n.seen = NoAct.seen /\ n.sent = NoAct.sent /\ n.lists = NoAct.lists
      BY <2>1 DEF MaActs
    <2> QED
      BY <2>2, NoActIs
  <1> HIDE DEF n
  <1>6. ActFits(n, got, sentMsg, lists)
    BY <1>1, <1>5, RestFits
  <1>7. /\ ReadIdle(n) /\ DeliveryIdle(n) /\ ~Recalling(n) /\ ~Deleting(n) /\ ReadIdle(act[a])
        /\ DeliveryIdle(act[a]) /\ ~Recalling(act[a])
    BY <1>4, <1>5, IdleStage DEF Deleting
  <1>8. GotMoves(got, got') /\ SameReceipts(got, got') /\ got' \in GotRows
    BY <1>1, <1>2 DEF GotMoves, SameReceipts
  <1> QED
    BY <1>2, <1>4, <1>5, <1>6, <1>7, <1>8, RowMoves DEF ActFits

\* A re-keyed vault changes no row.
LEMMA RekeyKeeps ==
    ASSUME MaInv, Rekey
    PROVE  MaInv'
  BY DEF MaInv, Rekey, MaTypeOK, OnceInv, ReadOnce, DeliveredOnce, NoticeOnce, SlipSeen, RecalledUnread

\* update() keeps the flags as they were before.
LEMMA ReadBeforeKeeps ==
    ASSUME MaInv, NEW a \in Actors, ReadBefore(a)
    PROVE  MaInv'
  <1>1. act[a] \in MaActs /\ got \in GotRows /\ GotFits(act[a], got) /\ StagesFit(act[a])
    BY MaParts
  <1>2. /\ act[a].pc = "read" /\ act[a].op \in {"mark_read", "mark_unread"} /\ MaUnch
        /\ UNCHANGED <<got, receipts, maGhost>>
    BY DEF ReadBefore
  <1>3. ReadIdle(act[a]) /\ DeliveryIdle(act[a]) /\ ~Recalling(act[a])
    BY <1>2, IdleStage
  <1> DEFINE f == FlagBefore(got)
             n == [act[a] EXCEPT !.pc = "write", !.was = f]
  <1>4. CASE got.gone
    BY <1>2, <1>3, <1>4, RowReadEnds DEF ReadBefore, ActEnds
  <1>5. CASE ~got.gone
    <2>1. act' = [act EXCEPT ![a] = n]
      BY <1>5 DEF ReadBefore
    <2>2. f \in [read : BOOLEAN, rr : Receipts]
      BY <1>1 DEF FlagBefore, GotRows
    <2> HIDE DEF f
    <2>3. /\ n \in MaActs /\ n.pc = "write" /\ n.op = act[a].op /\ n.seen = act[a].seen
          /\ n.sent = act[a].sent /\ n.lists = act[a].lists
      BY <1>1, <2>2 DEF MaActs, ActStages
    <2> HIDE DEF n
    <2>4. GotFits(n, got) /\ StagesFit(n) /\ ~Deleting(n) /\ ReadIdle(n) /\ DeliveryIdle(n)
      BY <1>1, <1>2, <2>3, IdleStage DEF GotFits, StagesFit, Deleting
    <2> QED
      BY <1>2, <1>3, <2>1, <2>3, <2>4, RowRead
  <1> QED
    BY <1>4, <1>5

\* A change that is written after the row is read once more.
LEMMA StaleRead ==
    ASSUME NEW x \in MaActs, NEW g \in GotRows, x.seen = Seen(g),
           x.pc \in {"claim", "write", "mail", "judge", "release", "lock"},
           x.pc = "claim" => g.dr = "none", x.pc = "lock" => ~g.read,
           x.op = "approve_read" /\ x.pc = "mail" => g.rr = "pending",
           x.op = "decline_read" /\ x.pc = "write" => g.rr = "pending",
           x.op = "approve_delivery" /\ x.pc = "mail" => g.dr = "pending",
           ~(x.op = "seal" /\ x.pc = "write")
    PROVE  GotFits(x, g)
  <1>1. x.seen.rev = g.rev /\ x.seen.seal = g.seal /\ x.seen.sealGen = g.sealGen /\ g.rev \in Nat
    BY SeenIs DEF GotRows
  <1> QED
    BY <1>1 DEF GotFits

\* archive() and report() read the row.
LEMMA ReadRowKeeps ==
    ASSUME MaInv, NEW a \in Actors, ReadRow(a)
    PROVE  MaInv'
  <1>1. act[a] \in MaActs /\ got \in GotRows /\ Seen(got) \in SeenRows
    BY MaParts, SeenIs
  <1>2. act[a].pc = "read" /\ act[a].op \in {"archive", "report"} /\ MaUnch /\ UNCHANGED <<got, receipts, maGhost>>
    BY DEF ReadRow
  <1>3. ReadIdle(act[a]) /\ DeliveryIdle(act[a]) /\ ~Recalling(act[a])
    BY <1>2, IdleStage
  <1>4. CASE got.gone
    BY <1>2, <1>3, <1>4, RowReadEnds DEF ReadRow, ActEnds
  <1>5. CASE ~got.gone
    <2> DEFINE v == Seen(got)
               n == [act[a] EXCEPT !.pc = "write", !.seen = v]
    <2>1. act' = [act EXCEPT ![a] = n] /\ "write" \in ActStages
      BY <1>5 DEF ReadRow, ActStages
    <2>2. /\ n \in MaActs /\ n.pc = "write" /\ n.op = act[a].op /\ n.seen = Seen(got) /\ n.sent = act[a].sent
          /\ n.lists = act[a].lists
      <3>1. v \in SeenRows /\ v = Seen(got)
        BY <1>1
      <3> HIDE DEF v
      <3> QED
        BY <1>1, <2>1, <3>1 DEF MaActs
    <2> HIDE DEF n
    <2>3. GotFits(n, got)
      BY <1>1, <1>2, <2>2, StaleRead
    <2>4. StagesFit(n) /\ ~Deleting(n) /\ ReadIdle(n) /\ DeliveryIdle(n)
      BY <2>2, IdleStage DEF StagesFit, Deleting
    <2> QED
      BY <1>2, <1>3, <2>1, <2>2, <2>3, <2>4, RowRead
  <1> QED
    BY <1>4, <1>5

\* archive() writes the folder of the row it read.
LEMMA ArchiveKeeps ==
    ASSUME MaInv, NEW a \in Actors, Archive(a)
    PROVE  MaInv'
  <1>1. got \in GotRows
    BY MaParts
  <1>2. act[a].pc = "write" /\ act[a].op = "archive" /\ ActEnds(a) /\ MaUnch /\ UNCHANGED <<receipts, maGhost>>
    BY DEF Archive
  <1>3. ReadIdle(act[a]) /\ DeliveryIdle(act[a]) /\ ~Recalling(act[a])
    BY <1>2, IdleStage
  <1>4. CASE Fresh(a)
    <2> DEFINE row == [got EXCEPT !.folder = "archive"]
    <2>1. row \in GotRows /\ row.rr = got.rr /\ row.dr = got.dr /\ row.read = got.read
      BY <1>1 DEF GotRows
    <2>2. Written(row)
      BY <1>4 DEF Archive
    <2> HIDE DEF row
    <2>3. got' \in GotRows /\ GotMoves(got, got') /\ SameReceipts(got, got')
      BY <1>1, <2>1, <2>2, WrittenIs DEF GotMoves, SameReceipts
    <2> QED
      BY <1>2, <1>3, <2>3, RowEnds
  <1>5. CASE ~Fresh(a)
    BY <1>2, <1>3, <1>5, RowReadEnds DEF Archive
  <1> QED
    BY <1>4, <1>5

\* report() marks and moves the row it read, or reads it again.
LEMMA MarkReportedKeeps ==
    ASSUME MaInv, NEW a \in Actors, MarkReported(a)
    PROVE  MaInv'
  <1>1. got \in GotRows
    BY MaParts
  <1>2. act[a].pc = "write" /\ act[a].op = "report" /\ MaUnch /\ UNCHANGED <<receipts, maGhost>>
    BY DEF MarkReported
  <1>3. ReadIdle(act[a]) /\ DeliveryIdle(act[a]) /\ ~Recalling(act[a])
    BY <1>2, IdleStage
  <1>4. CASE Fresh(a)
    <2> DEFINE row == [got EXCEPT !.reported = TRUE, !.folder = "junk"]
    <2>1. row \in GotRows /\ row.rr = got.rr /\ row.dr = got.dr /\ row.read = got.read
      BY <1>1 DEF GotRows
    <2>2. Written(row) /\ ActEnds(a)
      BY <1>4 DEF MarkReported
    <2> HIDE DEF row
    <2>3. got' \in GotRows /\ GotMoves(got, got') /\ SameReceipts(got, got')
      BY <1>1, <2>1, <2>2, WrittenIs DEF GotMoves, SameReceipts
    <2> QED
      BY <1>2, <1>3, <2>2, <2>3, RowEnds
  <1>5. CASE ~Fresh(a)
    BY <1>2, <1>3, <1>5, AgainKeeps DEF MarkReported
  <1> QED
    BY <1>4, <1>5

\* setVerificationSeal() reads the row, and the generation once.
LEMMA ReadForSealKeeps ==
    ASSUME MaInv, NEW a \in Actors, ReadForSeal(a)
    PROVE  MaInv'
  <1>1. act[a] \in MaActs /\ got \in GotRows /\ Seen(got) \in SeenRows /\ vaultGen \in Nat
    BY MaParts, SeenIs DEF MaTypeOK
  <1>2. act[a].pc = "read" /\ act[a].op = "seal" /\ MaUnch /\ UNCHANGED <<got, receipts, maGhost>>
    BY DEF ReadForSeal
  <1>3. ReadIdle(act[a]) /\ DeliveryIdle(act[a]) /\ ~Recalling(act[a])
    BY <1>2, IdleStage
  <1>4. CASE got.gone
    BY <1>2, <1>3, <1>4, RowReadEnds DEF ReadForSeal, ActEnds
  <1>5. CASE ~got.gone
    <2> DEFINE v == Seen(got)
               k == IF act[a].gen = 0 THEN vaultGen ELSE act[a].gen
               n == [act[a] EXCEPT !.pc = "judge", !.seen = v, !.gen = k]
    <2>1. act' = [act EXCEPT ![a] = n]
      BY <1>5 DEF ReadForSeal
    <2>2. k \in Nat /\ v \in SeenRows
      BY <1>1 DEF MaActs
    <2> HIDE DEF k, v
    <2>3. /\ n \in MaActs /\ n.pc = "judge" /\ n.op = act[a].op /\ n.seen = v /\ n.sent = act[a].sent
          /\ n.lists = act[a].lists
      BY <1>1, <2>2 DEF MaActs, ActStages
    <2> HIDE DEF n
    <2>4. GotFits(n, got)
      BY <1>1, <1>2, <2>3, StaleRead DEF v
    <2>5. StagesFit(n) /\ ~Deleting(n) /\ ReadIdle(n) /\ DeliveryIdle(n)
      BY <1>2, <2>3, IdleStage DEF StagesFit, Deleting
    <2> QED
      BY <1>2, <1>3, <2>1, <2>3, <2>4, <2>5, RowRead
  <1> QED
    BY <1>4, <1>5

\* A seal that goes on is over none, or over one of an older generation.
LEMMA JudgeSealKeeps ==
    ASSUME MaInv, NEW a \in Actors, JudgeSeal(a)
    PROVE  MaInv'
  <1>1. act[a] \in MaActs /\ GotFits(act[a], got) /\ StagesFit(act[a])
    BY MaParts
  <1>2. act[a].pc = "judge" /\ act[a].op = "seal" /\ MaUnch /\ UNCHANGED <<got, receipts, maGhost>>
    BY <1>1 DEF JudgeSeal, StagesFit
  <1>3. ReadIdle(act[a]) /\ DeliveryIdle(act[a]) /\ ~Recalling(act[a])
    BY <1>2, IdleStage
  <1>4. CASE ~SealAllowed(a)
    BY <1>2, <1>3, <1>4, RowReadEnds DEF JudgeSeal
  <1>5. CASE SealAllowed(a)
    <2> DEFINE n == [act[a] EXCEPT !.pc = "write"]
    <2>1. act' = [act EXCEPT ![a] = n] /\ "write" \in ActStages
      BY <1>5 DEF JudgeSeal, ActGoes, ActStages
    <2>2. /\ n \in MaActs /\ n.pc = "write" /\ n.op = "seal" /\ n.seen = act[a].seen /\ n.sent = act[a].sent
          /\ n.lists = act[a].lists /\ n.gen = act[a].gen
      BY <1>1, <1>2, <2>1, StageType
    <2> HIDE DEF n
    <2>3. GotFits(n, got)
      BY <1>1, <1>5, <2>2 DEF GotFits, SealAllowed
    <2>4. StagesFit(n) /\ ~Deleting(n) /\ ReadIdle(n) /\ DeliveryIdle(n)
      BY <2>2, IdleStage DEF StagesFit, Deleting
    <2> QED
      BY <1>2, <1>3, <2>1, <2>2, <2>3, <2>4, RowRead
  <1> QED
    BY <1>4, <1>5

\* It is written on the row that was judged, or read again.
LEMMA SetVerificationSealKeeps ==
    ASSUME MaInv, NEW a \in Actors, SetVerificationSeal(a)
    PROVE  MaInv'
  <1>1. got \in GotRows /\ act[a] \in MaActs
    BY MaParts
  <1>2. act[a].pc = "write" /\ act[a].op = "seal" /\ MaUnch /\ UNCHANGED <<receipts, maGhost>>
    BY DEF SetVerificationSeal
  <1>3. ReadIdle(act[a]) /\ DeliveryIdle(act[a]) /\ ~Recalling(act[a])
    BY <1>2, IdleStage
  <1>4. CASE Fresh(a)
    <2> DEFINE row == [got EXCEPT !.seal = act[a].arg, !.sealGen = act[a].gen]
    <2>1. act[a].arg \in ActArgs /\ act[a].gen \in Nat
      BY <1>1 DEF MaActs
    <2>2. row \in GotRows /\ row.rr = got.rr /\ row.dr = got.dr /\ row.read = got.read
      BY <1>1, <2>1 DEF GotRows
    <2>3. Written(row) /\ ActEnds(a)
      BY <1>4 DEF SetVerificationSeal
    <2> HIDE DEF row
    <2>4. got' \in GotRows /\ GotMoves(got, got') /\ SameReceipts(got, got')
      BY <1>1, <2>2, <2>3, WrittenIs DEF GotMoves, SameReceipts
    <2> QED
      BY <1>2, <1>3, <2>3, <2>4, RowEnds
  <1>5. CASE ~Fresh(a)
    BY <1>2, <1>3, <1>5, AgainKeeps DEF SetVerificationSeal
  <1> QED
    BY <1>4, <1>5

\* A recall goes on with a message that is unread.
LEMMA ProcessRecallKeeps ==
    ASSUME MaInv, NEW a \in Actors, ProcessRecall(a)
    PROVE  MaInv'
  <1>1. act[a] \in MaActs /\ got \in GotRows /\ Seen(got) \in SeenRows
    BY MaParts, SeenIs
  <1>2. act[a].pc = "read" /\ act[a].op = "recall" /\ MaUnch /\ UNCHANGED <<got, receipts, maGhost>>
    BY DEF ProcessRecall
  <1>3. ReadIdle(act[a]) /\ DeliveryIdle(act[a]) /\ ~Recalling(act[a])
    BY <1>2, IdleStage
  <1>4. CASE ~StillUnread(a)
    BY <1>2, <1>3, <1>4, RowReadEnds DEF ProcessRecall, ActEnds
  <1>5. CASE StillUnread(a)
    <2> DEFINE v == Seen(got)
               n == [act[a] EXCEPT !.pc = "lock", !.seen = v]
    <2>1. act' = [act EXCEPT ![a] = n] /\ "lock" \in ActStages
      BY <1>5 DEF ProcessRecall, ActStages
    <2>2. /\ n \in MaActs /\ n.pc = "lock" /\ n.op = act[a].op /\ n.seen = Seen(got) /\ n.sent = act[a].sent
          /\ n.lists = act[a].lists
      <3>1. v \in SeenRows /\ v = Seen(got)
        BY <1>1
      <3> HIDE DEF v
      <3> QED
        BY <1>1, <2>1, <3>1 DEF MaActs
    <2> HIDE DEF n
    <2>3. GotFits(n, got)
      BY <1>1, <1>2, <1>5, <2>2, StaleRead DEF StillUnread
    <2>4. StagesFit(n) /\ ~Deleting(n) /\ ReadIdle(n) /\ DeliveryIdle(n)
      BY <1>2, <2>2, IdleStage DEF StagesFit, Deleting
    <2> QED
      BY <1>2, <1>3, <2>1, <2>2, <2>3, <2>4, RowRead
  <1> QED
    BY <1>4, <1>5

--------------------------------------------------------------------------------
\* A step that concerns the read receipt.
LEMMA ReadSide ==
    ASSUME MaInv, NEW a \in Actors, NEW n \in MaActs, act' = [act EXCEPT ![a] = n], got'.dr = got.dr,
        receipts'.delivery = receipts.delivery,
           maGhost.double => maGhost'.double, DeliveryIdle(act[a]), DeliveryIdle(n),
           ~maGhost'.double => OnceFor(act', "mark_read", "approve_read", got'.rr, receipts'.read)
    PROVE  OnceInv'
  <1>1. MaTypeOK /\ OnceInv
    BY MaParts
  <1>2. act'[a] = n /\ \A b \in Actors \ {a} : act'[b] = act[b]
    BY <1>1 DEF MaTypeOK
  <1>3. SUFFICES ASSUME ~maGhost'.double PROVE ReadOnce' /\ DeliveredOnce'
    BY DEF OnceInv
  <1>4. OnceFor(act, "deliver", "approve_delivery", got.dr, receipts.delivery)
    BY <1>1, <1>3 DEF OnceInv, ReadOnce, DeliveredOnce
  <1>5. ~Flying(act[a], "deliver", "approve_delivery") /\ ~Flying(act'[a], "deliver", "approve_delivery")
    BY <1>2 DEF DeliveryIdle
  <1>6. OnceFor(act', "deliver", "approve_delivery", got.dr, receipts.delivery)
    BY <1>2, <1>4, <1>5, OnceQuiet
  <1> QED
    BY <1>3, <1>6 DEF ReadOnce, DeliveredOnce

\* A step that concerns the delivery receipt.
LEMMA DeliverySide ==
    ASSUME MaInv, NEW a \in Actors, NEW n \in MaActs, act' = [act EXCEPT ![a] = n], got'.rr = got.rr,
        receipts'.read = receipts.read,
           maGhost.double => maGhost'.double, ReadIdle(act[a]), ReadIdle(n),
           ~maGhost'.double => OnceFor(act', "deliver", "approve_delivery", got'.dr, receipts'.delivery)
    PROVE  OnceInv'
  <1>1. MaTypeOK /\ OnceInv
    BY MaParts
  <1>2. act'[a] = n /\ \A b \in Actors \ {a} : act'[b] = act[b]
    BY <1>1 DEF MaTypeOK
  <1>3. SUFFICES ASSUME ~maGhost'.double PROVE ReadOnce' /\ DeliveredOnce'
    BY DEF OnceInv
  <1>4. OnceFor(act, "mark_read", "approve_read", got.rr, receipts.read)
    BY <1>1, <1>3 DEF OnceInv, ReadOnce, DeliveredOnce
  <1>5. ~Flying(act[a], "mark_read", "approve_read") /\ ~Flying(act'[a], "mark_read", "approve_read")
    BY <1>2 DEF ReadIdle
  <1>6. OnceFor(act', "mark_read", "approve_read", got.rr, receipts.read)
    BY <1>2, <1>4, <1>5, OnceQuiet
  <1> QED
    BY <1>3, <1>6 DEF ReadOnce, DeliveredOnce

\* One receipt after a step of the request that has to do with it, when no other has.
LEMMA OnceMoves ==
    ASSUME NEW a \in Actors, NEW n \in MaActs, MaTypeOK, act' = [act EXCEPT ![a] = n], NEW c, NEW p, NEW r, NEW k,
           \A b \in Actors \ {a} : ~Flying(act[b], c, p),
           Claiming(n, c) => r = "sent" /\ k = 0,
           Approving(n, p) => r \in {"pending", "declined"} /\ k = IF n.pc = "sent" THEN 1 ELSE 0,
           ~Flying(n, c, p) => k = 0 \/ (k = 1 /\ r = "sent")
    PROVE  OnceFor(act', c, p, r, k)
  <1>1. act'[a] = n /\ \A b \in Actors \ {a} : act'[b] = act[b]
    BY DEF MaTypeOK
  <1>2. \A b \in Actors \ {a} : ~Flying(act'[b], c, p)
    BY <1>1
  <1> QED
    BY <1>1, <1>2, OnceAlone

\* A step on a receipt.
LEMMA ReceiptMoves ==
    ASSUME MaInv, NEW a \in Actors, NEW n \in MaActs, act' = [act EXCEPT ![a] = n], MaUnch, receipts' \in [read : Nat,
        delivery : Nat],
           maGhost' \in MaGhosts, maGhost'.slipped = maGhost.slipped, maGhost'.opened = maGhost.opened,
           got' \in GotRows, GotMoves(got, got'), got'.read = got.read, GotFits(n, got'), StagesFit(n), SentFits(n,
               sentMsg), ListFits(n, lists),
           OnceInv', ~Recalling(act[a]), ~Recalling(n), ~Deleting(n)
    PROVE  MaInv'
  <1>1. MaTypeOK /\ RecalledUnread
    BY MaParts
  <1>2. NoticeOnce'
    BY NoticeQuiet DEF MaUnch
  <1>3. SlipSeen'
    BY SlipQuiet
  <1>4. RecalledUnread'
    BY <1>1 DEF RecalledUnread
  <1> QED
    BY <1>1, <1>2, <1>3, <1>4, ActMoves DEF MaUnch, MaTypeOK

\* The same, when the request ends.
LEMMA ReceiptEnds ==
    ASSUME MaInv, NEW a \in Actors, ActEnds(a), MaUnch, receipts' \in [read : Nat, delivery : Nat],
           maGhost' \in MaGhosts, maGhost'.slipped = maGhost.slipped, maGhost'.opened = maGhost.opened,
           got' \in GotRows, GotMoves(got, got'), got'.read = got.read, OnceInv', ~Recalling(act[a])
    PROVE  MaInv'
  BY NoActOfNow, NoActIdle, ReceiptMoves DEF ActEnds

\* What is on record of the receipts.
LEMMA Recorded ==
    ASSUME MaInv, ~maGhost.double
    PROVE  /\ OnceFor(act, "mark_read", "approve_read", got.rr, receipts.read)
           /\ OnceFor(act, "deliver", "approve_delivery", got.dr, receipts.delivery)
  BY DEF MaInv, OnceInv, ReadOnce, DeliveredOnce

\* One that may send the read receipt is the only one; nothing went out before.
LEMMA ReadClaim ==
    ASSUME MaInv, NEW a \in Actors, Claiming(act[a], "mark_read"), ~maGhost.double
    PROVE  got.rr = "sent" /\ receipts.read = 0 /\ \A b \in Actors \ {a} : ~Flying(act[b], "mark_read", "approve_read")
  <1>1. OnceFor(act, "mark_read", "approve_read", got.rr, receipts.read) /\ Flying(act[a], "mark_read", "approve_read")
    BY Recorded DEF Flying
  <1> QED
    BY <1>1, OnceOthers DEF OnceFor

\* The same of an approval.
LEMMA ReadApproval ==
    ASSUME MaInv, NEW a \in Actors, Approving(act[a], "approve_read"), ~maGhost.double
    PROVE  /\ got.rr \in {"pending", "declined"} /\ receipts.read = IF act[a].pc = "sent" THEN 1 ELSE 0
           /\ \A b \in Actors \ {a} : ~Flying(act[b], "mark_read", "approve_read")
  <1>1. OnceFor(act, "mark_read", "approve_read", got.rr, receipts.read) /\ Flying(act[a], "mark_read", "approve_read")
    BY Recorded DEF Flying
  <1> QED
    BY <1>1, OnceOthers DEF OnceFor

\* One that may send the delivery receipt is the only one; nothing went out before.
LEMMA DeliveryClaim ==
    ASSUME MaInv, NEW a \in Actors, Claiming(act[a], "deliver"), ~maGhost.double
    PROVE  got.dr = "sent" /\ receipts.delivery = 0 /\ \A b \in Actors \ {a} : ~Flying(act[b], "deliver", "approve_delivery")
  <1>1. /\ OnceFor(act, "deliver", "approve_delivery", got.dr, receipts.delivery)
        /\ Flying(act[a], "deliver", "approve_delivery")
    BY Recorded DEF Flying
  <1> QED
    BY <1>1, OnceOthers DEF OnceFor

\* The same of an approval.
LEMMA DeliveryApproval ==
    ASSUME MaInv, NEW a \in Actors, Approving(act[a], "approve_delivery"), ~maGhost.double
    PROVE  /\ got.dr \in {"pending", "declined"} /\ receipts.delivery = IF act[a].pc = "sent" THEN 1 ELSE 0
           /\ \A b \in Actors \ {a} : ~Flying(act[b], "deliver", "approve_delivery")
  <1>1. /\ OnceFor(act, "deliver", "approve_delivery", got.dr, receipts.delivery)
        /\ Flying(act[a], "deliver", "approve_delivery")
    BY Recorded DEF Flying
  <1> QED
    BY <1>1, OnceOthers DEF OnceFor

\* A step of one that may send the read receipt, when no other may.
LEMMA ReadGoes ==
    ASSUME MaInv, NEW a \in Actors, NEW n \in MaActs, act' = [act EXCEPT ![a] = n], MaUnch, receipts' \in [read : Nat,
        delivery : Nat],
           maGhost' \in MaGhosts, maGhost'.slipped = maGhost.slipped, maGhost'.opened = maGhost.opened, maGhost.double
               => maGhost'.double,
           got' \in GotRows, GotMoves(got, got'), got'.read = got.read, got'.dr = got.dr,
               receipts'.delivery = receipts.delivery,
           GotFits(n, got'), n.sent = act[a].sent, n.lists = act[a].lists,
           DeliveryIdle(act[a]), ~Recalling(act[a]),
           \/ n.op = "mark_read" /\ n.pc \in {"mail", "reread", "release"} /\ (n.pc = "reread" => n.op = "deliver")
           \/ n.op = "approve_read" /\ n.pc \in {"mail", "sent", "unsent"},
           ~maGhost'.double =>
              /\ \A b \in Actors \ {a} : ~Flying(act[b], "mark_read", "approve_read")
              /\ Claiming(n, "mark_read") => got'.rr = "sent" /\ receipts'.read = 0
              /\ Approving(n, "approve_read") => got'.rr \in {"pending",
                  "declined"} /\ receipts'.read = IF n.pc = "sent" THEN 1 ELSE 0
    PROVE  MaInv'
  <1>1. MaTypeOK /\ SentFits(act[a], sentMsg) /\ ListFits(act[a], lists)
    BY MaParts
  <1>2. SentFits(n, sentMsg) /\ ListFits(n, lists) /\ StagesFit(n)
    BY <1>1 DEF SentFits, ListFits, StagesFit
  <1>3. ~Deleting(n) /\ ~Recalling(n) /\ DeliveryIdle(n) /\ Flying(n, "mark_read", "approve_read")
    BY DEF Deleting, Recalling, DeliveryIdle, Flying, Claiming, Approving
  <1>4. ASSUME ~maGhost'.double PROVE OnceFor(act', "mark_read", "approve_read", got'.rr, receipts'.read)
    BY <1>1, <1>3, <1>4, OnceMoves
  <1>5. OnceInv'
    BY <1>3, <1>4, ReadSide
  <1> QED
    BY <1>2, <1>3, <1>5, ReceiptMoves

\* It ends.
LEMMA ReadEnds ==
    ASSUME MaInv, NEW a \in Actors, ActEnds(a), MaUnch, receipts' \in [read : Nat, delivery : Nat],
           maGhost' \in MaGhosts, maGhost'.slipped = maGhost.slipped, maGhost'.opened = maGhost.opened, maGhost.double
               => maGhost'.double,
           got' \in GotRows, GotMoves(got, got'), got'.read = got.read, got'.dr = got.dr,
               receipts'.delivery = receipts.delivery,
           DeliveryIdle(act[a]), ~Recalling(act[a]),
           ~maGhost'.double =>
              /\ \A b \in Actors \ {a} : ~Flying(act[b], "mark_read", "approve_read")
              /\ receipts'.read = 0 \/ (receipts'.read = 1 /\ got'.rr = "sent")
    PROVE  MaInv'
  <1>1. MaTypeOK
    BY MaParts
  <1>2. act' = [act EXCEPT ![a] = NoAct] /\ NoAct \in MaActs
    BY NoActType DEF ActEnds
  <1>3. ~Claiming(NoAct, "mark_read") /\ ~Approving(NoAct, "approve_read")
    BY NoActIs DEF Claiming, Approving
  <1>4. ASSUME ~maGhost'.double PROVE OnceFor(act', "mark_read", "approve_read", got'.rr, receipts'.read)
    BY <1>1, <1>2, <1>3, <1>4, OnceMoves
  <1>5. OnceInv'
    BY <1>2, <1>4, NoActIdle, ReadSide
  <1> QED
    BY <1>5, ReceiptEnds

\* A step of one that may send the delivery receipt, when no other may.
LEMMA DeliveryGoes ==
    ASSUME MaInv, NEW a \in Actors, NEW n \in MaActs, act' = [act EXCEPT ![a] = n], MaUnch, receipts' \in [read : Nat,
        delivery : Nat],
           maGhost' \in MaGhosts, maGhost'.slipped = maGhost.slipped, maGhost'.opened = maGhost.opened, maGhost.double
               => maGhost'.double,
           got' \in GotRows, GotMoves(got, got'), got'.read = got.read, got'.rr = got.rr, receipts'.read = receipts.read,
           GotFits(n, got'), n.sent = act[a].sent, n.lists = act[a].lists,
           ReadIdle(act[a]), ~Recalling(act[a]),
           \/ n.op = "deliver" /\ n.pc \in {"mail", "reread", "release"} /\ (n.pc = "reread" => n.op = "deliver")
           \/ n.op = "approve_delivery" /\ n.pc \in {"mail", "sent", "unsent"},
           ~maGhost'.double =>
              /\ \A b \in Actors \ {a} : ~Flying(act[b], "deliver", "approve_delivery")
              /\ Claiming(n, "deliver") => got'.dr = "sent" /\ receipts'.delivery = 0
              /\ Approving(n, "approve_delivery") => got'.dr \in {"pending",
                  "declined"} /\ receipts'.delivery = IF n.pc = "sent" THEN 1 ELSE 0
    PROVE  MaInv'
  <1>1. MaTypeOK /\ SentFits(act[a], sentMsg) /\ ListFits(act[a], lists)
    BY MaParts
  <1>2. SentFits(n, sentMsg) /\ ListFits(n, lists) /\ StagesFit(n)
    BY <1>1 DEF SentFits, ListFits, StagesFit
  <1>3. ~Deleting(n) /\ ~Recalling(n) /\ ReadIdle(n) /\ Flying(n, "deliver", "approve_delivery")
    BY DEF Deleting, Recalling, ReadIdle, Flying, Claiming, Approving
  <1>4. ASSUME ~maGhost'.double PROVE OnceFor(act', "deliver", "approve_delivery", got'.dr, receipts'.delivery)
    BY <1>1, <1>3, <1>4, OnceMoves
  <1>5. OnceInv'
    BY <1>3, <1>4, DeliverySide
  <1> QED
    BY <1>2, <1>3, <1>5, ReceiptMoves

\* It ends.
LEMMA DeliveryEnds ==
    ASSUME MaInv, NEW a \in Actors, ActEnds(a), MaUnch, receipts' \in [read : Nat, delivery : Nat],
           maGhost' \in MaGhosts, maGhost'.slipped = maGhost.slipped, maGhost'.opened = maGhost.opened, maGhost.double
               => maGhost'.double,
           got' \in GotRows, GotMoves(got, got'), got'.read = got.read, got'.rr = got.rr, receipts'.read = receipts.read,
           ReadIdle(act[a]), ~Recalling(act[a]),
           ~maGhost'.double =>
              /\ \A b \in Actors \ {a} : ~Flying(act[b], "deliver", "approve_delivery")
              /\ receipts'.delivery = 0 \/ (receipts'.delivery = 1 /\ got'.dr = "sent")
    PROVE  MaInv'
  <1>1. MaTypeOK
    BY MaParts
  <1>2. act' = [act EXCEPT ![a] = NoAct] /\ NoAct \in MaActs
    BY NoActType DEF ActEnds
  <1>3. ~Claiming(NoAct, "deliver") /\ ~Approving(NoAct, "approve_delivery")
    BY NoActIs DEF Claiming, Approving
  <1>4. ASSUME ~maGhost'.double PROVE OnceFor(act', "deliver", "approve_delivery", got'.dr, receipts'.delivery)
    BY <1>1, <1>2, <1>3, <1>4, OnceMoves
  <1>5. OnceInv'
    BY <1>2, <1>4, NoActIdle, DeliverySide
  <1> QED
    BY <1>5, ReceiptEnds

\* maybeSendReadReceipt(): nothing was on record, so nobody has sent it or is about to; it is held, or claimed.
LEMMA MaybeSendReadReceiptKeeps ==
    ASSUME MaInv, NEW a \in Actors, MaybeSendReadReceipt(a)
    PROVE  MaInv'
  <1>1. /\ act[a] \in MaActs /\ got \in GotRows /\ GotFits(act[a], got) /\ StagesFit(act[a]) /\ MaTypeOK
        /\ receipts \in [read : Nat, delivery : Nat] /\ maGhost \in MaGhosts
    BY MaParts
  <1>2. act[a].pc = "decide" /\ act[a].op = "mark_read" /\ MaUnch /\ UNCHANGED <<receipts, maGhost>>
    BY <1>1 DEF MaybeSendReadReceipt, StagesFit
  <1>3. ReadIdle(act[a]) /\ DeliveryIdle(act[a]) /\ ~Recalling(act[a])
    BY <1>2, IdleStage
  <1>4. CASE ~Fresh(a)
    BY <1>2, <1>3, <1>4, RowReadEnds DEF MaybeSendReadReceipt
  <1>5. CASE Fresh(a)
    <2>1. got.rr = "none"
      BY <1>1, <1>2, <1>5 DEF GotFits, Fresh
    <2>2. ~maGhost'.double => receipts'.read = 0 /\ \A b \in Actors : ~Flying(act[b], "mark_read", "approve_read")
      BY <1>2, <2>1, Recorded, OnceNone
    <2>3. CASE Written([got EXCEPT !.rr = "pending"]) /\ ActEnds(a)
      <3> DEFINE row == [got EXCEPT !.rr = "pending"]
      <3>1. row \in GotRows /\ row.rr = "pending" /\ row.dr = got.dr /\ row.read = got.read
        BY <1>1 DEF GotRows, Receipts
      <3>2. Written(row)
        BY <2>3
      <3> HIDE DEF row
      <3>3. got' \in GotRows /\ GotMoves(got, got') /\ got'.dr = got.dr /\ got'.read = got.read
        BY <1>1, <3>1, <3>2, WrittenIs DEF GotMoves
      <3> QED
        BY <1>1, <1>2, <1>3, <2>2, <2>3, <3>3, ReadEnds
    <2>4. CASE /\ Written([got EXCEPT !.rr = "sent"])
               /\ act' = [act EXCEPT ![a].pc = "mail", ![a].seen = Seen(got')]
      <3> DEFINE row == [got EXCEPT !.rr = "sent"]
                 v == Seen(got')
                 n == [act[a] EXCEPT !.pc = "mail", !.seen = v]
      <3>1. row \in GotRows /\ row.rr = "sent" /\ row.dr = got.dr /\ row.read = got.read
        BY <1>1 DEF GotRows, Receipts
      <3>2. Written(row)
        BY <2>4
      <3> HIDE DEF row
      <3>3. got' \in GotRows /\ GotMoves(got, got') /\ got'.dr = got.dr /\ got'.read = got.read /\ got'.rr = "sent"
        BY <1>1, <3>1, <3>2, WrittenIs DEF GotMoves
      <3>4. act' = [act EXCEPT ![a] = n]
        BY <1>1, <2>4 DEF MaTypeOK
      <3>5. v \in SeenRows /\ v = Seen(got')
        BY <3>3, SeenIs
      <3> HIDE DEF v
      <3>6. /\ n \in MaActs /\ n.pc = "mail" /\ n.op = "mark_read" /\ n.seen = Seen(got')
            /\ n.sent = act[a].sent /\ n.lists = act[a].lists
        BY <1>1, <1>2, <3>5 DEF MaActs, ActStages
      <3> HIDE DEF n
      <3>7. GotFits(n, got') /\ ~Approving(n, "approve_read")
        BY <3>3, <3>6, StaleRead DEF Approving
      <3> QED
        BY <1>1, <1>2, <1>3, <2>2, <3>3, <3>4, <3>6, <3>7, ReadGoes
    <2> QED
      BY <1>5, <2>3, <2>4 DEF MaybeSendReadReceipt
  <1> QED
    BY <1>4, <1>5

\* The receipt claimed goes out, or its claim is to be taken back.
LEMMA SendReadReceiptKeeps ==
    ASSUME MaInv, NEW a \in Actors, SendReadReceipt(a)
    PROVE  MaInv'
  <1>1. /\ act[a] \in MaActs /\ got \in GotRows /\ GotFits(act[a], got) /\ StagesFit(act[a]) /\ MaTypeOK
        /\ receipts \in [read : Nat, delivery : Nat] /\ maGhost \in MaGhosts
    BY MaParts
  <1>2. act[a].pc = "mail" /\ act[a].op = "mark_read" /\ MaUnch /\ UNCHANGED <<got, maGhost>>
    BY DEF SendReadReceipt
  <1>3. DeliveryIdle(act[a]) /\ ~Recalling(act[a]) /\ Claiming(act[a], "mark_read")
    BY <1>2 DEF DeliveryIdle, Recalling, Flying, Claiming, Approving
  <1>4. ~maGhost'.double => /\ got'.rr = "sent" /\ receipts.read = 0
                            /\ \A b \in Actors \ {a} : ~Flying(act[b], "mark_read", "approve_read")
    BY <1>2, <1>3, ReadClaim
  <1>5. GotMoves(got, got') /\ got' \in GotRows
    BY <1>1, <1>2 DEF GotMoves
  <1>6. CASE receipts' = [receipts EXCEPT !.read = @ + 1] /\ ActEnds(a)
    <2>1. /\ receipts' \in [read : Nat, delivery : Nat] /\ receipts'.read = receipts.read + 1
          /\ receipts'.delivery = receipts.delivery
      BY <1>1, <1>6
    <2>2. ~maGhost'.double => receipts'.read = 1
      BY <1>4, <2>1
    <2> QED
      BY <1>1, <1>2, <1>3, <1>4, <1>5, <1>6, <2>1, <2>2, ReadEnds
  <1>7. CASE ActGoes(a, "release") /\ UNCHANGED receipts
    <2> DEFINE n == [act[a] EXCEPT !.pc = "release"]
    <2>1. act' = [act EXCEPT ![a] = n] /\ "release" \in ActStages
      BY <1>7 DEF ActGoes, ActStages
    <2>2. /\ n \in MaActs /\ n.pc = "release" /\ n.op = "mark_read" /\ n.seen = act[a].seen
          /\ n.sent = act[a].sent /\ n.lists = act[a].lists
      BY <1>1, <1>2, <2>1, StageType
    <2> HIDE DEF n
    <2>3. GotFits(n, got') /\ ~Approving(n, "approve_read")
      BY <1>1, <1>2, <2>2 DEF GotFits, Approving
    <2> QED
      BY <1>1, <1>2, <1>3, <1>4, <1>5, <1>7, <2>1, <2>2, <2>3, ReadGoes
  <1> QED
    BY <1>6, <1>7 DEF SendReadReceipt

\* The claim taken back, or left: nothing went out.
LEMMA ReleaseReadClaimKeeps ==
    ASSUME MaInv, NEW a \in Actors, ReleaseReadClaim(a)
    PROVE  MaInv'
  <1>1. /\ act[a] \in MaActs /\ got \in GotRows /\ GotFits(act[a], got) /\ StagesFit(act[a]) /\ MaTypeOK
        /\ receipts \in [read : Nat, delivery : Nat] /\ maGhost \in MaGhosts
    BY MaParts
  <1>2. act[a].pc = "release" /\ act[a].op = "mark_read" /\ ActEnds(a) /\ MaUnch /\ UNCHANGED <<receipts, maGhost>>
    BY DEF ReleaseReadClaim
  <1>3. DeliveryIdle(act[a]) /\ ~Recalling(act[a]) /\ Claiming(act[a], "mark_read")
    BY <1>2 DEF DeliveryIdle, Recalling, Flying, Claiming, Approving
  <1>4. ~maGhost'.double => receipts'.read = 0 /\ \A b \in Actors \ {a} : ~Flying(act[b], "mark_read", "approve_read")
    BY <1>2, <1>3, ReadClaim
  <1> DEFINE row == [got EXCEPT !.rr = "none"]
  <1>5. row \in GotRows /\ row.dr = got.dr /\ row.read = got.read
    BY <1>1 DEF GotRows, Receipts
  <1>6. Written(row) \/ UNCHANGED got
    BY DEF ReleaseReadClaim
  <1> HIDE DEF row
  <1>7. got' \in GotRows /\ GotMoves(got, got') /\ got'.dr = got.dr /\ got'.read = got.read
    BY <1>1, <1>5, <1>6, WrittenIs DEF GotMoves
  <1> QED
    BY <1>1, <1>2, <1>3, <1>4, <1>7, ReadEnds

\* An approval of what is pending is the only one, unless it crosses another; a decline concerns nobody yet.
LEMMA RequirePendingReceiptKeeps ==
    ASSUME MaInv, NEW a \in Actors, RequirePendingReceipt(a)
    PROVE  MaInv'
  <1>1. /\ act[a] \in MaActs /\ got \in GotRows /\ GotFits(act[a], got) /\ StagesFit(act[a]) /\ MaTypeOK
        /\ receipts \in [read : Nat, delivery : Nat] /\ maGhost \in MaGhosts
    BY MaParts
  <1>2. /\ act[a].pc = "read" /\ act[a].op \in {"approve_read", "approve_delivery", "decline_read"} /\ MaUnch
        /\ UNCHANGED <<got, receipts>>
    BY DEF RequirePendingReceipt
  <1>3. ReadIdle(act[a]) /\ DeliveryIdle(act[a]) /\ ~Recalling(act[a])
    BY <1>2, IdleStage
  <1>4. /\ maGhost' \in MaGhosts /\ maGhost'.slipped = maGhost.slipped /\ maGhost'.opened = maGhost.opened
        /\ maGhost.double => maGhost'.double
        /\ ~maGhost'.double => \A b \in Actors \ {a} : ~(act[b].op = act[a].op /\ act[b].pc \in {"mail", "sent", "unsent"})
    <2> DEFINE d == maGhost.double \/ \E b \in Actors \ {a} : act[b].op = act[a].op /\ act[b].pc \in {"mail", "sent",
            "unsent"}
    <2>1. maGhost' = [maGhost EXCEPT !.double = d] /\ d \in BOOLEAN
      BY DEF RequirePendingReceipt
    <2>2. /\ maGhost.double => d
          /\ ~d => \A b \in Actors \ {a} : ~(act[b].op = act[a].op /\ act[b].pc \in {"mail", "sent", "unsent"})
      OBVIOUS
    <2> HIDE DEF d
    <2>3. /\ maGhost' \in MaGhosts /\ maGhost'.slipped = maGhost.slipped /\ maGhost'.opened = maGhost.opened
          /\ maGhost'.double = d
      BY <1>1, <2>1 DEF MaGhosts
    <2> QED
      BY <2>2, <2>3
  <1>5. got' \in GotRows /\ GotMoves(got, got') /\ receipts' \in [read : Nat, delivery : Nat]
    BY <1>1, <1>2 DEF GotMoves
  <1>6. CASE act' = [act EXCEPT ![a] = NoAct]
    <2>1. OnceInv'
      BY <1>2, <1>3, <1>4, <1>6, NoActType, NoActIdle, OnceInvQuiet
    <2> QED
      BY <1>2, <1>3, <1>4, <1>5, <1>6, <2>1, ReceiptEnds DEF ActEnds
  <1>7. CASE act[a].op = "decline_read" /\ got.rr = "pending" /\ ~got.gone
    <2> DEFINE v == Seen(got)
               n == [act[a] EXCEPT !.pc = "write", !.seen = v]
    <2>1. act' = [act EXCEPT ![a] = n]
      BY <1>7 DEF RequirePendingReceipt
    <2>2. v \in SeenRows /\ v = Seen(got)
      BY <1>1, SeenIs
    <2> HIDE DEF v
    <2>3. /\ n \in MaActs /\ n.pc = "write" /\ n.op = "decline_read" /\ n.seen = Seen(got)
          /\ n.sent = act[a].sent /\ n.lists = act[a].lists
      BY <1>1, <1>7, <2>2 DEF MaActs, ActStages
    <2> HIDE DEF n
    <2>4. GotFits(n, got')
      BY <1>1, <1>2, <1>7, <2>3, StaleRead
    <2>5. StagesFit(n) /\ ~Deleting(n) /\ ReadIdle(n) /\ DeliveryIdle(n) /\ ~Recalling(n)
      BY <2>3, IdleStage DEF StagesFit, Deleting
    <2>6. SentFits(n, sentMsg) /\ ListFits(n, lists)
      BY <2>3, MaParts DEF SentFits, ListFits
    <2>7. OnceInv'
      BY <1>2, <1>3, <1>4, <2>1, <2>3, <2>5, OnceInvQuiet
    <2> QED
      BY <1>2, <1>3, <1>4, <1>5, <2>1, <2>3, <2>4, <2>5, <2>6, <2>7, ReceiptMoves
  <1>8. CASE act[a].op = "approve_read" /\ got.rr = "pending" /\ ~got.gone
    <2> DEFINE v == Seen(got)
               n == [act[a] EXCEPT !.pc = "mail", !.seen = v]
    <2>1. act' = [act EXCEPT ![a] = n]
      BY <1>8 DEF RequirePendingReceipt
    <2>2. v \in SeenRows /\ v = Seen(got)
      BY <1>1, SeenIs
    <2> HIDE DEF v
    <2>3. /\ n \in MaActs /\ n.pc = "mail" /\ n.op = "approve_read" /\ n.seen = Seen(got)
          /\ n.sent = act[a].sent /\ n.lists = act[a].lists
      BY <1>1, <1>8, <2>2 DEF MaActs, ActStages
    <2> HIDE DEF n
    <2>4. GotFits(n, got') /\ ~Claiming(n, "mark_read")
      BY <1>1, <1>2, <1>8, <2>3, StaleRead DEF Claiming
    <2>5. ASSUME ~maGhost'.double PROVE receipts'.read = 0 /\ \A b \in Actors : ~Flying(act[b], "mark_read", "approve_read")
      <3>1. \A b \in Actors : ~Approving(act[b], "approve_read")
        BY <1>2, <1>4, <1>8, <2>5 DEF Approving
      <3>2. OnceFor(act, "mark_read", "approve_read", "pending", receipts.read)
        BY <1>4, <1>8, <2>5, Recorded
      <3> QED
        BY <1>2, <3>1, <3>2, OncePending
    <2> QED
      BY <1>1, <1>2, <1>3, <1>4, <1>5, <1>8, <2>1, <2>3, <2>4, <2>5, ReadGoes
  <1>9. CASE act[a].op = "approve_delivery" /\ got.dr = "pending" /\ ~got.gone
    <2> DEFINE v == Seen(got)
               n == [act[a] EXCEPT !.pc = "mail", !.seen = v]
    <2>1. act' = [act EXCEPT ![a] = n]
      BY <1>9 DEF RequirePendingReceipt
    <2>2. v \in SeenRows /\ v = Seen(got)
      BY <1>1, SeenIs
    <2> HIDE DEF v
    <2>3. /\ n \in MaActs /\ n.pc = "mail" /\ n.op = "approve_delivery" /\ n.seen = Seen(got)
          /\ n.sent = act[a].sent /\ n.lists = act[a].lists
      BY <1>1, <1>9, <2>2 DEF MaActs, ActStages
    <2> HIDE DEF n
    <2>4. GotFits(n, got') /\ ~Claiming(n, "deliver")
      BY <1>1, <1>2, <1>9, <2>3, StaleRead DEF Claiming
    <2>5. ASSUME ~maGhost'.double PROVE receipts'.delivery = 0 /\ \A b \in Actors : ~Flying(act[b], "deliver",
              "approve_delivery")
      <3>1. \A b \in Actors : ~Approving(act[b], "approve_delivery")
        BY <1>2, <1>4, <1>9, <2>5 DEF Approving
      <3>2. OnceFor(act, "deliver", "approve_delivery", "pending", receipts.delivery)
        BY <1>4, <1>9, <2>5, Recorded
      <3> QED
        BY <1>2, <3>1, <3>2, OncePending
    <2> QED
      BY <1>1, <1>2, <1>3, <1>4, <1>5, <1>9, <2>1, <2>3, <2>4, <2>5, DeliveryGoes
  <1> QED
    BY <1>2, <1>6, <1>7, <1>8, <1>9 DEF RequirePendingReceipt

\* The approval sends it, or fails to.
LEMMA ApproveSendsKeeps ==
    ASSUME MaInv, NEW a \in Actors, ApproveSends(a)
    PROVE  MaInv'
  <1>1. /\ act[a] \in MaActs /\ got \in GotRows /\ GotFits(act[a], got) /\ StagesFit(act[a]) /\ MaTypeOK
        /\ receipts \in [read : Nat, delivery : Nat] /\ maGhost \in MaGhosts
    BY MaParts
  <1>2. act[a].pc = "mail" /\ act[a].op \in {"approve_read", "approve_delivery"} /\ MaUnch /\ UNCHANGED <<got, maGhost>>
    BY DEF ApproveSends
  <1>5. got' \in GotRows /\ GotMoves(got, got')
    BY <1>1, <1>2 DEF GotMoves
  <1>6. CASE act[a].op = "approve_read"
    <2>1. DeliveryIdle(act[a]) /\ ~Recalling(act[a]) /\ Approving(act[a], "approve_read")
      BY <1>2, <1>6 DEF DeliveryIdle, Recalling, Flying, Claiming, Approving
    <2>2. ~maGhost.double => /\ got.rr \in {"pending", "declined"} /\ receipts.read = 0
                             /\ \A b \in Actors \ {a} : ~Flying(act[b], "mark_read", "approve_read")
      BY <1>2, <2>1, ReadApproval
    <2>3. PICK p \in {"sent", "unsent"} :
             /\ ActGoes(a, p)
             /\ receipts' = IF p = "sent" THEN [receipts EXCEPT !.read = @ + 1] ELSE receipts
      BY <1>6 DEF ApproveSends
    <2> DEFINE n == [act[a] EXCEPT !.pc = p]
    <2>4. act' = [act EXCEPT ![a] = n] /\ p \in ActStages
      BY <2>3 DEF ActGoes, ActStages
    <2>5. /\ n \in MaActs /\ n.pc = p /\ n.op = "approve_read" /\ n.seen = act[a].seen /\ n.sent = act[a].sent
          /\ n.lists = act[a].lists
      BY <1>1, <1>6, <2>4, StageType
    <2> HIDE DEF n
    <2>6. GotFits(n, got') /\ ~Claiming(n, "mark_read")
      BY <1>1, <1>2, <1>6, <2>3, <2>5 DEF GotFits, Claiming
    <2>7. /\ receipts' \in [read : Nat, delivery : Nat] /\ receipts'.delivery = receipts.delivery
          /\ receipts'.read = IF p = "sent" THEN receipts.read + 1 ELSE receipts.read
      BY <1>1, <2>3
    <2>8. ~maGhost'.double => /\ got'.rr \in {"pending", "declined"} /\ receipts'.read = IF n.pc = "sent" THEN 1 ELSE 0
                              /\ \A b \in Actors \ {a} : ~Flying(act[b], "mark_read", "approve_read")
      BY <1>2, <2>2, <2>3, <2>5, <2>7
    <2> QED
      BY <1>1, <1>2, <1>5, <2>1, <2>3, <2>4, <2>5, <2>6, <2>7, <2>8, ReadGoes
  <1>7. CASE act[a].op = "approve_delivery"
    <2>1. ReadIdle(act[a]) /\ ~Recalling(act[a]) /\ Approving(act[a], "approve_delivery")
      BY <1>2, <1>7 DEF ReadIdle, Recalling, Flying, Claiming, Approving
    <2>2. ~maGhost.double => /\ got.dr \in {"pending", "declined"} /\ receipts.delivery = 0
                             /\ \A b \in Actors \ {a} : ~Flying(act[b], "deliver", "approve_delivery")
      BY <1>2, <2>1, DeliveryApproval
    <2>3. PICK p \in {"sent", "unsent"} :
             /\ ActGoes(a, p)
             /\ receipts' = IF p = "sent" THEN [receipts EXCEPT !.delivery = @ + 1] ELSE receipts
      BY <1>7 DEF ApproveSends
    <2> DEFINE n == [act[a] EXCEPT !.pc = p]
    <2>4. act' = [act EXCEPT ![a] = n] /\ p \in ActStages
      BY <2>3 DEF ActGoes, ActStages
    <2>5. /\ n \in MaActs /\ n.pc = p /\ n.op = "approve_delivery" /\ n.seen = act[a].seen
          /\ n.sent = act[a].sent /\ n.lists = act[a].lists
      BY <1>1, <1>7, <2>4, StageType
    <2> HIDE DEF n
    <2>6. GotFits(n, got') /\ ~Claiming(n, "deliver")
      BY <1>1, <1>2, <1>7, <2>3, <2>5 DEF GotFits, Claiming
    <2>7. /\ receipts' \in [read : Nat, delivery : Nat] /\ receipts'.read = receipts.read
          /\ receipts'.delivery = IF p = "sent" THEN receipts.delivery + 1 ELSE receipts.delivery
      BY <1>1, <2>3
    <2>8. ~maGhost'.double => /\ got'.dr \in {"pending", "declined"} /\ receipts'.delivery = IF n.pc = "sent" THEN 1 ELSE 0
                              /\ \A b \in Actors \ {a} : ~Flying(act[b], "deliver", "approve_delivery")
      BY <1>2, <2>2, <2>3, <2>5, <2>7
    <2> QED
      BY <1>1, <1>2, <1>5, <2>1, <2>3, <2>4, <2>5, <2>6, <2>7, <2>8, DeliveryGoes
  <1> QED
    BY <1>2, <1>6, <1>7

\* It records what happened; one that was sent and finds the row changed says so.
LEMMA ApproveRecordsKeeps ==
    ASSUME MaInv, NEW a \in Actors, ApproveRecords(a)
    PROVE  MaInv'
  <1>1. /\ act[a] \in MaActs /\ got \in GotRows /\ GotFits(act[a], got) /\ StagesFit(act[a]) /\ MaTypeOK
        /\ receipts \in [read : Nat, delivery : Nat] /\ maGhost \in MaGhosts
    BY MaParts
  <1>2. /\ act[a].pc \in {"sent", "unsent"} /\ act[a].op \in {"approve_read", "approve_delivery"} /\ ActEnds(a)
        /\ MaUnch /\ UNCHANGED receipts
    BY <1>1 DEF ApproveRecords, StagesFit
  <1>6. CASE act[a].op = "approve_read"
    <2>1. DeliveryIdle(act[a]) /\ ~Recalling(act[a]) /\ Approving(act[a], "approve_read")
      BY <1>2, <1>6 DEF DeliveryIdle, Recalling, Flying, Claiming, Approving
    <2>2. ~maGhost.double => /\ receipts.read = IF act[a].pc = "sent" THEN 1 ELSE 0
                             /\ \A b \in Actors \ {a} : ~Flying(act[b], "mark_read", "approve_read")
      BY <2>1, ReadApproval
    <2>3. CASE Fresh(a)
      <3> DEFINE to == IF act[a].pc = "sent" THEN "sent" ELSE "none"
                 row == [got EXCEPT !.rr = to]
      <3>1. to \in Receipts /\ (act[a].pc = "sent" => to = "sent")
        BY DEF Receipts
      <3>2. Written(row) /\ UNCHANGED maGhost
        BY <1>6, <2>3 DEF ApproveRecords
      <3> HIDE DEF to
      <3>3. row \in GotRows /\ row.rr = to /\ row.dr = got.dr /\ row.read = got.read
        BY <1>1, <3>1 DEF GotRows
      <3> HIDE DEF row
      <3>4. got' \in GotRows /\ GotMoves(got, got') /\ got'.rr = to /\ got'.dr = got.dr /\ got'.read = got.read
        BY <1>1, <3>2, <3>3, WrittenIs DEF GotMoves
      <3>5. ~maGhost'.double => /\ \A b \in Actors \ {a} : ~Flying(act[b], "mark_read", "approve_read")
                                /\ receipts'.read = 0 \/ (receipts'.read = 1 /\ got'.rr = "sent")
        BY <1>2, <2>2, <3>1, <3>2, <3>4
      <3> QED
        BY <1>1, <1>2, <2>1, <3>2, <3>4, <3>5, ReadEnds
    <2>4. CASE ~Fresh(a)
      <3>1. UNCHANGED got /\ got' \in GotRows /\ GotMoves(got, got')
        BY <1>1, <2>4 DEF ApproveRecords, GotMoves
      <3>2. /\ maGhost' \in MaGhosts /\ maGhost'.slipped = maGhost.slipped /\ maGhost'.opened = maGhost.opened
            /\ maGhost.double => maGhost'.double
            /\ ~maGhost'.double => act[a].pc # "sent"
        <4> DEFINE d == maGhost.double \/ act[a].pc = "sent"
        <4>1. maGhost' = [maGhost EXCEPT !.double = d] /\ d \in BOOLEAN
          BY <2>4 DEF ApproveRecords
        <4>2. (maGhost.double => d) /\ (~d => act[a].pc # "sent")
          OBVIOUS
        <4> HIDE DEF d
        <4>3. /\ maGhost' \in MaGhosts /\ maGhost'.slipped = maGhost.slipped
              /\ maGhost'.opened = maGhost.opened /\ maGhost'.double = d
          BY <1>1, <4>1 DEF MaGhosts
        <4> QED
          BY <4>2, <4>3
      <3>3. ~maGhost'.double => /\ \A b \in Actors \ {a} : ~Flying(act[b], "mark_read", "approve_read")
                                /\ receipts'.read = 0 \/ (receipts'.read = 1 /\ got'.rr = "sent")
        BY <1>2, <2>2, <3>2
      <3> QED
        BY <1>1, <1>2, <2>1, <3>1, <3>2, <3>3, ReadEnds
    <2> QED
      BY <2>3, <2>4
  <1>7. CASE act[a].op = "approve_delivery"
    <2>1. ReadIdle(act[a]) /\ ~Recalling(act[a]) /\ Approving(act[a], "approve_delivery")
      BY <1>2, <1>7 DEF ReadIdle, Recalling, Flying, Claiming, Approving
    <2>2. ~maGhost.double => /\ receipts.delivery = IF act[a].pc = "sent" THEN 1 ELSE 0
                             /\ \A b \in Actors \ {a} : ~Flying(act[b], "deliver", "approve_delivery")
      BY <2>1, DeliveryApproval
    <2>3. CASE Fresh(a)
      <3> DEFINE to == IF act[a].pc = "sent" THEN "sent" ELSE "none"
                 row == [got EXCEPT !.dr = to]
      <3>1. to \in Receipts /\ (act[a].pc = "sent" => to = "sent")
        BY DEF Receipts
      <3>2. Written(row) /\ UNCHANGED maGhost
        BY <1>7, <2>3 DEF ApproveRecords
      <3> HIDE DEF to
      <3>3. row \in GotRows /\ row.dr = to /\ row.rr = got.rr /\ row.read = got.read
        BY <1>1, <3>1 DEF GotRows
      <3> HIDE DEF row
      <3>4. got' \in GotRows /\ GotMoves(got, got') /\ got'.dr = to /\ got'.rr = got.rr /\ got'.read = got.read
        BY <1>1, <3>2, <3>3, WrittenIs DEF GotMoves
      <3>5. ~maGhost'.double => /\ \A b \in Actors \ {a} : ~Flying(act[b], "deliver", "approve_delivery")
                                /\ receipts'.delivery = 0 \/ (receipts'.delivery = 1 /\ got'.dr = "sent")
        BY <1>2, <2>2, <3>1, <3>2, <3>4
      <3> QED
        BY <1>1, <1>2, <2>1, <3>2, <3>4, <3>5, DeliveryEnds
    <2>4. CASE ~Fresh(a)
      <3>1. UNCHANGED got /\ got' \in GotRows /\ GotMoves(got, got')
        BY <1>1, <2>4 DEF ApproveRecords, GotMoves
      <3>2. /\ maGhost' \in MaGhosts /\ maGhost'.slipped = maGhost.slipped /\ maGhost'.opened = maGhost.opened
            /\ maGhost.double => maGhost'.double
            /\ ~maGhost'.double => act[a].pc # "sent"
        <4> DEFINE d == maGhost.double \/ act[a].pc = "sent"
        <4>1. maGhost' = [maGhost EXCEPT !.double = d] /\ d \in BOOLEAN
          BY <2>4 DEF ApproveRecords
        <4>2. (maGhost.double => d) /\ (~d => act[a].pc # "sent")
          OBVIOUS
        <4> HIDE DEF d
        <4>3. /\ maGhost' \in MaGhosts /\ maGhost'.slipped = maGhost.slipped
              /\ maGhost'.opened = maGhost.opened /\ maGhost'.double = d
          BY <1>1, <4>1 DEF MaGhosts
        <4> QED
          BY <4>2, <4>3
      <3>3. ~maGhost'.double => /\ \A b \in Actors \ {a} : ~Flying(act[b], "deliver", "approve_delivery")
                                /\ receipts'.delivery = 0 \/ (receipts'.delivery = 1 /\ got'.dr = "sent")
        BY <1>2, <2>2, <3>2
      <3> QED
        BY <1>1, <1>2, <2>1, <3>1, <3>2, <3>3, DeliveryEnds
    <2> QED
      BY <2>3, <2>4
  <1> QED
    BY <1>2, <1>6, <1>7

\* A decline, under an approval perhaps.
LEMMA DeclineReceiptKeeps ==
    ASSUME MaInv, NEW a \in Actors, DeclineReceipt(a)
    PROVE  MaInv'
  <1>1. /\ act[a] \in MaActs /\ got \in GotRows /\ GotFits(act[a], got) /\ StagesFit(act[a]) /\ MaTypeOK
        /\ receipts \in [read : Nat, delivery : Nat] /\ maGhost \in MaGhosts
    BY MaParts
  <1>2. act[a].pc = "write" /\ act[a].op = "decline_read" /\ ActEnds(a) /\ MaUnch /\ UNCHANGED <<receipts, maGhost>>
    BY DEF DeclineReceipt
  <1>3. ReadIdle(act[a]) /\ DeliveryIdle(act[a]) /\ ~Recalling(act[a])
    BY <1>2, IdleStage
  <1>4. CASE ~Fresh(a)
    BY <1>2, <1>3, <1>4, RowReadEnds DEF DeclineReceipt
  <1>5. CASE Fresh(a)
    <2> DEFINE row == [got EXCEPT !.rr = "declined"]
    <2>1. row \in GotRows /\ row.rr = "declined" /\ row.dr = got.dr /\ row.read = got.read
      BY <1>1 DEF GotRows, Receipts
    <2>2. Written(row) /\ got.rr = "pending"
      BY <1>1, <1>2, <1>5 DEF DeclineReceipt, GotFits, Fresh
    <2> HIDE DEF row
    <2>3. got' \in GotRows /\ GotMoves(got, got') /\ got'.rr = "declined" /\ got'.dr = got.dr /\ got'.read = got.read
      BY <1>1, <2>1, <2>2, WrittenIs DEF GotMoves
    <2>4. act' = [act EXCEPT ![a] = NoAct] /\ NoAct \in MaActs /\ act'[a] = NoAct /\ \A b \in Actors \ {a} : act'[b] = act[b]
      BY <1>1, <1>2, NoActType DEF ActEnds, MaTypeOK
    <2>5. ASSUME ~maGhost'.double PROVE OnceFor(act', "mark_read", "approve_read", got'.rr, receipts'.read)
      <3>1. OnceFor(act, "mark_read", "approve_read", "declined", receipts.read)
        BY <1>2, <2>2, <2>5, Recorded, OnceDeclines
      <3>2. OnceFor(act', "mark_read", "approve_read", "declined", receipts.read)
        BY <1>3, <2>4, <3>1, NoActIdle, OnceQuiet DEF ReadIdle
      <3> QED
        BY <1>2, <2>3, <3>2
    <2>6. OnceInv'
      BY <1>2, <1>3, <2>3, <2>4, <2>5, NoActIdle, ReadSide
    <2> QED
      BY <1>1, <1>2, <1>3, <2>3, <2>6, ReceiptEnds
  <1> QED
    BY <1>4, <1>5

\* completeDeliveryReceipt() goes on when nothing is on record.
LEMMA CompleteDeliveryReceiptKeeps ==
    ASSUME MaInv, NEW a \in Actors, CompleteDeliveryReceipt(a)
    PROVE  MaInv'
  <1>1. /\ act[a] \in MaActs /\ got \in GotRows /\ GotFits(act[a], got) /\ StagesFit(act[a]) /\ MaTypeOK
        /\ receipts \in [read : Nat, delivery : Nat] /\ maGhost \in MaGhosts
    BY MaParts
  <1>2. act[a].pc = "read" /\ act[a].op = "deliver" /\ MaUnch /\ UNCHANGED <<got, receipts, maGhost>>
    BY DEF CompleteDeliveryReceipt
  <1>3. ReadIdle(act[a]) /\ DeliveryIdle(act[a]) /\ ~Recalling(act[a])
    BY <1>2, IdleStage
  <1>4. CASE got.gone \/ got.dr # "none"
    BY <1>2, <1>3, <1>4, RowReadEnds DEF CompleteDeliveryReceipt, ActEnds
  <1>5. CASE ~(got.gone \/ got.dr # "none")
    <2> DEFINE v == Seen(got)
               n == [act[a] EXCEPT !.pc = "claim", !.seen = v]
    <2>1. act' = [act EXCEPT ![a] = n]
      BY <1>5 DEF CompleteDeliveryReceipt
    <2>2. v \in SeenRows /\ v = Seen(got)
      BY <1>1, SeenIs
    <2> HIDE DEF v
    <2>3. /\ n \in MaActs /\ n.pc = "claim" /\ n.op = "deliver" /\ n.seen = Seen(got) /\ n.sent = act[a].sent
          /\ n.lists = act[a].lists
      BY <1>1, <1>2, <2>2 DEF MaActs, ActStages
    <2> HIDE DEF n
    <2>4. GotFits(n, got)
      BY <1>1, <1>5, <2>3, StaleRead
    <2>5. StagesFit(n) /\ ~Deleting(n) /\ ReadIdle(n) /\ DeliveryIdle(n)
      BY <2>3, IdleStage DEF StagesFit, Deleting
    <2> QED
      BY <1>2, <1>3, <2>1, <2>3, <2>4, <2>5, RowRead
  <1> QED
    BY <1>4, <1>5

\* claimDeliveryReceipt(): nobody has sent it or is about to; held, or claimed, or read again.
LEMMA ClaimDeliveryReceiptKeeps ==
    ASSUME MaInv, NEW a \in Actors, ClaimDeliveryReceipt(a)
    PROVE  MaInv'
  <1>1. /\ act[a] \in MaActs /\ got \in GotRows /\ GotFits(act[a], got) /\ StagesFit(act[a]) /\ MaTypeOK
        /\ receipts \in [read : Nat, delivery : Nat] /\ maGhost \in MaGhosts
    BY MaParts
  <1>2. act[a].pc = "claim" /\ act[a].op = "deliver" /\ MaUnch /\ UNCHANGED <<receipts, maGhost>>
    BY DEF ClaimDeliveryReceipt
  <1>3. ReadIdle(act[a]) /\ DeliveryIdle(act[a]) /\ ~Recalling(act[a])
    BY <1>2, IdleStage
  <1>4. CASE ~Fresh(a)
    BY <1>2, <1>3, <1>4, AgainKeeps DEF ClaimDeliveryReceipt
  <1>5. CASE Fresh(a)
    <2>1. got.dr = "none" /\ act[a].seen.rev = got.rev
      BY <1>1, <1>2, <1>5 DEF GotFits, Fresh
    <2>2. ~maGhost'.double => receipts'.delivery = 0 /\ \A b \in Actors : ~Flying(act[b], "deliver", "approve_delivery")
      BY <1>2, <2>1, Recorded, OnceNone
    <2>3. CASE Written([got EXCEPT !.dr = "pending"]) /\ ActEnds(a)
      <3> DEFINE row == [got EXCEPT !.dr = "pending"]
      <3>1. row \in GotRows /\ row.dr = "pending" /\ row.rr = got.rr /\ row.read = got.read
        BY <1>1 DEF GotRows, Receipts
      <3>2. Written(row)
        BY <2>3
      <3> HIDE DEF row
      <3>3. got' \in GotRows /\ GotMoves(got, got') /\ got'.rr = got.rr /\ got'.read = got.read
        BY <1>1, <3>1, <3>2, WrittenIs DEF GotMoves
      <3> QED
        BY <1>1, <1>2, <1>3, <2>2, <2>3, <3>3, DeliveryEnds
    <2>4. CASE Written([got EXCEPT !.dr = "sent"]) /\ act' = [act EXCEPT ![a].pc = "mail", ![a].tries = 1]
      <3> DEFINE row == [got EXCEPT !.dr = "sent"]
                 n == [act[a] EXCEPT !.pc = "mail", !.tries = 1]
      <3>1. row \in GotRows /\ row.dr = "sent" /\ row.rr = got.rr /\ row.read = got.read
        BY <1>1 DEF GotRows, Receipts
      <3>2. Written(row)
        BY <2>4
      <3> HIDE DEF row
      <3>3. /\ got' \in GotRows /\ GotMoves(got, got') /\ got'.rr = got.rr /\ got'.read = got.read /\ got'.dr = "sent"
            /\ got'.rev = got.rev + 1 /\ got.rev \in Nat
        BY <1>1, <3>1, <3>2, WrittenIs DEF GotMoves, GotRows
      <3>4. act' = [act EXCEPT ![a] = n]
        BY <1>1, <2>4 DEF MaTypeOK
      <3>5. /\ n \in MaActs /\ n.pc = "mail" /\ n.op = "deliver" /\ n.seen = act[a].seen
            /\ n.sent = act[a].sent /\ n.lists = act[a].lists
        BY <1>1, <1>2 DEF MaActs, ActStages
      <3> HIDE DEF n
      <3>6. GotFits(n, got') /\ ~Approving(n, "approve_delivery")
        BY <2>1, <3>3, <3>5 DEF GotFits, Approving
      <3> QED
        BY <1>1, <1>2, <1>3, <2>2, <3>3, <3>4, <3>5, <3>6, DeliveryGoes
    <2> QED
      BY <1>5, <2>3, <2>4 DEF ClaimDeliveryReceipt
  <1> QED
    BY <1>4, <1>5

\* The receipt claimed goes out, or its claim is to be released.
LEMMA SendDeliveryReceiptKeeps ==
    ASSUME MaInv, NEW a \in Actors, SendDeliveryReceipt(a)
    PROVE  MaInv'
  <1>1. /\ act[a] \in MaActs /\ got \in GotRows /\ GotFits(act[a], got) /\ StagesFit(act[a]) /\ MaTypeOK
        /\ receipts \in [read : Nat, delivery : Nat] /\ maGhost \in MaGhosts
    BY MaParts
  <1>2. act[a].pc = "mail" /\ act[a].op = "deliver" /\ MaUnch /\ UNCHANGED <<got, maGhost>>
    BY DEF SendDeliveryReceipt
  <1>3. ReadIdle(act[a]) /\ ~Recalling(act[a]) /\ Claiming(act[a], "deliver")
    BY <1>2 DEF ReadIdle, Recalling, Flying, Claiming, Approving
  <1>4. ~maGhost'.double => /\ got'.dr = "sent" /\ receipts.delivery = 0
                            /\ \A b \in Actors \ {a} : ~Flying(act[b], "deliver", "approve_delivery")
    BY <1>2, <1>3, DeliveryClaim
  <1>5. GotMoves(got, got') /\ got' \in GotRows
    BY <1>1, <1>2 DEF GotMoves
  <1>6. CASE receipts' = [receipts EXCEPT !.delivery = @ + 1] /\ ActEnds(a)
    <2>1. /\ receipts' \in [read : Nat, delivery : Nat] /\ receipts'.delivery = receipts.delivery + 1
          /\ receipts'.read = receipts.read
      BY <1>1, <1>6
    <2>2. ~maGhost'.double => receipts'.delivery = 1
      BY <1>4, <2>1
    <2> QED
      BY <1>1, <1>2, <1>3, <1>4, <1>5, <1>6, <2>1, <2>2, DeliveryEnds
  <1>7. CASE ActGoes(a, "reread") /\ UNCHANGED receipts
    <2> DEFINE n == [act[a] EXCEPT !.pc = "reread"]
    <2>1. act' = [act EXCEPT ![a] = n] /\ "reread" \in ActStages
      BY <1>7 DEF ActGoes, ActStages
    <2>2. /\ n \in MaActs /\ n.pc = "reread" /\ n.op = "deliver" /\ n.seen = act[a].seen
          /\ n.sent = act[a].sent /\ n.lists = act[a].lists
      BY <1>1, <1>2, <2>1, StageType
    <2> HIDE DEF n
    <2>3. GotFits(n, got') /\ ~Approving(n, "approve_delivery")
      BY <1>1, <1>2, <2>2 DEF GotFits, Approving
    <2> QED
      BY <1>1, <1>2, <1>3, <1>4, <1>5, <1>7, <2>1, <2>2, <2>3, DeliveryGoes
  <1> QED
    BY <1>6, <1>7 DEF SendDeliveryReceipt

\* releaseDeliveryReceiptClaim() reads the row.
LEMMA ReleaseReadsKeeps ==
    ASSUME MaInv, NEW a \in Actors, ReleaseReads(a)
    PROVE  MaInv'
  <1>1. /\ act[a] \in MaActs /\ got \in GotRows /\ GotFits(act[a], got) /\ StagesFit(act[a]) /\ MaTypeOK
        /\ receipts \in [read : Nat, delivery : Nat] /\ maGhost \in MaGhosts
    BY MaParts
  <1>2. act[a].pc = "reread" /\ act[a].op = "deliver" /\ MaUnch /\ UNCHANGED <<got, receipts, maGhost>>
    BY <1>1 DEF ReleaseReads, StagesFit
  <1>3. ReadIdle(act[a]) /\ ~Recalling(act[a]) /\ Claiming(act[a], "deliver")
    BY <1>2 DEF ReadIdle, Recalling, Flying, Claiming, Approving
  <1>4. ~maGhost'.double => /\ got'.dr = "sent" /\ receipts'.delivery = 0
                            /\ \A b \in Actors \ {a} : ~Flying(act[b], "deliver", "approve_delivery")
    BY <1>2, <1>3, DeliveryClaim
  <1>5. GotMoves(got, got') /\ got' \in GotRows /\ receipts' \in [read : Nat, delivery : Nat]
    BY <1>1, <1>2 DEF GotMoves
  <1>6. CASE act' = [act EXCEPT ![a] = NoAct]
    BY <1>1, <1>2, <1>3, <1>4, <1>5, <1>6, DeliveryEnds DEF ActEnds
  <1>7. CASE act' = [act EXCEPT ![a] = [@ EXCEPT !.pc = "release", !.seen = Seen(got)]]
    <2> DEFINE v == Seen(got)
               n == [act[a] EXCEPT !.pc = "release", !.seen = v]
    <2>1. act' = [act EXCEPT ![a] = n]
      BY <1>7
    <2>2. v \in SeenRows /\ v = Seen(got)
      BY <1>1, SeenIs
    <2> HIDE DEF v
    <2>3. /\ n \in MaActs /\ n.pc = "release" /\ n.op = "deliver" /\ n.seen = Seen(got)
          /\ n.sent = act[a].sent /\ n.lists = act[a].lists
      BY <1>1, <1>2, <2>2 DEF MaActs, ActStages
    <2> HIDE DEF n
    <2>4. GotFits(n, got') /\ ~Approving(n, "approve_delivery")
      BY <1>1, <1>2, <2>3, StaleRead DEF Approving
    <2> QED
      BY <1>1, <1>2, <1>3, <1>4, <1>5, <2>1, <2>3, <2>4, DeliveryGoes
  <1> QED
    BY <1>6, <1>7 DEF ReleaseReads

\* The claim released, tried again, or left: nothing went out.
LEMMA ReleaseDeliveryReceiptClaimKeeps ==
    ASSUME MaInv, NEW a \in Actors, ReleaseDeliveryReceiptClaim(a)
    PROVE  MaInv'
  <1>1. /\ act[a] \in MaActs /\ got \in GotRows /\ GotFits(act[a], got) /\ StagesFit(act[a]) /\ MaTypeOK
        /\ receipts \in [read : Nat, delivery : Nat] /\ maGhost \in MaGhosts
    BY MaParts
  <1>2. act[a].pc = "release" /\ act[a].op = "deliver" /\ MaUnch /\ UNCHANGED <<receipts, maGhost>>
    BY DEF ReleaseDeliveryReceiptClaim
  <1>3. ReadIdle(act[a]) /\ ~Recalling(act[a]) /\ Claiming(act[a], "deliver")
    BY <1>2 DEF ReadIdle, Recalling, Flying, Claiming, Approving
  <1>4. ~maGhost'.double => /\ got.dr = "sent" /\ receipts'.delivery = 0
                            /\ \A b \in Actors \ {a} : ~Flying(act[b], "deliver", "approve_delivery")
    BY <1>2, <1>3, DeliveryClaim
  <1>5. CASE Fresh(a)
    <2> DEFINE row == [got EXCEPT !.dr = "none"]
    <2>1. row \in GotRows /\ row.rr = got.rr /\ row.read = got.read
      BY <1>1 DEF GotRows, Receipts
    <2>2. Written(row) /\ ActEnds(a)
      BY <1>5 DEF ReleaseDeliveryReceiptClaim
    <2> HIDE DEF row
    <2>3. got' \in GotRows /\ GotMoves(got, got') /\ got'.rr = got.rr /\ got'.read = got.read
      BY <1>1, <2>1, <2>2, WrittenIs DEF GotMoves
    <2> QED
      BY <1>1, <1>2, <1>3, <1>4, <2>2, <2>3, DeliveryEnds
  <1>6. CASE ~Fresh(a)
    <2>1. Again(a, "reread") /\ UNCHANGED got /\ got' \in GotRows /\ GotMoves(got, got')
      BY <1>1, <1>6 DEF ReleaseDeliveryReceiptClaim, GotMoves
    <2> DEFINE n == NextTry(act[a], "reread")
    <2>2. act' = [act EXCEPT ![a] = n]
      BY <2>1 DEF Again
    <2>3. \/ n = NoAct
          \/ /\ n \in MaActs /\ n.pc = "reread" /\ n.op = act[a].op
             /\ n.seen = act[a].seen /\ n.sent = act[a].sent /\ n.lists = act[a].lists
      BY <1>1, NextTryIs DEF ActStages
    <2> HIDE DEF n
    <2>4. CASE n = NoAct
      <3>1. ActEnds(a)
        BY <2>2, <2>4 DEF ActEnds
      <3> QED
        BY <1>1, <1>2, <1>3, <1>4, <2>1, <3>1, DeliveryEnds
    <2>5. CASE /\ n \in MaActs /\ n.pc = "reread" /\ n.op = act[a].op
               /\ n.seen = act[a].seen /\ n.sent = act[a].sent /\ n.lists = act[a].lists
      <3>1. GotFits(n, got') /\ ~Approving(n, "approve_delivery")
        BY <1>1, <1>2, <2>1, <2>5 DEF GotFits, Approving
      <3> QED
        BY <1>1, <1>2, <1>3, <1>4, <2>1, <2>2, <2>5, <3>1, DeliveryGoes
    <2> QED
      BY <2>3, <2>4, <2>5
  <1> QED
    BY <1>5, <1>6

\* update(): a flag written, read under a recall about to delete; a receipt is to be decided when none is on record.
LEMMA WriteFlagKeeps ==
    ASSUME MaInv, NEW a \in Actors, WriteFlag(a)
    PROVE  MaInv'
  <1>1. /\ act[a] \in MaActs /\ got \in GotRows /\ GotFits(act[a], got) /\ StagesFit(act[a]) /\ MaTypeOK
        /\ receipts \in [read : Nat, delivery : Nat] /\ maGhost \in MaGhosts
    BY MaParts
  <1>2. act[a].pc = "write" /\ act[a].op \in {"mark_read", "mark_unread"} /\ MaUnch /\ UNCHANGED receipts
    BY DEF WriteFlag
  <1>3. ReadIdle(act[a]) /\ DeliveryIdle(act[a]) /\ ~Recalling(act[a])
    BY <1>2, IdleStage
  <1>4. CASE got.gone
    BY <1>2, <1>3, <1>4, RowReadEnds DEF WriteFlag
  <1>5. CASE ~got.gone
    <2> DEFINE f == act[a].op = "mark_read"
               k == got.rev + 1
               flagged == [got EXCEPT !.read = f, !.rev = k]
               wants == ~act[a].was.read /\ flagged.read /\ act[a].was.rr = "none" /\ flagged.rr = "none"
               v == Seen(flagged)
               n == IF wants THEN [act[a] EXCEPT !.pc = "decide", !.seen = v] ELSE NoAct
               slip == maGhost.slipped \/ (flagged.read /\ \E b \in Actors : act[b].op = "recall" /\ act[b].pc = "delete")
    <2>1. got' = flagged /\ act' = [act EXCEPT ![a] = n] /\ maGhost' = [maGhost EXCEPT !.slipped = slip]
      BY <1>5 DEF WriteFlag
    <2>2. f \in BOOLEAN /\ k \in Nat /\ k = got.rev + 1 /\ (f => act[a].op = "mark_read")
      BY <1>1 DEF GotRows
    <2>3. /\ slip \in BOOLEAN /\ (maGhost.slipped => slip)
          /\ (flagged.read /\ (\E b \in Actors : Deleting(act[b])) => slip)
      BY DEF Deleting
    <2>4. wants => flagged.read /\ flagged.rr = "none"
      OBVIOUS
    <2>5. (n = [act[a] EXCEPT !.pc = "decide", !.seen = v] /\ wants) \/ n = NoAct
      OBVIOUS
    <2> HIDE DEF f, k, wants, n
    <2>6. flagged \in GotRows /\ flagged.rev = k /\ flagged.read = f /\ flagged.rr = got.rr /\ flagged.dr = got.dr
      BY <1>1, <2>2 DEF GotRows
    <2> HIDE DEF flagged, slip
    <2>7. v \in SeenRows /\ v = Seen(flagged)
      BY <2>6, SeenIs
    <2> HIDE DEF v
    <2>8. GotMoves(got, got') /\ got' \in GotRows /\ got'.rr = got.rr /\ got'.dr = got.dr
      BY <2>1, <2>2, <2>6 DEF GotMoves
    <2>9. /\ maGhost' \in MaGhosts /\ maGhost'.double = maGhost.double /\ maGhost'.opened = maGhost.opened
          /\ maGhost'.slipped = slip
      BY <1>1, <2>1, <2>3 DEF MaGhosts
    <2>10. /\ n \in MaActs /\ n.pc \in {"decide", "idle"} /\ GotFits(n, got') /\ SentFits(n, sentMsg)
           /\ ListFits(n, lists) /\ StagesFit(n)
      <3>1. CASE n = NoAct
        BY <2>8, <3>1, NoActOfNow, NoActIdle, NoActIs
      <3>2. CASE n = [act[a] EXCEPT !.pc = "decide", !.seen = v] /\ wants
        <4>1. /\ n \in MaActs /\ n.pc = "decide" /\ n.op = act[a].op /\ n.seen = v /\ n.sent = act[a].sent
              /\ n.lists = act[a].lists
          BY <1>1, <2>7, <3>2 DEF MaActs, ActStages
        <4>2. flagged.rr = "none" /\ act[a].op = "mark_read"
          BY <2>2, <2>4, <2>6, <3>2
        <4>3. v.rev = flagged.rev /\ v.seal = flagged.seal /\ v.sealGen = flagged.sealGen /\ flagged.rev \in Nat
          BY <2>6, <2>7, SeenIs DEF GotRows
        <4>4. GotFits(n, got') /\ StagesFit(n)
          BY <2>1, <4>1, <4>2, <4>3 DEF GotFits, StagesFit
        <4>5. SentFits(n, sentMsg) /\ ListFits(n, lists)
          BY <4>1, MaParts DEF SentFits, ListFits
        <4> QED
          BY <4>1, <4>4, <4>5
      <3> QED
        BY <2>5, <3>1, <3>2
    <2>11. ~Deleting(n) /\ ~Recalling(n) /\ ReadIdle(n) /\ DeliveryIdle(n)
      BY <2>10, IdleStage DEF Deleting
    <2>12. OnceInv' /\ NoticeOnce'
      BY <1>2, <1>3, <2>1, <2>8, <2>9, <2>10, <2>11, OnceInvQuiet, NoticeQuiet DEF MaUnch
    <2>13. SlipSeen'
      <3>1. \A b \in Actors : act'[b] = IF b = a THEN n ELSE act[b]
        BY <1>1, <2>1 DEF MaTypeOK
      <3> QED
        BY <2>1, <2>3, <2>9, <2>11, <3>1 DEF SlipSeen
    <2>14. RecalledUnread'
      BY <2>3, <2>9, MaParts DEF RecalledUnread
    <2> QED
      BY <1>1, <1>2, <2>1, <2>8, <2>9, <2>10, <2>12, <2>13, <2>14, MaParts, ActMoves DEF MaUnch, MaTypeOK
  <1> QED
    BY <1>4, <1>5

\* lockUnreadForRecall(): a write of the row it read, so it still is unread.
LEMMA LockUnreadForRecallKeeps ==
    ASSUME MaInv, NEW a \in Actors, LockUnreadForRecall(a)
    PROVE  MaInv'
  <1>1. /\ act[a] \in MaActs /\ got \in GotRows /\ GotFits(act[a], got) /\ StagesFit(act[a]) /\ MaTypeOK
        /\ receipts \in [read : Nat, delivery : Nat] /\ maGhost \in MaGhosts
    BY MaParts
  <1>2. act[a].pc = "lock" /\ act[a].op = "recall" /\ MaUnch /\ UNCHANGED <<receipts, maGhost>>
    BY <1>1 DEF LockUnreadForRecall, StagesFit
  <1>3. ReadIdle(act[a]) /\ DeliveryIdle(act[a]) /\ ~Recalling(act[a])
    BY <1>2, IdleStage
  <1>4. CASE ~Fresh(a)
    BY <1>2, <1>3, <1>4, AgainKeeps DEF LockUnreadForRecall
  <1>5. CASE Fresh(a)
    <2> DEFINE n == [act[a] EXCEPT !.pc = "delete"]
    <2>1. act' = [act EXCEPT ![a] = n] /\ "delete" \in ActStages /\ Written(got)
      BY <1>5 DEF LockUnreadForRecall, ActGoes, ActStages
    <2>2. /\ n \in MaActs /\ n.pc = "delete" /\ n.op = "recall" /\ n.seen = act[a].seen
          /\ n.sent = act[a].sent /\ n.lists = act[a].lists
      BY <1>1, <1>2, <2>1, StageType
    <2> HIDE DEF n
    <2>3. /\ got' \in GotRows /\ GotMoves(got, got') /\ SameReceipts(got, got') /\ got'.rev = got.rev + 1
          /\ got.rev \in Nat
      BY <1>1, <2>1, WrittenIs DEF GotMoves, SameReceipts, GotRows
    <2>4. ~got.read /\ act[a].seen.rev = got.rev
      BY <1>1, <1>2, <1>5 DEF GotFits, Fresh
    <2>5. GotFits(n, got') /\ StagesFit(n)
      BY <2>2, <2>3, <2>4 DEF GotFits, StagesFit
    <2>6. SentFits(n, sentMsg) /\ ListFits(n, lists)
      BY <2>2, MaParts DEF SentFits, ListFits
    <2>7. ReadIdle(n) /\ DeliveryIdle(n) /\ ~Recalling(n)
      BY <2>2, IdleStage
    <2>8. OnceInv' /\ NoticeOnce'
      BY <1>2, <1>3, <2>1, <2>2, <2>3, <2>7, OnceInvQuiet, NoticeQuiet DEF MaUnch, SameReceipts
    <2>9. SlipSeen'
      BY <2>3, <2>4 DEF SlipSeen, SameReceipts
    <2>10. RecalledUnread'
      BY <1>2, MaParts DEF RecalledUnread
    <2> QED
      BY <1>1, <1>2, <2>1, <2>2, <2>3, <2>5, <2>6, <2>8, <2>9, <2>10, MaParts, ActMoves DEF MaUnch, MaTypeOK
  <1> QED
    BY <1>4, <1>5

\* The delete: the message is unread, or somebody opened it under the lock.
LEMMA DeleteRecalledKeeps ==
    ASSUME MaInv, NEW a \in Actors, DeleteRecalled(a)
    PROVE  MaInv'
  <1>1. /\ act[a] \in MaActs /\ got \in GotRows /\ GotFits(act[a], got) /\ StagesFit(act[a]) /\ MaTypeOK
        /\ receipts \in [read : Nat, delivery : Nat] /\ maGhost \in MaGhosts
    BY MaParts
  <1>2. /\ act[a].pc = "delete" /\ act[a].op = "recall" /\ ActEnds(a) /\ MaUnch /\ UNCHANGED receipts
        /\ got' = [got EXCEPT !.gone = TRUE]
    BY <1>1 DEF DeleteRecalled, StagesFit
  <1>3. ReadIdle(act[a]) /\ DeliveryIdle(act[a]) /\ ~Recalling(act[a])
    BY <1>2, IdleStage
  <1>4. got' \in GotRows /\ GotMoves(got, got') /\ SameReceipts(got, got')
    BY <1>1, <1>2 DEF GotRows, GotMoves, SameReceipts
  <1>5. act' = [act EXCEPT ![a] = NoAct] /\ NoAct \in MaActs
    BY <1>2, NoActType DEF ActEnds
  <1>6. /\ maGhost' \in MaGhosts /\ maGhost'.double = maGhost.double /\ maGhost'.slipped = maGhost.slipped
        /\ maGhost'.opened => maGhost.opened \/ got.read
    <2> DEFINE o == maGhost.opened \/ (got.read /\ ~got.gone)
    <2>1. maGhost' = [maGhost EXCEPT !.opened = o] /\ o \in BOOLEAN /\ (o => maGhost.opened \/ got.read)
      BY DEF DeleteRecalled
    <2> HIDE DEF o
    <2> QED
      BY <1>1, <2>1 DEF MaGhosts
  <1>7. OnceInv' /\ NoticeOnce'
    BY <1>2, <1>3, <1>4, <1>5, <1>6, NoActIdle, OnceInvQuiet, NoticeQuiet DEF MaUnch, SameReceipts
  <1>8. SlipSeen'
    BY <1>4, <1>5, <1>6, NoActIdle, SlipQuiet DEF SameReceipts
  <1>9. RecalledUnread'
    <2>1. Deleting(act[a])
      BY <1>2 DEF Deleting
    <2> QED
      BY <1>6, <2>1, MaParts DEF RecalledUnread, SlipSeen
  <1>10. GotFits(NoAct, got') /\ SentFits(NoAct, sentMsg) /\ ListFits(NoAct, lists) /\ StagesFit(NoAct)
    BY <1>4, NoActOfNow, NoActIdle
  <1> QED
    BY <1>1, <1>2, <1>4, <1>5, <1>6, <1>7, <1>8, <1>9, <1>10, MaParts, ActMoves DEF MaUnch, MaTypeOK

--------------------------------------------------------------------------------
\* A step of the sender's side, or on the sender lists.
LEMMA SenderSteps ==
    ASSUME MaInv, NEW a \in Actors, NEW n \in MaActs, act' = [act EXCEPT ![a] = n], UNCHANGED <<got, receipts, maGhost,
        vaultGen>>,
           sentMsg' \in SentRows, sentMsg' = sentMsg \/ sentMsg'.rev = sentMsg.rev + 1,
           lists' \in ListRecs, lists' = lists \/ lists'.rev = lists.rev + 1, recallNotices' \in Nat,
           GotFits(n, got), SentFits(n, sentMsg'), ListFits(n, lists'), StagesFit(n),
           ReadIdle(act[a]), ReadIdle(n), DeliveryIdle(act[a]), DeliveryIdle(n), ~Deleting(n), NoticeOnce'
    PROVE  MaInv'
  <1>1. MaTypeOK /\ RecalledUnread /\ got \in GotRows
    BY MaParts
  <1>2. GotMoves(got, got') /\ got' \in GotRows
    BY <1>1 DEF GotMoves
  <1>3. OnceInv' /\ SlipSeen' /\ RecalledUnread'
    BY <1>1, OnceInvQuiet, SlipQuiet DEF RecalledUnread
  <1> QED
    BY <1>1, <1>2, <1>3, ActMoves DEF MaTypeOK

\* The same, when the request ends.
LEMMA SenderEnds ==
    ASSUME MaInv, NEW a \in Actors, ActEnds(a), UNCHANGED <<got, receipts, maGhost, vaultGen>>,
           sentMsg' \in SentRows, sentMsg' = sentMsg \/ sentMsg'.rev = sentMsg.rev + 1,
           lists' \in ListRecs, lists' = lists \/ lists'.rev = lists.rev + 1, recallNotices' \in Nat,
           ReadIdle(act[a]), DeliveryIdle(act[a]), NoticeOnce'
    PROVE  MaInv'
  <1>1. /\ StartsFiled(got, sentMsg, lists) /\ got \in GotRows /\ sentMsg \in SentRows /\ lists \in ListRecs
        /\ GotMoves(got, got)
    BY MaParts DEF GotMoves
  <1>2. StartsFiled(got, sentMsg', lists')
    BY <1>1, StillStarts
  <1>3. ActFits(NoAct, got, sentMsg', lists')
    BY <1>1, <1>2, NoActFits
  <1> QED
    BY <1>3, NoActType, NoActIdle, SenderSteps DEF ActEnds, ActFits

\* recall() and processReceipt() read the sender's copy.
LEMMA ReadSentKeeps ==
    ASSUME MaInv, NEW a \in Actors, ReadSent(a)
    PROVE  MaInv'
  <1>1. /\ act[a] \in MaActs /\ got \in GotRows /\ GotFits(act[a], got) /\ StagesFit(act[a]) /\ MaTypeOK
        /\ receipts \in [read : Nat, delivery : Nat] /\ maGhost \in MaGhosts
    BY MaParts
  <1>2. /\ act[a].pc = "read" /\ act[a].op \in {"request_recall", "receipt"} /\ MaUnch
        /\ UNCHANGED <<got, receipts, maGhost>>
    BY DEF ReadSent
  <1>3. ReadIdle(act[a]) /\ DeliveryIdle(act[a]) /\ ~Recalling(act[a])
    BY <1>2, IdleStage
  <1> DEFINE n == [act[a] EXCEPT !.pc = "write", !.sent = sentMsg]
  <1>4. \/ act' = [act EXCEPT ![a] = NoAct]
        \/ act' = [act EXCEPT ![a] = n] /\ (act[a].op = "request_recall" => ~sentMsg.recall)
    BY DEF ReadSent
  <1>5. CASE act' = [act EXCEPT ![a] = NoAct]
    BY <1>2, <1>3, <1>5, RowReadEnds DEF ActEnds
  <1>6. CASE act' = [act EXCEPT ![a] = n] /\ (act[a].op = "request_recall" => ~sentMsg.recall)
    <2>1. sentMsg \in SentRows /\ sentMsg.rev \in Nat
      BY MaParts DEF SentRows
    <2>2. /\ n \in MaActs /\ n.pc = "write" /\ n.op = act[a].op /\ n.seen = act[a].seen /\ n.sent = sentMsg
          /\ n.lists = act[a].lists
      BY <1>1, <2>1 DEF MaActs, ActStages
    <2> HIDE DEF n
    <2>3. GotFits(n, got) /\ StagesFit(n)
      BY <1>1, <1>2, <2>2 DEF GotFits, StagesFit
    <2>4. SentFits(n, sentMsg) /\ ListFits(n, lists)
      BY <1>6, <2>1, <2>2, MaParts DEF SentFits, ListFits
    <2>5. ReadIdle(n) /\ DeliveryIdle(n) /\ ~Recalling(n) /\ ~Deleting(n)
      BY <2>2, IdleStage DEF Deleting
    <2>6. GotMoves(got, got') /\ SameReceipts(got, got') /\ got' \in GotRows
      BY <1>1, <1>2 DEF GotMoves, SameReceipts
    <2> QED
      BY <1>2, <1>3, <1>6, <2>2, <2>3, <2>4, <2>5, <2>6, RowMoves
  <1> QED
    BY <1>4, <1>5, <1>6

\* The recall claimed: it was not, so no notice went out and nobody is about to send one.
LEMMA ClaimRecallKeeps ==
    ASSUME MaInv, NEW a \in Actors, ClaimRecall(a)
    PROVE  MaInv'
  <1>1. /\ act[a] \in MaActs /\ got \in GotRows /\ GotFits(act[a], got) /\ StagesFit(act[a]) /\ MaTypeOK
        /\ receipts \in [read : Nat, delivery : Nat] /\ maGhost \in MaGhosts
    BY MaParts
  <1>2. /\ act[a].pc = "write" /\ act[a].op = "request_recall"
        /\ UNCHANGED <<got, receipts, maGhost, vaultGen, lists, recallNotices>>
    BY DEF ClaimRecall
  <1>3. ReadIdle(act[a]) /\ DeliveryIdle(act[a]) /\ ~Recalling(act[a])
    BY <1>2, IdleStage
  <1>4. CASE ~FreshSent(a)
    <2>1. ActEnds(a) /\ MaUnch
      BY <1>2, <1>4 DEF ClaimRecall, MaUnch
    <2> QED
      BY <1>2, <1>3, <2>1, RowReadEnds
  <1>5. CASE FreshSent(a)
    <2> DEFINE k == sentMsg.rev + 1
               s == sentMsg'
               n == [act[a] EXCEPT !.pc = "mail", !.sent = s]
    <2>1. sentMsg \in SentRows /\ k \in Nat /\ k = sentMsg.rev + 1 /\ SentFits(act[a], sentMsg) /\ ListFits(act[a],
              lists) /\ NoticeOnce
          /\ lists \in ListRecs /\ recallNotices \in Nat
      BY <1>1, MaParts DEF SentRows, MaTypeOK
    <2>2. sentMsg' = [sentMsg EXCEPT !.recall = TRUE, !.rev = k] /\ act' = [act EXCEPT ![a] = n]
      BY <1>1, <1>5 DEF ClaimRecall, MaTypeOK
    <2>3. ~sentMsg.recall
      BY <1>2, <1>5, <2>1 DEF SentFits, FreshSent
    <2> HIDE DEF k
    <2>4. s \in SentRows /\ s.recall = TRUE /\ s.rev = k /\ s = sentMsg'
      BY <2>1, <2>2 DEF SentRows
    <2> HIDE DEF s
    <2>5. /\ n \in MaActs /\ n.pc = "mail" /\ n.op = "request_recall" /\ n.seen = act[a].seen /\ n.sent = s
          /\ n.lists = act[a].lists
      BY <1>1, <1>2, <2>4 DEF MaActs, ActStages
    <2> HIDE DEF n
    <2>6. GotFits(n, got) /\ StagesFit(n) /\ ListFits(n, lists')
      BY <1>1, <1>2, <2>1, <2>5 DEF GotFits, StagesFit, ListFits
    <2>7. SentFits(n, sentMsg')
      BY <2>1, <2>4, <2>5 DEF SentFits
    <2>8. ReadIdle(n) /\ DeliveryIdle(n) /\ Recalling(n) /\ ~Deleting(n)
      BY <2>5 DEF Deleting, ReadIdle, DeliveryIdle, Flying, Claiming, Approving, Recalling
    <2>9. NoticeOnce'
      <3>1. \A b \in Actors : act'[b] = IF b = a THEN n ELSE act[b]
        BY <1>1, <2>2 DEF MaTypeOK
      <3>2. (\A b \in Actors : ~Recalling(act[b])) /\ recallNotices = 0
        BY <2>1, <2>3 DEF NoticeOnce
      <3> QED
        BY <1>2, <2>4, <2>8, <3>1, <3>2 DEF NoticeOnce
    <2> QED
      BY <1>2, <1>3, <2>1, <2>2, <2>4, <2>5, <2>6, <2>7, <2>8, <2>9, SenderSteps
  <1> QED
    BY <1>4, <1>5

\* The notice goes out, or its claim is given back.
LEMMA SendRecallKeeps ==
    ASSUME MaInv, NEW a \in Actors, SendRecall(a)
    PROVE  MaInv'
  <1>1. /\ act[a] \in MaActs /\ got \in GotRows /\ GotFits(act[a], got) /\ StagesFit(act[a]) /\ MaTypeOK
        /\ receipts \in [read : Nat, delivery : Nat] /\ maGhost \in MaGhosts
    BY MaParts
  <1>2. /\ act[a].pc = "mail" /\ act[a].op = "request_recall" /\ ActEnds(a)
        /\ UNCHANGED <<got, receipts, maGhost, vaultGen, lists>>
    BY DEF SendRecall
  <1>3. ReadIdle(act[a]) /\ DeliveryIdle(act[a]) /\ Recalling(act[a])
    BY <1>2 DEF ReadIdle, DeliveryIdle, Flying, Claiming, Approving, Recalling
  <1>4. NoticeOnce /\ sentMsg \in SentRows /\ lists \in ListRecs /\ recallNotices \in Nat
    BY <1>1, MaParts DEF MaTypeOK
  <1>5. recallNotices = 0 /\ sentMsg.recall /\ \A b \in Actors \ {a} : ~Recalling(act[b])
    BY <1>3, <1>4 DEF NoticeOnce
  <1>6. \A b \in Actors : ~Recalling(act'[b])
    BY <1>1, <1>2, <1>5, NoActIdle DEF ActEnds, MaTypeOK
  <1>7. CASE recallNotices' = recallNotices + 1 /\ UNCHANGED sentMsg
    <2>1. NoticeOnce' /\ recallNotices' \in Nat
      BY <1>4, <1>5, <1>6, <1>7 DEF NoticeOnce
    <2> QED
      BY <1>2, <1>3, <1>4, <1>7, <2>1, SenderEnds
  <1>8. CASE /\ UNCHANGED recallNotices
             /\ sentMsg' = IF FreshSent(a) THEN [sentMsg EXCEPT !.recall = FALSE, !.rev = @ + 1] ELSE sentMsg
    <2> DEFINE k == sentMsg.rev + 1
    <2>1. /\ k \in Nat /\ k = sentMsg.rev + 1
          /\ (sentMsg' = [sentMsg EXCEPT !.recall = FALSE, !.rev = k] \/ sentMsg' = sentMsg)
      BY <1>4, <1>8 DEF SentRows
    <2> HIDE DEF k
    <2>2. sentMsg' \in SentRows /\ (sentMsg' = sentMsg \/ sentMsg'.rev = k)
      BY <1>4, <2>1 DEF SentRows
    <2>3. NoticeOnce'
      BY <1>5, <1>6, <1>8 DEF NoticeOnce
    <2> QED
      BY <1>2, <1>3, <1>4, <1>8, <2>1, <2>2, <2>3, SenderEnds
  <1> QED
    BY <1>7, <1>8 DEF SendRecall

\* processReceipt(): a receipt put on the roster it read, or read again.
LEMMA ProcessReceiptKeeps ==
    ASSUME MaInv, NEW a \in Actors, ProcessReceipt(a)
    PROVE  MaInv'
  <1>1. /\ act[a] \in MaActs /\ got \in GotRows /\ GotFits(act[a], got) /\ StagesFit(act[a]) /\ MaTypeOK
        /\ receipts \in [read : Nat, delivery : Nat] /\ maGhost \in MaGhosts
    BY MaParts
  <1>2. /\ act[a].pc = "write" /\ act[a].op = "receipt"
        /\ UNCHANGED <<got, receipts, maGhost, vaultGen, lists, recallNotices>>
    BY DEF ProcessReceipt
  <1>3. ReadIdle(act[a]) /\ DeliveryIdle(act[a]) /\ ~Recalling(act[a])
    BY <1>2, IdleStage
  <1>4. /\ sentMsg \in SentRows /\ lists \in ListRecs /\ recallNotices \in Nat /\ SentFits(act[a], sentMsg)
        /\ ListFits(act[a], lists)
    BY <1>1, MaParts DEF MaTypeOK
  <1>5. CASE FreshSent(a)
    <2> DEFINE k == sentMsg.rev + 1
               r == act[a].sent.roster \cup {act[a].arg}
    <2>1. ActEnds(a) /\ sentMsg' = [sentMsg EXCEPT !.roster = r, !.rev = k]
      BY <1>5 DEF ProcessReceipt
    <2>2. k \in Nat /\ k = sentMsg.rev + 1 /\ r \in SUBSET ActArgs
      BY <1>1, <1>4 DEF MaActs, SentRows
    <2> HIDE DEF k, r
    <2>3. sentMsg' \in SentRows /\ sentMsg'.rev = k /\ sentMsg'.recall = sentMsg.recall
      BY <1>4, <2>1, <2>2 DEF SentRows
    <2>4. NoticeOnce'
      BY <1>2, <1>3, <2>1, <2>3, NoActType, NoActIdle, NoticeQuiet DEF ActEnds
    <2> QED
      BY <1>2, <1>3, <1>4, <2>1, <2>2, <2>3, <2>4, SenderEnds
  <1>6. CASE ~FreshSent(a)
    <2> DEFINE n == [act[a] EXCEPT !.pc = "read"]
    <2>1. act' = [act EXCEPT ![a] = n] /\ UNCHANGED sentMsg /\ "read" \in ActStages
      BY <1>6 DEF ProcessReceipt, ActGoes, ActStages
    <2>2. /\ n \in MaActs /\ n.pc = "read" /\ n.op = "receipt" /\ n.seen = act[a].seen /\ n.sent = act[a].sent
          /\ n.lists = act[a].lists
      BY <1>1, <1>2, <2>1, StageType
    <2> HIDE DEF n
    <2>3. GotFits(n, got) /\ StagesFit(n)
      BY <1>1, <2>2 DEF GotFits, StagesFit
    <2>4. ReadIdle(n) /\ DeliveryIdle(n) /\ ~Recalling(n) /\ ~Deleting(n)
      BY <2>2, IdleStage DEF Deleting
    <2> QED
      BY <1>2, <1>3, <2>1, <2>2, <2>3, <2>4, RowRead DEF MaUnch
  <1> QED
    BY <1>5, <1>6

\* A change to the sender lists reads them.
LEMMA ReadSenderListsKeeps ==
    ASSUME MaInv, NEW a \in Actors, ReadSenderLists(a)
    PROVE  MaInv'
  <1>1. /\ act[a] \in MaActs /\ got \in GotRows /\ GotFits(act[a], got) /\ StagesFit(act[a]) /\ MaTypeOK
        /\ receipts \in [read : Nat, delivery : Nat] /\ maGhost \in MaGhosts
    BY MaParts
  <1>2. act[a].pc = "read" /\ act[a].op = "sender" /\ MaUnch /\ UNCHANGED <<got, receipts, maGhost>>
    BY DEF ReadSenderLists
  <1>3. ReadIdle(act[a]) /\ DeliveryIdle(act[a]) /\ ~Recalling(act[a])
    BY <1>2, IdleStage
  <1> DEFINE n == [act[a] EXCEPT !.pc = "write", !.lists = lists]
  <1>4. act' = [act EXCEPT ![a] = NoAct] \/ act' = [act EXCEPT ![a] = n]
    BY DEF ReadSenderLists
  <1>5. CASE act' = [act EXCEPT ![a] = NoAct]
    BY <1>2, <1>3, <1>5, RowReadEnds DEF ActEnds
  <1>6. CASE act' = [act EXCEPT ![a] = n]
    <2>1. lists \in ListRecs /\ lists.rev \in Nat
      BY MaParts DEF ListRecs
    <2>2. /\ n \in MaActs /\ n.pc = "write" /\ n.op = "sender" /\ n.seen = act[a].seen /\ n.sent = act[a].sent
          /\ n.lists = lists
      BY <1>1, <1>2, <2>1 DEF MaActs, ActStages
    <2> HIDE DEF n
    <2>3. GotFits(n, got) /\ StagesFit(n)
      BY <1>1, <1>2, <2>2 DEF GotFits, StagesFit
    <2>4. SentFits(n, sentMsg) /\ ListFits(n, lists)
      BY <2>1, <2>2, MaParts DEF SentFits, ListFits
    <2>5. ReadIdle(n) /\ DeliveryIdle(n) /\ ~Recalling(n) /\ ~Deleting(n)
      BY <2>2, IdleStage DEF Deleting
    <2>6. GotMoves(got, got') /\ SameReceipts(got, got') /\ got' \in GotRows
      BY <1>1, <1>2 DEF GotMoves, SameReceipts
    <2> QED
      BY <1>2, <1>3, <1>6, <2>2, <2>3, <2>4, <2>5, <2>6, RowMoves
  <1> QED
    BY <1>4, <1>5, <1>6

\* A sender moves on one entry only.
LEMMA SenderMoved ==
    ASSUME NEW old \in [Blockable -> {"none", "safe", "blocked"}], NEW arg
    PROVE  /\ MoveSenderEntry(old, arg) \in [Blockable -> {"none", "safe", "blocked"}]
           /\ \A e, f \in Blockable : MoveSenderEntry(old, arg)[e] # old[e] /\ MoveSenderEntry(old, arg)[f] # old[f] => e = f
  <1> DEFINE c == CHOOSE x \in arg : TRUE
             q == c[1]
             v == IF c[2] \in {"safe", "blocked"} THEN c[2]
                  ELSE IF <<c[2], old[q]>> \in {<<"untrust", "safe">>, <<"unblock", "blocked">>} THEN "none" ELSE old[q]
  <1>1. MoveSenderEntry(old, arg) = [old EXCEPT ![q] = v]
    BY DEF MoveSenderEntry
  <1>2. v \in {"none", "safe", "blocked"} \/ v = old[q]
    OBVIOUS
  <1> HIDE DEF c, q, v
  <1> QED
    BY <1>1, <1>2

\* changeMailboxSenderList() writes the lists it read, or reads them again.
LEMMA ChangeMailboxSenderListKeeps ==
    ASSUME MaInv, NEW a \in Actors, ChangeMailboxSenderList(a)
    PROVE  MaInv'
  <1>1. /\ act[a] \in MaActs /\ got \in GotRows /\ GotFits(act[a], got) /\ StagesFit(act[a]) /\ MaTypeOK
        /\ receipts \in [read : Nat, delivery : Nat] /\ maGhost \in MaGhosts
    BY MaParts
  <1>2. /\ act[a].pc = "write" /\ act[a].op = "sender"
        /\ UNCHANGED <<got, receipts, maGhost, vaultGen, sentMsg, recallNotices>>
    BY DEF ChangeMailboxSenderList
  <1>3. ReadIdle(act[a]) /\ DeliveryIdle(act[a]) /\ ~Recalling(act[a])
    BY <1>2, IdleStage
  <1>4. sentMsg \in SentRows /\ lists \in ListRecs /\ recallNotices \in Nat
    BY <1>1, MaParts DEF MaTypeOK
  <1>5. CASE ~ListsFresh(a)
    BY <1>2, <1>3, <1>5, AgainKeeps DEF ChangeMailboxSenderList, MaUnch
  <1>6. CASE ListsFresh(a)
    <2> DEFINE k == lists.rev + 1
               m == MoveSenderEntry(act[a].lists.of, act[a].arg)
    <2>1. ActEnds(a) /\ lists' = [of |-> m, rev |-> k]
      BY <1>6 DEF ChangeMailboxSenderList
    <2>2. k \in Nat /\ k = lists.rev + 1
      BY <1>4 DEF ListRecs
    <2>3. m \in [Blockable -> {"none", "safe", "blocked"}]
      BY <1>1, SenderMoved DEF MaActs, ListRecs
    <2> HIDE DEF k, m
    <2>4. lists' \in ListRecs /\ lists'.rev = k
      BY <2>1, <2>2, <2>3 DEF ListRecs
    <2>5. NoticeOnce'
      BY <1>2, <1>3, <2>1, NoActType, NoActIdle, NoticeQuiet DEF ActEnds
    <2> QED
      BY <1>2, <1>3, <1>4, <2>1, <2>2, <2>4, <2>5, SenderEnds
  <1> QED
    BY <1>5, <1>6

--------------------------------------------------------------------------------

\* A message just filed.
LEMMA MaStart ==
    ASSUME MaInit
    PROVE  MaInv
  <1>1. MaTypeOK
    BY NoActType DEF MaInit, MaTypeOK, MaGhosts
  <1>2. StartsFiled(got, sentMsg, lists)
    BY DEF MaInit, StartsFiled, Message0
  <1>3. \A a \in Actors : act[a] = NoAct
    BY DEF MaInit
  <1>4. \A a \in Actors : ActFits(act[a], got, sentMsg, lists)
    BY <1>1, <1>2, <1>3, NoActFits DEF MaTypeOK
  <1>5. OnceInv /\ NoticeOnce /\ SlipSeen
    BY <1>3, NoActIdle DEF MaInit, OnceInv, ReadOnce, DeliveredOnce, OnceFor, NoticeOnce, SlipSeen, ReadIdle,
       DeliveryIdle, Flying
  <1>6. RecalledUnread
    BY DEF MaInit, RecalledUnread
  <1> QED
    BY <1>1, <1>2, <1>4, <1>5, <1>6 DEF MaInv

\* Every step keeps the invariant.
LEMMA MaKeeps ==
    ASSUME MaInv, [MaNext]_mavars
    PROVE  MaInv'
  <1>1. CASE UNCHANGED mavars
    BY <1>1 DEF mavars, MaInv, MaTypeOK, OnceInv, ReadOnce, DeliveredOnce, NoticeOnce, SlipSeen, RecalledUnread
  <1>2. CASE Rekey
    BY <1>2, RekeyKeeps
  <1>3. ASSUME NEW a \in Actors,
               BeginAct(a) \/ ReadBefore(a) \/ WriteFlag(a) \/ MaybeSendReadReceipt(a) \/ SendReadReceipt(a) \/
               ReleaseReadClaim(a) \/ RequirePendingReceipt(a) \/ ApproveSends(a)
        PROVE  MaInv'
    BY <1>3, BeginActKeeps, ReadBeforeKeeps, WriteFlagKeeps, MaybeSendReadReceiptKeeps, SendReadReceiptKeeps,
             ReleaseReadClaimKeeps, RequirePendingReceiptKeeps, ApproveSendsKeeps
  <1>4. ASSUME NEW a \in Actors,
               ApproveRecords(a) \/ DeclineReceipt(a) \/ CompleteDeliveryReceipt(a) \/ ClaimDeliveryReceipt(a) \/
               SendDeliveryReceipt(a) \/ ReleaseReads(a) \/ ReleaseDeliveryReceiptClaim(a)
        PROVE  MaInv'
    BY <1>4, ApproveRecordsKeeps, DeclineReceiptKeeps, CompleteDeliveryReceiptKeeps, ClaimDeliveryReceiptKeeps,
             SendDeliveryReceiptKeeps, ReleaseReadsKeeps, ReleaseDeliveryReceiptClaimKeeps
  <1>5. ASSUME NEW a \in Actors,
               ReadRow(a) \/ Archive(a) \/ MarkReported(a) \/ ReadForSeal(a) \/ JudgeSeal(a) \/ SetVerificationSeal(a)
               \/ ProcessRecall(a) \/ LockUnreadForRecall(a) \/ DeleteRecalled(a)
        PROVE  MaInv'
    BY <1>5, ReadRowKeeps, ArchiveKeeps, MarkReportedKeeps, ReadForSealKeeps, JudgeSealKeeps, SetVerificationSealKeeps,
             ProcessRecallKeeps, LockUnreadForRecallKeeps, DeleteRecalledKeeps
  <1>6. ASSUME NEW a \in Actors,
               ReadSent(a) \/ ClaimRecall(a) \/ SendRecall(a) \/ ProcessReceipt(a) \/ ReadSenderLists(a) \/
               ChangeMailboxSenderList(a)
        PROVE  MaInv'
    BY <1>6, ReadSentKeeps, ClaimRecallKeeps, SendRecallKeeps, ProcessReceiptKeeps, ReadSenderListsKeeps,
             ChangeMailboxSenderListKeeps
  <1> QED
    BY <1>1, <1>2, <1>3, <1>4, <1>5, <1>6 DEF MaNext

\* The invariant is inductive, for any readers, receivers and seals.
LEMMA MaInductive == MaSpec => []MaInv
  BY MaStart, MaKeeps, PTL DEF MaSpec

--------------------------------------------------------------------------------
\* The marks of MarksKept, as what one step does.
KeptRow == /\ got.seal # {} /\ got'.seal # got.seal => got'.sealGen > got.sealGen
           /\ got.reported => got'.reported
KeptRoster == sentMsg.roster \subseteq sentMsg'.roster
KeptLists == \A e, f \in Blockable : lists'.of[e] # lists.of[e] /\ lists'.of[f] # lists.of[f] => e = f
KeptMarks == KeptRow /\ KeptRoster /\ KeptLists

\* A row written with its marks.
LEMMA QuietRow ==
    ASSUME got \in GotRows, NEW row \in GotRows, row.seal = got.seal, got.reported => row.reported,
        Written(row) \/ UNCHANGED got
    PROVE  KeptRow
  BY WrittenIs DEF KeptRow

\* A step on the received message only.
LEMMA QuietKept ==
    ASSUME KeptRow, UNCHANGED <<sentMsg, lists>>
    PROVE  KeptMarks
  BY DEF KeptMarks, KeptRoster, KeptLists

\* A receipt's state is not one of the marks.
LEMMA ReceiptRow ==
    ASSUME got \in GotRows, NEW r \in Receipts
    PROVE  /\ Written([got EXCEPT !.rr = r]) => KeptRow
           /\ Written([got EXCEPT !.dr = r]) => KeptRow
  <1>1. /\ [got EXCEPT !.rr = r] \in GotRows /\ [got EXCEPT !.rr = r].seal = got.seal
        /\ [got EXCEPT !.rr = r].reported = got.reported
    BY DEF GotRows
  <1>2. /\ [got EXCEPT !.dr = r] \in GotRows /\ [got EXCEPT !.dr = r].seal = got.seal
        /\ [got EXCEPT !.dr = r].reported = got.reported
    BY DEF GotRows
  <1> QED
    BY <1>1, <1>2, QuietRow

\* The steps of the receipts keep the marks.
LEMMA MarksOfReceipts ==
    ASSUME MaInv, NEW a \in Actors,
           \/ MaybeSendReadReceipt(a) \/ ReleaseReadClaim(a) \/ ApproveRecords(a) \/ DeclineReceipt(a)
           \/ ClaimDeliveryReceipt(a) \/ ReleaseDeliveryReceiptClaim(a)
    PROVE  KeptMarks
  <1>1. got \in GotRows /\ StagesFit(act[a])
    BY MaParts
  <1>2. UNCHANGED <<sentMsg, lists>>
    BY DEF MaybeSendReadReceipt, ReleaseReadClaim, ApproveRecords, DeclineReceipt, ClaimDeliveryReceipt,
       ReleaseDeliveryReceiptClaim, MaUnch
  <1>3. \/ \E r \in Receipts : Written([got EXCEPT !.rr = r]) \/ Written([got EXCEPT !.dr = r])
        \/ UNCHANGED got
    <2>1. {"none", "pending", "sent", "declined"} \subseteq Receipts
      BY DEF Receipts
    <2>2. CASE MaybeSendReadReceipt(a)
      BY <2>1, <2>2 DEF MaybeSendReadReceipt
    <2>3. CASE ReleaseReadClaim(a)
      BY <2>1, <2>3 DEF ReleaseReadClaim
    <2>4. CASE ApproveRecords(a)
      BY <2>1, <2>4 DEF ApproveRecords
    <2>5. CASE DeclineReceipt(a)
      BY <2>1, <2>5 DEF DeclineReceipt
    <2>6. CASE ClaimDeliveryReceipt(a)
      BY <2>1, <2>6 DEF ClaimDeliveryReceipt
    <2>7. CASE ReleaseDeliveryReceiptClaim(a)
      BY <2>1, <2>7 DEF ReleaseDeliveryReceiptClaim
    <2> QED
      BY <2>2, <2>3, <2>4, <2>5, <2>6, <2>7
  <1>4. KeptRow
    <2>1. CASE UNCHANGED got
      BY <2>1 DEF KeptRow
    <2>2. CASE \E r \in Receipts : Written([got EXCEPT !.rr = r]) \/ Written([got EXCEPT !.dr = r])
      BY <1>1, <2>2, ReceiptRow
    <2> QED
      BY <1>3, <2>1, <2>2
  <1> QED
    BY <1>2, <1>4, QuietKept

\* A seal gives way to one of a newer generation: the one judged is the one there.
LEMMA MarksOfSeal ==
    ASSUME MaInv, NEW a \in Actors, SetVerificationSeal(a)
    PROVE  KeptMarks
  <1>1. got \in GotRows /\ act[a] \in MaActs /\ GotFits(act[a], got)
    BY MaParts
  <1>2. act[a].pc = "write" /\ act[a].op = "seal" /\ UNCHANGED <<sentMsg, lists>>
    BY DEF SetVerificationSeal, MaUnch
  <1>3. CASE Fresh(a)
    <2> DEFINE row == [got EXCEPT !.seal = act[a].arg, !.sealGen = act[a].gen]
    <2>1. act[a].arg \in ActArgs /\ act[a].gen \in Nat
      BY <1>1 DEF MaActs
    <2>2. row \in GotRows /\ row.sealGen = act[a].gen /\ row.reported = got.reported
      BY <1>1, <2>1 DEF GotRows
    <2>3. Written(row)
      BY <1>3 DEF SetVerificationSeal
    <2> HIDE DEF row
    <2>4. got'.sealGen = act[a].gen /\ got'.reported = got.reported
      BY <1>1, <2>2, <2>3, WrittenIs
    <2>5. got.seal = {} \/ got.sealGen < act[a].gen
      BY <1>1, <1>2, <1>3 DEF GotFits, Fresh
    <2>6. got.sealGen \in Nat
      BY <1>1 DEF GotRows
    <2>7. KeptRow
      BY <2>1, <2>4, <2>5, <2>6 DEF KeptRow
    <2> QED
      BY <1>2, <2>7, QuietKept
  <1>4. CASE ~Fresh(a)
    BY <1>2, <1>4, QuietKept DEF SetVerificationSeal, KeptRow
  <1> QED
    BY <1>3, <1>4

\* The other writes of the row keep them.
LEMMA MarksOfRow ==
    ASSUME MaInv, NEW a \in Actors,
        WriteFlag(a) \/ Archive(a) \/ MarkReported(a) \/ LockUnreadForRecall(a) \/ DeleteRecalled(a)
    PROVE  KeptMarks
  <1>1. got \in GotRows
    BY MaParts
  <1>2. UNCHANGED <<sentMsg, lists>>
    BY DEF WriteFlag, Archive, MarkReported, LockUnreadForRecall, DeleteRecalled, MaUnch
  <1>3. KeptRow
    <2>1. CASE WriteFlag(a)
      <3> DEFINE f == act[a].op = "mark_read"
                 k == got.rev + 1
      <3>1. got' = [got EXCEPT !.read = f, !.rev = k] \/ got' = got
        BY <2>1 DEF WriteFlag
      <3> HIDE DEF f, k
      <3>2. got'.seal = got.seal /\ got'.reported = got.reported
        BY <1>1, <3>1 DEF GotRows
      <3> QED
        BY <3>2 DEF KeptRow
    <2>2. CASE Archive(a)
      <3> DEFINE row == [got EXCEPT !.folder = "archive"]
      <3>1. row \in GotRows /\ row.seal = got.seal /\ row.reported = got.reported
        BY <1>1 DEF GotRows
      <3>2. Written(row) \/ UNCHANGED got
        BY <2>2 DEF Archive
      <3> QED
        BY <1>1, <3>1, <3>2, QuietRow
    <2>3. CASE MarkReported(a)
      <3> DEFINE row == [got EXCEPT !.reported = TRUE, !.folder = "junk"]
      <3>1. row \in GotRows /\ row.seal = got.seal /\ row.reported = TRUE
        BY <1>1 DEF GotRows
      <3>2. Written(row) \/ UNCHANGED got
        BY <2>3 DEF MarkReported
      <3> HIDE DEF row
      <3> QED
        BY <1>1, <3>1, <3>2, QuietRow
    <2>4. CASE LockUnreadForRecall(a)
      BY <1>1, <2>4, QuietRow DEF LockUnreadForRecall
    <2>5. CASE DeleteRecalled(a)
      <3>1. got'.seal = got.seal /\ got'.reported = got.reported
        BY <1>1, <2>5 DEF GotRows, DeleteRecalled
      <3> QED
        BY <3>1 DEF KeptRow
    <2> QED
      BY <2>1, <2>2, <2>3, <2>4, <2>5
  <1> QED
    BY <1>2, <1>3, QuietKept

\* The writes of the sender's copy and of the lists keep them: what was read is what is there.
LEMMA MarksOfSender ==
    ASSUME MaInv, NEW a \in Actors, ClaimRecall(a) \/ SendRecall(a) \/ ProcessReceipt(a) \/ ChangeMailboxSenderList(a)
    PROVE  KeptMarks
  <1>1. /\ sentMsg \in SentRows /\ lists \in ListRecs /\ act[a] \in MaActs /\ SentFits(act[a], sentMsg)
        /\ ListFits(act[a], lists)
        /\ StagesFit(act[a])
    BY MaParts
  <1>2. KeptRow
    BY DEF ClaimRecall, SendRecall, ProcessReceipt, ChangeMailboxSenderList, KeptRow
  <1> DEFINE k == sentMsg.rev + 1
  <1>3. KeptRoster
    <2>1. CASE ClaimRecall(a) \/ SendRecall(a) \/ ChangeMailboxSenderList(a)
      <3>1. sentMsg' = sentMsg \/ sentMsg' = [sentMsg EXCEPT !.recall = TRUE,
                !.rev = k] \/ sentMsg' = [sentMsg EXCEPT !.recall = FALSE, !.rev = k]
        BY <2>1 DEF ClaimRecall, SendRecall, ChangeMailboxSenderList
      <3> HIDE DEF k
      <3>2. sentMsg'.roster = sentMsg.roster
        BY <1>1, <3>1 DEF SentRows
      <3> QED
        BY <3>2 DEF KeptRoster
    <2>2. CASE ProcessReceipt(a)
      <3> DEFINE r == act[a].sent.roster \cup {act[a].arg}
      <3>1. UNCHANGED sentMsg \/ (sentMsg' = [sentMsg EXCEPT !.roster = r, !.rev = k] /\ FreshSent(a))
        BY <2>2 DEF ProcessReceipt
      <3>2. FreshSent(a) => sentMsg.roster \subseteq r
        BY <1>1 DEF SentFits, FreshSent
      <3> HIDE DEF k, r
      <3>3. UNCHANGED sentMsg \/ (sentMsg'.roster = r /\ FreshSent(a))
        BY <1>1, <3>1 DEF SentRows
      <3> QED
        BY <3>2, <3>3 DEF KeptRoster
    <2> QED
      BY <2>1, <2>2
  <1>4. KeptLists
    <2>1. CASE UNCHANGED lists
      BY <2>1 DEF KeptLists
    <2>2. CASE ChangeMailboxSenderList(a) /\ ListsFresh(a)
      <3> DEFINE m == MoveSenderEntry(act[a].lists.of, act[a].arg)
      <3>1. lists'.of = m
        BY <2>2 DEF ChangeMailboxSenderList
      <3>2. act[a].lists.of = lists.of /\ lists.of \in [Blockable -> {"none", "safe", "blocked"}]
        BY <1>1, <2>2 DEF ListFits, ListsFresh, ListRecs
      <3>3. \A e, f \in Blockable : m[e] # lists.of[e] /\ m[f] # lists.of[f] => e = f
        BY <3>2, SenderMoved
      <3> HIDE DEF m
      <3> QED
        BY <3>1, <3>3 DEF KeptLists
    <2>3. UNCHANGED lists \/ (ChangeMailboxSenderList(a) /\ ListsFresh(a))
      BY DEF ClaimRecall, SendRecall, ProcessReceipt, ChangeMailboxSenderList
    <2> QED
      BY <2>1, <2>2, <2>3
  <1> QED
    BY <1>2, <1>3, <1>4 DEF KeptMarks

\* The other steps write none of them.
LEMMA MarksOfQuiet ==
    ASSUME NEW a \in Actors,
        BeginAct(a) \/ ReadBefore(a) \/ SendReadReceipt(a) \/ RequirePendingReceipt(a) \/ ApproveSends(a) \/
           CompleteDeliveryReceipt(a) \/ SendDeliveryReceipt(a) \/ ReleaseReads(a) \/ ReadRow(a) \/
           ReadForSeal(a) \/ JudgeSeal(a) \/ ProcessRecall(a) \/ ReadSent(a) \/ ReadSenderLists(a)
    PROVE  KeptMarks
  <1>1. UNCHANGED <<got, sentMsg, lists>>
    BY DEF BeginAct, ReadBefore, SendReadReceipt, RequirePendingReceipt, ApproveSends, CompleteDeliveryReceipt,
           SendDeliveryReceipt, ReleaseReads, ReadRow, ReadForSeal, JudgeSeal, ProcessRecall, ReadSent, ReadSenderLists,
           MaUnch
  <1> QED
    BY <1>1, QuietKept DEF KeptRow

\* Every step keeps them.
LEMMA MarksStep ==
    ASSUME MaInv, [MaNext]_mavars
    PROVE  KeptMarks
  <1>1. CASE UNCHANGED mavars \/ Rekey
    <2>1. UNCHANGED <<got, sentMsg, lists>>
      BY <1>1 DEF mavars, Rekey
    <2> QED
      BY <2>1, QuietKept DEF KeptRow
  <1>2. ASSUME NEW a \in Actors,
               \/ MaybeSendReadReceipt(a) \/ ReleaseReadClaim(a) \/ ApproveRecords(a) \/ DeclineReceipt(a)
               \/ ClaimDeliveryReceipt(a) \/ ReleaseDeliveryReceiptClaim(a) \/ SetVerificationSeal(a)
               \/ WriteFlag(a) \/ Archive(a) \/ MarkReported(a) \/ LockUnreadForRecall(a) \/ DeleteRecalled(a)
               \/ ClaimRecall(a) \/ SendRecall(a) \/ ProcessReceipt(a) \/ ChangeMailboxSenderList(a)
        PROVE  KeptMarks
    BY <1>2, MarksOfReceipts, MarksOfSeal, MarksOfRow, MarksOfSender
  <1> QED
    BY <1>1, <1>2, MarksOfQuiet DEF MaNext

\* What goes out goes out once, and a recall deletes what was unread.
LEMMA MaInvHolds == MaInv => ReceiptOnce /\ RecalledUnread
  <1>1. ASSUME MaInv, ~maGhost.double PROVE receipts.read <= 1 /\ receipts.delivery <= 1
    BY <1>1, Recorded, OnceAtMost
  <1>2. ASSUME MaInv PROVE recallNotices <= 1
    BY <1>2 DEF MaInv, NoticeOnce
  <1> QED
    BY <1>1, <1>2 DEF MaInv, ReceiptOnce

\* However requests and workers cross on one message, a receipt of a kind and a recall notice go out
\* once, but for crossing approvals; a recall deletes only what was unread when it was locked, or was
\* opened after; a verification seal gives way only to a newer generation's, a report and the roster
\* stay, a sender moves on its own entry only (BaseMessageRoute, ScanQueueJob).
THEOREM MessageActionsHold == MaSpec => ActionsHold
  <1>1. MaSpec => [](ReceiptOnce /\ RecalledUnread)
    BY MaInductive, MaInvHolds, PTL
  <1>2. MaSpec => MarksKept
    BY MaInductive, MarksStep, PTL DEF MaSpec, MarksKept, KeptMarks, KeptRow, KeptRoster, KeptLists
  <1> QED
    BY <1>1, <1>2 DEF ActionsHold

================================================================================
