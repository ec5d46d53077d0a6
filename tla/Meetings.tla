-------------------------------- MODULE Meetings -------------------------------
(****************************************************************************)
(* One meeting, and in the second half a room that takes bookings.          *)
(* The meeting: the organizer's row, the copy of a guest of this server,    *)
(* and the iTIP mail between them, which arrives in any order.              *)
(* MeetingSchedulingJob runs on several replicas (a sealed meeting is       *)
(* invited by the route that saved it), ScanQueueJob's workers apply what   *)
(* arrives, and both people act on BaseCalendarEventRoute.  A version that  *)
(* was read is modelled by whether the copy is still fresh.                 *)
(****************************************************************************)
EXTENDS Naturals, FiniteSets

CONSTANTS
    Replicas, Route,   \* the job's replicas; the route call that saved a sealed meeting
    Workers,           \* ScanQueueJob's workers
    Times,             \* the times the meeting may be held at
    MaxSeq,            \* bound: the meeting's revisions
    MaxAsks            \* bound: what the guest sends to the organizer

ASSUME MeetingAssumption == MaxSeq \in Nat \ {0} /\ MaxAsks \in Nat /\ Route \notin Replicas /\ Times # {}

VARIABLES
    org,       \* the organizer's row
    guest,     \* the guest's copy, live, in the trash or not there
    sealed,    \* the organizer's calendar is protected by zero-access encryption
    mail,      \* iTIP messages under way
    inbox,     \* the REQUESTs and CANCELs in the guest's mailbox, the proposals in the organizer's
    snd,       \* each sender: the copy it read and whether it still is the row's version
    work,      \* each worker: the message it applies and whether it found a copy
    asks, mailed,
    excuse     \* what went wrong that no later step repairs

mtVars == <<org, guest, sealed, mail, inbox, snd, work, asks, mailed, excuse>>
Senders == Replicas \cup {Route}

--------------------------------------------------------------------------------
NewMeeting(t) == [seq |-> 1, sent |-> 0, time |-> t, on |-> TRUE, gone |-> FALSE, noticed |-> FALSE, resp |-> "none"]
NoCopy == [st |-> "none", seq |-> 0, time |-> CHOOSE t \in Times : TRUE, mine |-> "none"]
Msg(k, s, t, a) == [kind |-> k, seq |-> s, time |-> t, resp |-> a]
Nothing == Msg("none", 0, NoCopy.time, "none")
Resting == [at |-> "idle", fresh |-> FALSE, msg |-> Nothing]
Reading(k, o) == [at |-> "read", fresh |-> TRUE, msg |-> Msg(k, o.seq, o.time, o.resp)]
Spare == [at |-> "idle", msg |-> Nothing, had |-> FALSE]
MtInit ==
    /\ org = NewMeeting(NoCopy.time)
    /\ sealed \in BOOLEAN /\ guest = NoCopy /\ mail = {} /\ inbox = {}
    /\ snd = [r \in Senders |-> IF r = Route /\ sealed THEN Reading("request", org) ELSE Resting]
    /\ work = [w \in Workers |-> Spare] /\ asks = 0 /\ mailed = {} /\ excuse = {}

\* Every save of the organizer's row carries its version, so it makes the copies read before it out of date.
OutOfDate(S) == [r \in Senders |-> [S[r] EXCEPT !.fresh = FALSE]]
SavesOrg(o) == org' = o /\ snd' = OutOfDate(snd)
Excused(why, p) == excuse' = IF p THEN excuse \cup {why} ELSE excuse

--------------------------------------------------------------------------------
(* The organizer, on BaseCalendarEventRoute                                 *)
\* sendProtectedInvitations(): the call that saved a sealed meeting invites, when the client sent its content.
SavesAndInvites(o, content) ==
    /\ org' = o /\ (sealed => snd[Route].at = "idle")
    /\ snd' = IF sealed /\ content /\ o.on THEN [OutOfDate(snd) EXCEPT ![Route] = Reading("request", o)] ELSE OutOfDate(snd)
    /\ excuse' = excuse \cup {why \in {"unsent", "reinstated"} : IF why = "unsent" THEN sealed /\ ~content /\ o.on ELSE o.on /\ ~org.on /\ org.noticed}
    /\ UNCHANGED <<guest, sealed, mail, inbox, work, asks, mailed>>
\* isSchedulingRelevantChange(): a new time or status is a new revision; the answers stay as they are.
Revised(o) == [o EXCEPT !.seq = @ + 1]
Move(t, content) ==
    /\ org.seq < MaxSeq /\ ~org.gone /\ t # org.time
    /\ SavesAndInvites([Revised(org) EXCEPT !.time = t], content)
SetStatus(content) ==
    /\ org.seq < MaxSeq /\ ~org.gone
    /\ SavesAndInvites([Revised(org) EXCEPT !.on = ~@], content)
\* delete() of BaseScopedChildRoute: a soft delete, which RecoverableRepoUtils makes a new version.
Delete ==
    /\ ~org.gone /\ SavesOrg([org EXCEPT !.gone = TRUE])
    /\ UNCHANGED <<guest, sealed, mail, inbox, work, asks, mailed, excuse>>
\* acceptProposal() moves the meeting to whatever time the proposal names, however old it is.
AcceptProposal(p) ==
    /\ p \in inbox /\ p.kind = "proposal" /\ ~org.gone /\ org.seq < MaxSeq
    /\ SavesAndInvites([Revised(org) EXCEPT !.time = p.time, !.resp = "yes"], TRUE)

--------------------------------------------------------------------------------
(* MeetingSchedulingJob, and the route for a sealed meeting                 *)
\* processInviteCandidates(), sendCancellations()
InvitePending == ~sealed /\ org.on /\ ~org.gone /\ org.sent # org.seq
CancelPending == (~org.on \/ org.gone) /\ ~org.noticed
ReadCandidate(r, k) ==
    /\ r # Route /\ snd[r].at = "idle"
    /\ \/ k = "request" /\ InvitePending
       \/ k = "cancel" /\ CancelPending
    /\ snd' = [snd EXCEPT ![r] = Reading(k, org)]
    /\ UNCHANGED <<org, guest, sealed, mail, inbox, work, asks, mailed, excuse>>
\* claim(): a versioned update stamps the revision, or the notice, before anything is sent.
StillFresh(r) == snd[r].fresh
Claim(r) ==
    /\ snd[r].at = "read"
    /\ IF StillFresh(r)
       THEN /\ org' = IF snd[r].msg.kind = "request" THEN [org EXCEPT !.sent = snd[r].msg.seq] ELSE [org EXCEPT !.noticed = TRUE]
            /\ snd' = [OutOfDate(snd) EXCEPT ![r].at = "send"] /\ UNCHANGED excuse
       ELSE snd' = [snd EXCEPT ![r] = Resting] /\ Excused("unsent", r = Route) /\ UNCHANGED org
    /\ UNCHANGED <<guest, sealed, mail, inbox, work, asks, mailed>>
\* sendToAttendees(); a crash or a transport failure after the claim loses the message.
SendInvite(r) ==
    /\ snd[r].at = "send" /\ snd' = [snd EXCEPT ![r] = Resting]
    /\ mail' = mail \cup {snd[r].msg} /\ mailed' = mailed \cup {<<snd[r].msg.kind, snd[r].msg.seq>>}
    /\ Excused("twice", <<snd[r].msg.kind, snd[r].msg.seq>> \in mailed)
    /\ UNCHANGED <<org, guest, sealed, inbox, work, asks>>
LoseInvite(r) ==
    /\ snd[r].at = "send" \/ (r = Route /\ snd[r].at = "read")
    /\ snd' = [snd EXCEPT ![r] = Resting] /\ Excused("lost", TRUE)
    /\ UNCHANGED <<org, guest, sealed, mail, inbox, work, asks, mailed>>

--------------------------------------------------------------------------------
(* ScanQueueJob: the message is filed, then its iTIP method is looked at     *)
Arrives(w, m) ==
    /\ work[w].at = "idle" /\ m \in mail /\ mail' = mail \ {m}
    /\ inbox' = IF m.kind \in {"request", "cancel", "proposal"} THEN inbox \cup {m} ELSE inbox
Applying(m, had) == [at |-> "apply", msg |-> m, had |-> had]
\* processItipRequest(), processItipCancel(): the row found, and what its sequence says.
Superseded(m, row) == m.seq <= row.seq
TakeRequest(w, m) ==
    /\ Arrives(w, m) /\ m.kind = "request"
    /\ LET had == guest.st = "live" IN
       work' = IF had /\ Superseded(m, guest) THEN work ELSE [work EXCEPT ![w] = Applying(m, had)]
    /\ UNCHANGED <<org, guest, sealed, snd, asks, mailed, excuse>>
TakeCancel(w, m) ==
    /\ Arrives(w, m) /\ m.kind = "cancel"
    /\ work' = IF guest.st = "live" /\ m.seq >= guest.seq THEN [work EXCEPT ![w] = Applying(m, TRUE)] ELSE work
    /\ Excused("overtook", guest.st = "none")
    /\ UNCHANGED <<org, guest, sealed, snd, asks, mailed>>
\* processItipReply(), processItipChangeRequest()
TakeAnswer(w, m) ==
    /\ Arrives(w, m) /\ m.kind \in {"reply", "change"}
    /\ work' = IF org.gone \/ m.seq < org.seq THEN work ELSE [work EXCEPT ![w] = Applying(m, TRUE)]
    /\ UNCHANGED <<org, guest, sealed, snd, asks, mailed, excuse>>
TakeProposal(w, m) ==
    /\ Arrives(w, m) /\ m.kind = "proposal"
    /\ UNCHANGED <<org, guest, sealed, snd, work, asks, mailed, excuse>>

\* create() at the uid derived from the meeting, or updateCalendarEventWithRetry(); a uid in use is a conflict that drops the message.
Filed(m, a) == [st |-> "live", seq |-> m.seq, time |-> m.time, mine |-> a]
ApplyRequest(w) ==
    LET m == work[w].msg IN
    /\ work[w].at = "apply" /\ m.kind = "request" /\ work' = [work EXCEPT ![w] = Spare]
    /\ guest' = IF work[w].had THEN (IF guest.st = "live" /\ ~Superseded(m, guest) THEN Filed(m, m.resp) ELSE guest)
                ELSE IF guest.st = "none" THEN Filed(m, m.resp) ELSE guest
    /\ Excused("clash", ~work[w].had /\ guest.st = "live" /\ m.seq > guest.seq)
    /\ UNCHANGED <<org, sealed, mail, inbox, snd, asks, mailed>>
\* deleteReceivedEventCopy(): whatever the copy has become.
ApplyCancel(w) ==
    /\ work[w].at = "apply" /\ work[w].msg.kind = "cancel" /\ work' = [work EXCEPT ![w] = Spare]
    /\ guest' = IF guest.st = "live" THEN [guest EXCEPT !.st = "trash"] ELSE guest
    /\ UNCHANGED <<org, sealed, mail, inbox, snd, asks, mailed, excuse>>
\* The row is read again and its sequence looked at again.
Stale_Unchecked(m) == FALSE
Stale(m) == m.seq < org.seq
ApplyReply(w) ==
    LET m == work[w].msg IN
    /\ work[w].at = "apply" /\ m.kind = "reply" /\ work' = [work EXCEPT ![w] = Spare]
    /\ IF org.gone \/ Stale(m) THEN UNCHANGED <<org, snd>> ELSE SavesOrg([org EXCEPT !.resp = m.resp])
    /\ UNCHANGED <<guest, sealed, mail, inbox, asks, mailed, excuse>>
ApplyChange(w) ==
    LET m == work[w].msg IN
    /\ work[w].at = "apply" /\ m.kind = "change" /\ work' = [work EXCEPT ![w] = Spare]
    /\ IF org.gone \/ ~org.on \/ sealed \/ Stale(m) \/ m.time = org.time THEN UNCHANGED <<org, snd>>
       ELSE org.seq < MaxSeq /\ SavesOrg([Revised(org) EXCEPT !.time = m.time, !.resp = "yes"])
    /\ UNCHANGED <<guest, sealed, mail, inbox, asks, mailed, excuse>>

--------------------------------------------------------------------------------
(* The guest, on BaseCalendarEventRoute                                     *)
Asks(m) == asks < MaxAsks /\ asks' = asks + 1 /\ mail' = mail \cup {m}
Answers == {"yes", "no"}
Answered(a, row) == IF a = "no" THEN [row EXCEPT !.st = "trash"] ELSE [row EXCEPT !.mine = a]
\* respond(): the answer goes out with the copy's own revision.
Respond(a) ==
    /\ guest.st = "live" /\ guest' = Answered(a, guest)
    /\ Asks(Msg("reply", guest.seq, guest.time, a))
    /\ UNCHANGED <<org, sealed, inbox, snd, work, mailed, excuse>>
\* respondToInvite(), putInviteOnCalendar(): the answer goes out with the message's revision; a trashed copy is purged and filed anew.
Older(m) == \E n \in inbox : n.kind # "proposal" /\ n.seq >= m.seq /\ n # m
RespondToInvite(m, a) ==
    /\ m \in inbox /\ m.kind = "request"
    /\ guest' = IF guest.st = "live" THEN Answered(a, IF m.seq > guest.seq THEN Filed(m, m.resp) ELSE guest)
                ELSE IF a = "yes" THEN Filed(m, a) ELSE guest
    /\ Asks(Msg("reply", m.seq, m.time, a))
    /\ Excused("old message", guest.st # "live" /\ a = "yes" /\ Older(m))
    /\ UNCHANGED <<org, sealed, inbox, snd, work, mailed>>
\* removeInvite()
RemoveInvite(m) ==
    /\ m \in inbox /\ m.kind = "cancel" /\ guest.st = "live" /\ guest' = [guest EXCEPT !.st = "trash"]
    /\ UNCHANGED <<org, sealed, mail, inbox, snd, work, asks, mailed, excuse>>
\* proposeNewTime()
ProposeNewTime(m, t) ==
    /\ m \in inbox /\ m.kind = "request" /\ t # m.time /\ Asks(Msg("proposal", m.seq, t, "none"))
    /\ UNCHANGED <<org, guest, sealed, inbox, snd, work, mailed, excuse>>
\* requestChange(), which the meeting's permissions allow
RequestChange(t) ==
    /\ guest.st = "live" /\ t # guest.time /\ Asks(Msg("change", guest.seq, t, "none"))
    /\ UNCHANGED <<org, guest, sealed, inbox, snd, work, mailed, excuse>>
\* update() of the guest's own copy counts as a revision like the organizer's, and hides the organizer's next one.
EditCopy(t) ==
    /\ guest.st = "live" /\ t # guest.time /\ guest.seq < MaxSeq
    /\ guest' = [Revised(guest) EXCEPT !.time = t] /\ Excused("edited", TRUE)
    /\ UNCHANGED <<org, sealed, mail, inbox, snd, work, asks, mailed>>

MtNext ==
    \/ \E t \in Times, c \in BOOLEAN : Move(t, c)
    \/ \E c \in BOOLEAN : SetStatus(c)
    \/ Delete \/ \E p \in inbox : AcceptProposal(p)
    \/ \E r \in Senders, k \in {"request", "cancel"} : ReadCandidate(r, k)
    \/ \E r \in Senders : Claim(r) \/ SendInvite(r) \/ LoseInvite(r)
    \/ \E w \in Workers, m \in mail : TakeRequest(w, m) \/ TakeCancel(w, m) \/ TakeAnswer(w, m) \/ TakeProposal(w, m)
    \/ \E w \in Workers : ApplyRequest(w) \/ ApplyCancel(w) \/ ApplyReply(w) \/ ApplyChange(w)
    \/ \E a \in Answers : Respond(a)
    \/ \E m \in inbox, a \in Answers : RespondToInvite(m, a)
    \/ \E m \in inbox : RemoveInvite(m) \/ \E t \in Times : ProposeNewTime(m, t)
    \/ \E t \in Times : RequestChange(t) \/ EditCopy(t)
MtSpec == MtInit /\ [][MtNext]_mtVars

--------------------------------------------------------------------------------
Quiet == mail = {} /\ (\A r \in Senders : snd[r].at = "idle") /\ (\A w \in Workers : work[w].at = "idle") /\ ~InvitePending /\ ~CancelPending
(****************************************************************************)
(* MeetingSchedulingJob: the claim by version "sends once": no revision's   *)
(* REQUEST and no CANCEL is mailed twice, whatever replicas read, the       *)
(* organizer saves and answers arrive in between; and when everything sent  *)
(* has been applied the guest's calendar agrees with the organizer's:       *)
(* a copy the guest keeps is of the last revision and of a meeting that is  *)
(* still on, unless one of the named things went wrong on the way.          *)
(****************************************************************************)
InvitedOnce == "twice" \notin excuse
GuestCurrent ==
    (Quiet /\ excuse = {}) =>
        IF org.on /\ ~org.gone THEN guest.st = "trash" \/ (guest.st = "live" /\ guest.seq = org.seq /\ guest.time = org.time)
        ELSE guest.st # "live"
(****************************************************************************)
(* processItipReply() looks at the sequence again on the row it saves, for  *)
(* a reply that was written for a meeting "that has since changed" must not *)
(* be shown as its attendee's answer: an answer recorded by a reply was     *)
(* given to the time the meeting is held at.                                *)
(****************************************************************************)
AnswerIsCurrent ==
    [][\A w \in Workers : (work[w].msg.kind = "reply" /\ work'[w] = Spare /\ org'.resp # org.resp)
                             => work[w].msg.time = org.time \/ "edited" \in excuse]_mtVars

(****************************************************************************)
(* Organizer and guest agree, as far as what was mailed allows              *)
(* (MeetingSchedulingJob, ScanQueueJob).                                    *)
(****************************************************************************)
MeetingAgreed == [](InvitedOnce /\ GuestCurrent) /\ AnswerIsCurrent

--------------------------------------------------------------------------------
(****************************************************************************)
(* A room that accepts bookings by itself: ScanQueueJob's workers decide    *)
(* the REQUESTs in its mailbox (decideResourceBooking()), file them and     *)
(* answer (finalizeResourceDecision()).  A meeting is the set of hours its  *)
(* occurrences take.  It shares no state with the meeting above.            *)
(****************************************************************************)
CONSTANTS
    Scanners,        \* ScanQueueJob's workers
    Bookers,         \* meetings that ask for the room
    Spans,           \* the sets of hours meetings take
    MaxHours,        \* maxDurationMinutes, and the occurrences decideResourceBooking() is willing to expand
    MaxRevisions     \* bound: revisions of a meeting

ASSUME BookingAssumption == MaxHours \in Nat /\ MaxRevisions \in Nat

VARIABLES
    asked,     \* each meeting's revisions so far
    requests,  \* REQUESTs and CANCELs in the room's mailbox
    room,      \* the room's calendar: each meeting's row
    scan,      \* what each worker is doing
    told,      \* the answers mailed
    raced      \* a decision was filed after another worker changed the calendar it was made from, or a row was deleted
               \* that had become another revision's

bkVars == <<asked, requests, room, scan, told, raced>>
NoRow == [st |-> "none", seq |-> 0, hours |-> {}, yes |-> FALSE]
Unused == [at |-> "idle", id |-> "none", seq |-> 0, hours |-> {}, had |-> FALSE, yes |-> FALSE, moved |-> FALSE]
BkInit ==
    /\ asked = [b \in Bookers |-> 0] /\ requests = {} /\ room = [b \in Bookers |-> NoRow]
    /\ scan = [s \in Scanners |-> Unused] /\ told = {} /\ raced = FALSE

\* The organizer's server sends the meeting, moves it, or (no hours) cancels it.
Ask(b, H) ==
    /\ asked[b] < MaxRevisions /\ asked' = [asked EXCEPT ![b] = @ + 1] /\ (H = {} => asked[b] > 0)
    /\ requests' = requests \cup {[id |-> b, seq |-> asked[b] + 1, hours |-> H]}
    /\ UNCHANGED <<room, scan, told, raced>>
Live(b) == room[b].st = "live"
Changes(s) == [x \in Scanners |-> IF x = s THEN scan[x] ELSE [scan[x] EXCEPT !.moved = TRUE]]
\* bookingConflicts(), for every occurrence and every other meeting on the calendar
Conflicts_FirstOnly(m) == \E b \in Bookers \ {m.id} : Live(b) /\ (CHOOSE h \in m.hours : TRUE) \in room[b].hours
Conflicts(m) == \E b \in Bookers \ {m.id} : Live(b) /\ m.hours \cap room[b].hours # {}
DecideBooking(m) == Cardinality(m.hours) <= MaxHours /\ ~Conflicts(m)
\* processItipRequest() up to its decision; processItipCancel() deletes the row it found.
Look(s, m) ==
    /\ scan[s].at = "idle" /\ m \in requests /\ requests' = requests \ {m}
    /\ scan' = IF Live(m.id) /\ m.seq <= room[m.id].seq THEN scan
               ELSE [scan EXCEPT ![s] = [at |-> "decided", id |-> m.id, seq |-> m.seq, hours |-> m.hours, had |-> Live(m.id),
                                         yes |-> m.hours # {} /\ DecideBooking(m), moved |-> FALSE]]
    /\ UNCHANGED <<asked, room, told, raced>>
\* The row is created at the meeting's uid, which a row in the trash still holds, or updated when the revision is newer.
FileBooking(s) ==
    LET m == scan[s] row == room[m.id]
        files == IF m.had THEN row.st = "live" /\ m.seq > row.seq ELSE row.st = "none" IN
    /\ m.at = "decided" /\ m.hours # {}
    /\ IF files THEN /\ room' = [room EXCEPT ![m.id] = [st |-> "live", seq |-> m.seq, hours |-> m.hours, yes |-> m.yes]]
                     /\ scan' = [Changes(s) EXCEPT ![s].at = "filed"] /\ raced' = (raced \/ m.moved)
       ELSE scan' = [scan EXCEPT ![s] = Unused] /\ UNCHANGED <<room, raced>>
    /\ UNCHANGED <<asked, requests, told>>
\* finalizeResourceDecision(): a declined meeting leaves the calendar, whatever its row has become, and the organizer is told.
AnswerBooking(s) ==
    LET m == scan[s] IN
    /\ m.at = "filed" /\ told' = told \cup {[id |-> m.id, seq |-> m.seq, yes |-> m.yes]}
    /\ room' = IF m.yes THEN room ELSE [room EXCEPT ![m.id].st = "trash"]
    /\ raced' = (raced \/ (~m.yes /\ room[m.id].seq # m.seq))
    /\ scan' = [(IF m.yes THEN scan ELSE Changes(s)) EXCEPT ![s] = Unused]
    /\ UNCHANGED <<asked, requests>>
CancelBooking(s) ==
    LET m == scan[s] IN
    /\ m.at = "decided" /\ m.hours = {} /\ scan' = [(IF m.had THEN Changes(s) ELSE scan) EXCEPT ![s] = Unused]
    /\ room' = IF m.had THEN [room EXCEPT ![m.id].st = "trash"] ELSE room
    /\ raced' = (raced \/ (m.had /\ room[m.id].seq > m.seq))
    /\ UNCHANGED <<asked, requests, told>>
BkNext ==
    \/ \E b \in Bookers, H \in Spans \cup {{}} : Ask(b, H)
    \/ \E s \in Scanners : FileBooking(s) \/ AnswerBooking(s) \/ CancelBooking(s) \/ \E m \in requests : Look(s, m)
BkSpec == BkInit /\ [][BkNext]_bkVars

--------------------------------------------------------------------------------
(****************************************************************************)
(* decideResourceBooking() accepts a meeting only when none of its          *)
(* occurrences meets another one on the room's calendar: no hour of the     *)
(* room belongs to two meetings it has said yes to, and the organizer whose *)
(* last answer was yes has the room, unless a decision was filed over a     *)
(* calendar that another worker changed after it was read, or a refusal or  *)
(* a cancellation deleted a row that had become another revision's.         *)
(****************************************************************************)
LastAnswer(b) == CHOOSE a \in told : a.id = b /\ \A x \in told : x.id = b => x.seq <= a.seq
RoomBookedOnce ==
    ~raced =>
        /\ \A b, c \in Bookers : (b # c /\ Live(b) /\ Live(c) /\ room[b].yes /\ room[c].yes) => room[b].hours \cap room[c].hours = {}
        /\ \A b \in Bookers : ((\E a \in told : a.id = b) /\ LastAnswer(b).yes /\ room[b].seq = LastAnswer(b).seq /\ room[b].yes)
                               => (Live(b) \/ asked[b] > LastAnswer(b).seq)
================================================================================
