------------------------------ MODULE Folders -------------------------------
(***************************************************************************)
(* Folders.  First the well-known folder of one mailbox and type, found or *)
(* created by callers that race (FolderUtils): its row under a uid derived *)
(* from the mailbox, its ACL, and what an earlier incarnation left behind. *)
(* Then the counts stored on the folder rows (FolderCountUtils): derived   *)
(* from the messages after each change, and healed by reads of a folder.   *)
(***************************************************************************)
EXTENDS Naturals, FiniteSets

CONSTANTS Callers, MaxCalls, MaxShares, MaxFolderFaults,
          Dirs,             \* folders holding messages
          Msgs, Refreshers, MaxChanges, RefreshAttempts

\* A refresh is tried at least once.
ASSUME FoldersAssumption == IsFiniteSet(Msgs) /\ RefreshAttempts \in Nat \ {0}

VARIABLES wkRow,      \* the row at the derived uid: "none", "live" or "trashed"
          wkAcl,      \* the ACL at that uid: [there, parent, grants, rev]
          strays,     \* how many live folders of the type have a uid of their own
          caller,     \* the callers of findOrCreateWellKnownFolder()
          calls, shares, folderFaults,
          wkGhost,    \* ghost: [orphaned, unreset]: what a caller that stopped left half done
          msgAt,      \* [Msgs -> [dir, read]], dir a set: empty when it is deleted
          counted,    \* [Dirs -> [total, unread, rev]]: the folder rows
          refresh,    \* the refreshes after a change
          changes,
          fcGhost     \* ghost: the folders whose stored counts a slower refresh, or one given up, may have left behind

wkvars == <<wkRow, wkAcl, strays, caller, calls, shares, folderFaults, wkGhost>>
fcvars == <<msgAt, counted, refresh, changes, fcGhost>>
flvars == <<wkvars, fcvars>>

-----------------------------------------------------------------------------
(* The well-known folder.                                                  *)

NoCaller == [pc |-> "idle", leftover |-> {}, found |-> FALSE, claimed |-> FALSE, rev |-> 0, tries |-> 0]
NoAcl == [there |-> FALSE, parent |-> "none", grants |-> {}, rev |-> 0]
FreshAcl == [there |-> TRUE, parent |-> "mailbox", grants |-> {}, rev |-> 0]
GoesTo(c, pc) == caller' = [caller EXCEPT ![c].pc = pc]
CallEnds(c) == caller' = [caller EXCEPT ![c] = NoCaller]

\* ensureWellKnownFolders() and each single need of a folder: the oldest live one of the type, if any.
FindExisting(c) ==
    /\ caller[c].pc = "idle" /\ calls < MaxCalls /\ calls' = calls + 1
    /\ GoesTo(c, IF wkRow = "live" THEN "ensure" ELSE IF strays > 0 THEN "idle" ELSE "snapshot")
    /\ UNCHANGED <<wkRow, wkAcl, strays, shares, folderFaults, wkGhost>>

\* What an earlier incarnation left at the uid.
SnapshotLeftover(c) ==
    /\ caller[c].pc = "snapshot"
    /\ caller' = [caller EXCEPT ![c] = [@ EXCEPT !.pc = "claim", !.found = wkAcl.there, !.leftover = wkAcl.grants]]
    /\ UNCHANGED <<wkRow, wkAcl, strays, calls, shares, folderFaults, wkGhost>>

\* RepoUtils.create(): the ACL is claimed, or the one there reused ...
ClaimACL(c) ==
    /\ caller[c].pc = "claim"
    /\ caller' = [caller EXCEPT ![c] = [@ EXCEPT !.pc = "insert", !.claimed = ~wkAcl.there]]
    /\ wkAcl' = IF wkAcl.there THEN wkAcl ELSE FreshAcl
    /\ UNCHANGED <<wkRow, strays, calls, shares, folderFaults, wkGhost>>

\* ... the row inserted under its unique uid ...
InsertRow(c) ==
    /\ caller[c].pc = "insert"
    /\ IF wkRow = "none" THEN wkRow' = "live" /\ GoesTo(c, IF caller[c].found THEN "reset" ELSE "ensure")
       ELSE UNCHANGED wkRow /\ GoesTo(c, IF caller[c].claimed THEN "release" ELSE "reread")
    /\ UNCHANGED <<wkAcl, strays, calls, shares, folderFaults, wkGhost>>

\* ... and the ACL it claimed removed again when the insert fails.
ReleaseACL(c) ==
    /\ caller[c].pc = "release" /\ GoesTo(c, "reread") /\ wkAcl' = NoAcl
    /\ wkGhost' = [wkGhost EXCEPT !.orphaned = TRUE]
    /\ UNCHANGED <<wkRow, strays, calls, shares, folderFaults>>

\* The loser takes the winner's folder; one held by a folder in the trash is created under a uid of its own.
RereadWinner(c) ==
    /\ caller[c].pc = "reread"
    /\ IF wkRow = "live" THEN GoesTo(c, "ensure") /\ UNCHANGED strays
       ELSE /\ CallEnds(c)
            /\ strays' = IF strays = 0 /\ wkRow = "trashed" THEN 1 ELSE strays
    /\ UNCHANGED <<wkRow, wkAcl, calls, shares, folderFaults, wkGhost>>

\* The winner takes the leftover's grants off the ACL and parents it to the mailbox; a version
\* conflict is tried again, three times.
ResetReads(c) ==
    /\ caller[c].pc = "reset"
    /\ caller' = [caller EXCEPT ![c] = IF wkAcl.there THEN [@ EXCEPT !.pc = "resetting", !.rev = wkAcl.rev] ELSE [@ EXCEPT !.pc = "ensure"]]
    /\ UNCHANGED <<wkRow, wkAcl, strays, calls, shares, folderFaults, wkGhost>>

Cleared(c) == [wkAcl EXCEPT !.parent = "mailbox", !.grants = @ \ caller[c].leftover, !.rev = @ + 1]

ResetLeftoverACL(c) ==
    /\ caller[c].pc = "resetting"
    /\ \/ /\ wkAcl.there /\ wkAcl.rev = caller[c].rev
          /\ wkAcl' = Cleared(c) /\ GoesTo(c, "ensure") /\ UNCHANGED wkGhost
       \/ /\ ~wkAcl.there \/ wkAcl.rev # caller[c].rev
          /\ IF caller[c].tries = 2 THEN CallEnds(c) /\ wkGhost' = [wkGhost EXCEPT !.unreset = TRUE]
             ELSE caller' = [caller EXCEPT ![c] = [@ EXCEPT !.pc = "reset", !.tries = caller[c].tries + 1]] /\ UNCHANGED wkGhost
          /\ UNCHANGED wkAcl
    /\ UNCHANGED <<wkRow, strays, calls, shares, folderFaults>>

Missing_Never(c) == FALSE
Missing(c) == ~wkAcl.there

\* An ACL that is missing is created, and one that another caller just created is as good.
EnsureFolderACL(c) ==
    /\ caller[c].pc = "ensure"
    /\ IF Missing(c) THEN GoesTo(c, "create") /\ UNCHANGED wkGhost
       ELSE CallEnds(c) /\ wkGhost' = [wkGhost EXCEPT !.orphaned = @ /\ ~wkAcl.there]
    /\ UNCHANGED <<wkRow, wkAcl, strays, calls, shares, folderFaults>>

CreateACL(c) ==
    /\ caller[c].pc = "create" /\ CallEnds(c)
    /\ wkAcl' = (IF wkAcl.there THEN wkAcl ELSE FreshAcl)
    /\ wkGhost' = [wkGhost EXCEPT !.orphaned = FALSE]
    /\ UNCHANGED <<wkRow, strays, calls, shares, folderFaults>>

\* The server stops; what the caller still had to do is not done.
CallerStops(c) ==
    /\ caller[c].pc # "idle" /\ folderFaults < MaxFolderFaults /\ folderFaults' = folderFaults + 1
    /\ CallEnds(c)
    /\ wkGhost' = [wkGhost EXCEPT !.unreset = @ \/ caller[c].pc \in {"reset", "resetting"}]
    /\ UNCHANGED <<wkRow, wkAcl, strays, calls, shares>>

\* Its owner shares the folder, or puts it in the trash.
ShareFolder ==
    /\ wkRow = "live" /\ wkAcl.there /\ shares < MaxShares /\ shares' = shares + 1
    /\ wkAcl' = [wkAcl EXCEPT !.grants = @ \cup {"share"}, !.rev = @ + 1]
    /\ UNCHANGED <<wkRow, strays, caller, calls, folderFaults, wkGhost>>
TrashFolder ==
    /\ wkRow = "live" /\ shares < MaxShares /\ shares' = shares + 1 /\ wkRow' = "trashed"
    /\ UNCHANGED <<wkAcl, strays, caller, calls, folderFaults, wkGhost>>

WkInit == /\ wkRow = "none" /\ wkAcl \in {NoAcl, [there |-> TRUE, parent |-> "none", grants |-> {"stale"}, rev |-> 0]}
          /\ strays = 0 /\ caller = [c \in Callers |-> NoCaller] /\ calls = 0 /\ shares = 0 /\ folderFaults = 0
          /\ wkGhost = [orphaned |-> FALSE, unreset |-> FALSE]
WkNext == \/ \E c \in Callers : \/ FindExisting(c) \/ SnapshotLeftover(c) \/ ClaimACL(c) \/ InsertRow(c) \/ ReleaseACL(c)
                                \/ RereadWinner(c) \/ ResetReads(c) \/ ResetLeftoverACL(c) \/ EnsureFolderACL(c)
                                \/ CreateACL(c) \/ CallerStops(c)
          \/ ShareFolder \/ TrashFolder

-----------------------------------------------------------------------------
(* The counts.                                                             *)

NoRefresh == [pc |-> "idle", dirs |-> {}, got |-> [d \in Dirs |-> [total |-> 0, unread |-> 0]], at |-> [d \in Dirs |-> 0],
              dir |-> {}, seen |-> [total |-> 0, unread |-> 0, rev |-> 0], again |-> {}, attempt |-> 1]

\* What the message list shows is what counts.
CountMessagesByFolder == [d \in Dirs |-> LET here == {x \in Msgs : msgAt[x].dir = {d}}
                            IN [total |-> Cardinality(here), unread |-> Cardinality({x \in here : ~msgAt[x].read})]]

AffectedBy(x, to) == msgAt[x].dir \cup to.dir

\* A message is filed, read, moved or deleted; the folders it leaves and enters are refreshed.
ChangeMessage(w, x, to) ==
    /\ refresh[w].pc = "idle" /\ changes < MaxChanges /\ changes' = changes + 1
    /\ to # msgAt[x] /\ (to.dir = {} => msgAt[x].dir # {})
    /\ msgAt' = [msgAt EXCEPT ![x] = to]
    /\ refresh' = [refresh EXCEPT ![w] = [NoRefresh EXCEPT !.pc = "count", !.dirs = AffectedBy(x, to)]]
    /\ UNCHANGED <<counted, fcGhost>>

CountPending(w) ==
    /\ refresh[w].pc = "count"
    /\ refresh' = [refresh EXCEPT ![w] = [@ EXCEPT !.pc = "read", !.got = CountMessagesByFolder, !.at = [d \in Dirs |-> counted[d].rev]]]
    /\ UNCHANGED <<msgAt, counted, changes, fcGhost>>

\* Each folder's row is read after the count: a row that moved in between may hold a newer count.
ReadFolder(w, d) ==
    /\ refresh[w].pc = "read" /\ d \in refresh[w].dirs
    /\ refresh' = [refresh EXCEPT ![w] = [@ EXCEPT !.pc = "store", !.dir = {d}, !.seen = counted[d]]]
    /\ fcGhost' = IF counted[d].rev # refresh[w].at[d] THEN fcGhost \cup {d} ELSE fcGhost
    /\ UNCHANGED <<msgAt, counted, changes>>

Same(row, got) == row.total = got.total /\ row.unread = got.unread
RowUnmoved(d, rev) == counted[d].rev = rev

\* A row that needs no write keeps its version, so a refresh that counted earlier may still store.
OlderInFlight(w, d) == \/ counted[d].rev # refresh[w].seen.rev
                       \/ \E v \in Refreshers \ {w} : /\ refresh[v].pc \in {"read", "store"} /\ d \in refresh[v].dirs
                                                      /\ refresh[v].got[d] # refresh[w].got[d]

\* Stored only on the row that was read; a folder that moved is counted again, a few times.
StoreFolderCounts(w) ==
    /\ refresh[w].pc = "store"
    /\ LET d == CHOOSE y \in Dirs : refresh[w].dir = {y}
           got == refresh[w].got[d]
           left == refresh[w].dirs \ {d}
           same == Same(refresh[w].seen, got)
           stored == same \/ RowUnmoved(d, refresh[w].seen.rev)
           retry == ~stored /\ refresh[w].attempt < RefreshAttempts
           again == refresh[w].again \cup (IF retry THEN {d} ELSE {})
       IN  /\ counted' = IF stored /\ ~same THEN [counted EXCEPT ![d] = [total |-> got.total, unread |-> got.unread, rev |-> @.rev + 1]]
                         ELSE counted
           /\ fcGhost' = IF (~stored /\ refresh[w].attempt = RefreshAttempts) \/ (same /\ OlderInFlight(w, d))
                         THEN fcGhost \cup {d} ELSE fcGhost
           /\ refresh' = [refresh EXCEPT ![w] =
                 IF left # {} THEN [@ EXCEPT !.pc = "read", !.dirs = left, !.dir = {}, !.again = again]
                 ELSE IF again # {} THEN [NoRefresh EXCEPT !.pc = "count", !.dirs = again, !.attempt = refresh[w].attempt + 1]
                 ELSE NoRefresh]
    /\ UNCHANGED <<msgAt, changes>>

\* A read of the folder reads the row first, derives the counts, answers them and stores them.
ApplyDerivedCounts(w, d) ==
    /\ refresh[w].pc = "idle" /\ changes < MaxChanges /\ changes' = changes + 1
    /\ refresh' = [refresh EXCEPT ![w] = [NoRefresh EXCEPT !.pc = "heal", !.dir = {d}, !.seen = counted[d]]]
    /\ UNCHANGED <<msgAt, counted, fcGhost>>
HealCounts(w) ==
    /\ refresh[w].pc = "heal"
    /\ refresh' = [refresh EXCEPT ![w] = [@ EXCEPT !.pc = "store", !.got = CountMessagesByFolder, !.dirs = refresh[w].dir,
                                                     !.attempt = RefreshAttempts + 1]]
    /\ UNCHANGED <<msgAt, counted, changes, fcGhost>>

FcInit == /\ msgAt = [x \in Msgs |-> [dir |-> {}, read |-> FALSE]]
          /\ counted = [d \in Dirs |-> [total |-> 0, unread |-> 0, rev |-> 0]]
          /\ refresh = [w \in Refreshers |-> NoRefresh] /\ changes = 0 /\ fcGhost = {}
FcNext == \E w \in Refreshers :
            \/ \E x \in Msgs, to \in [dir : {{}} \cup {{d} : d \in Dirs}, read : BOOLEAN] : ChangeMessage(w, x, to)
            \/ \E d \in Dirs : ReadFolder(w, d) \/ ApplyDerivedCounts(w, d)
            \/ CountPending(w) \/ StoreFolderCounts(w) \/ HealCounts(w)

FlInit == WkInit /\ FcInit
FlNext == (WkNext /\ UNCHANGED fcvars) \/ (FcNext /\ UNCHANGED wkvars)
FlSpec == FlInit /\ [][FlNext]_flvars

-----------------------------------------------------------------------------
(* Properties.                                                             *)

\* When no caller is under way, a live well-known folder has an ACL that hangs on the mailbox and
\* carries none of an earlier incarnation's grants, however the callers' claims, inserts and
\* removals crossed - but for a caller that stopped, or gave up, halfway.
FolderReachable ==
    (\A c \in Callers : caller[c].pc = "idle") /\ wkRow = "live" =>
        /\ wkAcl.there \/ (wkGhost.orphaned /\ folderFaults > 0)
        /\ wkAcl.there => wkGhost.unreset \/ (wkAcl.parent = "mailbox" /\ "stale" \notin wkAcl.grants)

\* When no refresh is under way the stored counts are the messages', whatever changes and refreshes
\* crossed - but for a count stored over a newer one and a refresh that gave up.
CountsFollow ==
    (\A w \in Refreshers : refresh[w].pc = "idle") =>
        \A d \in Dirs \ fcGhost : Same(counted[d], CountMessagesByFolder[d])

\* Well-known folders can be reached and folder counts follow the messages (FolderUtils, FolderCountUtils).
FoldersHold == FolderReachable /\ CountsFollow
=============================================================================
