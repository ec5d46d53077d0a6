------------------------------- MODULE MCCalendar ------------------------------
(****************************************************************************)
(* A meeting between its organizer and a guest, an event's reminders, a     *)
(* room's bookings, and the database bindings of the entities all of them   *)
(* are kept in, each on its own.                                            *)
(****************************************************************************)
EXTENDS Meetings, Reminders, Entities, TLC
VARIABLE part
MCCalendarSymmetry == UNION {Permutations(S) : S \in {Replicas, Workers}}

\* Bound: past the second thing that goes wrong with a meeting nothing new can be said of it.
MCFew == Cardinality(excuse) <= 1
MCInit ==
    /\ part \in {"meeting", "reminders", "room", "rows"} /\ MtInit /\ RmInit /\ BkInit /\ EnInit
    /\ (part # "meeting" => sealed)
    /\ (part # "reminders" => ev.master)
    /\ (part # "rows" => ent = "Label" /\ fld = "name" /\ \A db \in Databases, r \in RowIds : table[db][r] = Unwritten)
MCNext ==
    \/ part = "meeting" /\ MtNext /\ UNCHANGED <<rmVars, bkVars, envars, part>>
    \/ part = "reminders" /\ RmNext /\ UNCHANGED <<mtVars, bkVars, envars, part>>
    \/ part = "room" /\ BkNext /\ UNCHANGED <<mtVars, rmVars, envars, part>>
    \/ part = "rows" /\ EnNext /\ UNCHANGED <<mtVars, rmVars, bkVars, part>>
MCSpec == MCInit /\ [][MCNext]_<<part, mtVars, rmVars, bkVars, envars>>
================================================================================
