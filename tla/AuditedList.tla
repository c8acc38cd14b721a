------------------------------ MODULE AuditedList ------------------------------
(***************************************************************************)
(* What a handler promises of the two lists it keeps in a state file:      *)
(* what the project holds now and, as an audit trail, what it held before  *)
(* (_reconcile_revoked, track_router_ips).  The lists are written by two   *)
(* saves.  What the first one drops is due, and the second one retires it, *)
(* takes back what is active again and changes nothing else.  A run may    *)
(* note on the second list, before either save, what it is about to lose;  *)
(* if it does not lose it after all, that may stay.  A run that dies       *)
(* forgets what was due.                                                   *)
(***************************************************************************)
CONSTANT Item       \* what is listed: flavors, addresses

VARIABLES
    active,     \* what the project holds
    retired,    \* what it held before
    due,        \* dropped from the first list, not yet on the second
    noted,      \* put on the second list by this run, before its saves
    writing     \* the first list is written, the second is still to be

vars == <<active, retired, due, noted, writing>>

Init ==
    /\ active = {} /\ retired = {} /\ due = {} /\ noted = {}
    /\ writing = FALSE

\* What was gained is written at once, whatever the second list says of it.
Add(S) ==
    /\ ~writing
    /\ active' = active \cup S
    /\ UNCHANGED <<retired, due, noted, writing>>

\* What is active but cannot be kept.
Note(S) ==
    /\ ~writing
    /\ S \subseteq active
    /\ retired' = retired \cup S
    /\ noted' = noted \cup (S \ retired)
    /\ UNCHANGED <<active, due, writing>>

\* The first save.
Replace(S) ==
    /\ ~writing
    /\ active' = S
    /\ due' = active \ S
    /\ writing' = TRUE
    /\ UNCHANGED <<retired, noted>>

\* The second save.
Retire ==
    /\ writing
    /\ \E kept \in SUBSET noted : retired' = ((retired \cup due) \ active) \cup kept
    /\ due' = {} /\ noted' = {}
    /\ writing' = FALSE
    /\ UNCHANGED active

\* The run dies, between the two or before.
Die ==
    /\ due' = {} /\ noted' = {}
    /\ writing' = FALSE
    /\ UNCHANGED <<active, retired>>

Next == (\E S \in SUBSET Item : Add(S) \/ Note(S) \/ Replace(S)) \/ Retire \/ Die

Spec == Init /\ [][Next]_vars

=============================================================================
