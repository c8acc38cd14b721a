------------------------------ MODULE SecurityGroup ------------------------------
(***************************************************************************)
(* The baseline security group of a project (resources/security_group.py,  *)
(* ensure_baseline_sg).  A group of its own name is created with its rules *)
(* once; the group "default", which Neutron makes with every project, gets *)
(* the rules it lacks while it has no more rules than it came with.  After *)
(* that the group is the team's.                                           *)
(*                                                                         *)
(* Every API call is a step.  The rules of one group are modelled: a twin  *)
(* makes every lookup raise, whatever rules it has.                        *)
(***************************************************************************)
EXTENDS Naturals

CONSTANTS
    Size(_),    \* the number of elements of a set: Cardinality
    Rule,       \* rules there may be
    Automatic,  \* those Neutron puts into the default group, four,
    Egress,     \* and into every other group
    Baseline,   \* the configured rules
    Fingerprint, \* of each rule: by it rules are compared
    Names,      \* what the configuration may call the group
    SGFaults,   \* what may go wrong, see below
    MaxEvents   \* bound on the steps of the world outside and on faults

(* "crash"  a run dies, or a call fails after its retries                   *)
(* "echo"   the answer to a creation is lost, and it is tried again         *)
(* "users"  users add and remove rules, or delete the group                 *)
SGFault == {"crash", "echo", "users"}

\* What the constants must satisfy: assumed by Baseline, which instantiates
\* this module.
ConstantsOK == /\ Baseline \subseteq Rule /\ Automatic \subseteq Rule /\ Egress \subseteq Automatic
               /\ Size(Automatic) = 4
               /\ Fingerprint \in [Rule -> Rule]
               /\ Names \subseteq {"default", "other"}
               /\ SGFaults \subseteq SGFault /\ MaxEvents \in Nat

VARIABLES
    name,       \* sg_cfg.name
    groups,     \* how many groups have it
    rules,      \* the rules of the group
    step,       \* where the run is
    todo,       \* rules it has still to add
    cut,        \* did a run end that had begun to fill the group?
    changed,    \* have users changed its rules?
    dropped,    \* rules users took out of it for good
    events      \* events still allowed

groupVars   == <<name, groups, rules>>
historyVars == <<cut, changed, dropped>>
vars        == <<groupVars, step, todo, historyVars, events>>

Rest == {"idle", "done"}

TypeOK ==
    /\ name \in {"default", "other"}
    /\ groups \in 0..2 /\ rules \subseteq Rule
    /\ step \in Rest \cup {"look", "create", "seed", "fill"}
    /\ todo \subseteq Baseline
    /\ cut \in BOOLEAN /\ changed \in BOOLEAN /\ dropped \subseteq Rule
    /\ events \in 0..MaxEvents

Init ==
    /\ name \in Names
    /\ groups = (IF name = "default" THEN 1 ELSE 0)
    /\ rules = (IF name = "default" THEN Automatic ELSE {})
    /\ step = "idle" /\ todo = {}
    /\ cut = FALSE /\ changed = FALSE /\ dropped = {}
    /\ events = MaxEvents

-----------------------------------------------------------------------------
(* A run.                                                                  *)

Strikes(f) == f \in SGFaults /\ events > 0 /\ events' = events - 1

Fingerprints(R) == {Fingerprint[r] : r \in R}

\* _find_missing_rules.
Missing == {r \in Baseline : Fingerprint[r] \notin Fingerprints(rules)}

Begin ==
    /\ step \in Rest
    /\ step' = "look" /\ todo' = {}
    /\ UNCHANGED <<groupVars, historyVars, events>>

\* A slip of Unconfigured: a default group as it came is left out.
UnconfiguredBelow == name = "default" /\ Size(rules) < 4

\* No more rules than a default group comes with.
Unconfigured == name = "default" /\ Size(rules) <= 4

\* A slip of Look: whatever is missing is added.
LookAnyway ==
    /\ step = "look"
    /\ step' = CASE groups = 0 -> "create" [] groups = 1 -> "seed" [] OTHER -> "idle"
    /\ todo' = IF groups = 1 THEN Missing ELSE {}
    /\ UNCHANGED <<groupVars, historyVars, events>>

\* Two groups of the name make the lookup raise.
Look ==
    /\ step = "look"
    /\ step' = CASE groups = 0 -> "create"
                 [] groups = 1 /\ Unconfigured /\ Missing # {} -> "seed"
                 [] groups = 1 /\ (~Unconfigured \/ Missing = {}) -> "done"
                 [] OTHER -> "idle"
    /\ todo' = IF step' = "seed" THEN Missing ELSE {}
    /\ UNCHANGED <<groupVars, historyVars, events>>

\* The group is there, with the rules every group has; if an answer is lost
\* there are two.
Create ==
    /\ step = "create"
    /\ \/ groups' = 1 /\ UNCHANGED events
       \/ groups' = 2 /\ Strikes("echo")
    /\ rules' = Egress
    /\ todo' = Baseline
    /\ step' = "fill"
    /\ cut' = FALSE /\ changed' = FALSE /\ dropped' = {}
    /\ UNCHANGED name

\* A run ends here: what it leaves is for good if the next run takes it for
\* configured.
Ends ==
    /\ step' = "idle"
    /\ cut' = (cut \/ (todo # {} /\ groups > 0 /\ ~Unconfigured))

\* A rule that is there is a conflict: in a default group it is passed over,
\* in a new group it ends the run.  So does a rule whose answer is lost: it is
\* tried again, and is there.
AddRule(r) ==
    /\ step \in {"seed", "fill"} /\ groups > 0 /\ r \in todo
    /\ rules' = rules \cup {r}
    /\ \/ /\ step = "seed" \/ r \notin rules
          /\ todo' = todo \ {r}
          /\ UNCHANGED <<step, cut, events>>
       \/ /\ step = "fill"
          /\ \/ r \in rules /\ UNCHANGED events
             \/ r \notin rules /\ Strikes("echo")
          /\ Ends
          /\ UNCHANGED todo
    /\ UNCHANGED <<name, groups, changed, dropped>>

Filled ==
    /\ step \in {"seed", "fill"} /\ todo = {}
    /\ step' = "done"
    /\ UNCHANGED <<groupVars, todo, historyVars, events>>

\* The group was deleted meanwhile: a rule cannot be added.
GroupIsGone ==
    /\ step \in {"seed", "fill"} /\ groups = 0 /\ todo # {}
    /\ Ends
    /\ UNCHANGED <<groupVars, todo, changed, dropped, events>>

Dies ==
    /\ Strikes("crash")
    /\ step \notin Rest
    /\ Ends
    /\ UNCHANGED <<groupVars, todo, changed, dropped>>

Fill == Look \/ Create \/ (\E r \in todo : AddRule(r)) \/ Filled \/ GroupIsGone

-----------------------------------------------------------------------------
(* The world outside.                                                      *)

AddOwnRule(r) ==
    /\ Strikes("users")
    /\ groups = 1 /\ r \notin rules
    /\ rules' = rules \cup {r}
    /\ changed' = TRUE
    /\ dropped' = dropped \ {r}
    /\ UNCHANGED <<name, groups, step, todo, cut>>

\* Who leaves a default group no more rules than it came with hands it back.
RemoveRule(r) ==
    /\ Strikes("users")
    /\ groups = 1 /\ r \in rules
    /\ rules' = rules \ {r}
    /\ changed' = TRUE
    /\ dropped' = CASE name = "default" /\ Size(rules) <= 5 -> {}
                    [] step \in {"seed", "fill"} -> dropped
                    [] OTHER -> dropped \cup {r}
    /\ UNCHANGED <<name, groups, step, todo, cut>>

\* The default group cannot be deleted.
DeleteGroup ==
    /\ Strikes("users")
    /\ name # "default" /\ groups = 1
    /\ groups' = 0 /\ rules' = {}
    /\ cut' = FALSE /\ changed' = FALSE /\ dropped' = {}
    /\ UNCHANGED <<name, step, todo>>

Users == DeleteGroup \/ \E r \in Rule : AddOwnRule(r) \/ RemoveRule(r)

Next == Begin \/ Fill \/ Dies \/ Users

Spec == Init /\ [][Next]_vars

\* The tool runs on a cadence.
FairSpec == Spec /\ WF_vars(Begin \/ Fill)

-----------------------------------------------------------------------------
(* Properties.                                                             *)

HasBaseline == Fingerprints(Baseline) \subseteq Fingerprints(rules)

\* After a completed run the group has the configured rules, by their
\* fingerprints, unless users changed it or an earlier run ended while it was
\* filling it: a run that ended before the group counts as configured leaves
\* no trace.
BaselineComplete ==
    step = "done" /\ groups = 1 /\ ~cut /\ ~changed => HasBaseline

\* A rule that users took out of a group that counts as configured does not
\* come back unless they bring it back.
TeamsDecide == dropped \cap rules = {}

\* Once nothing changes any more there is a group, and it is complete unless
\* somebody interfered.
EventuallyGuarded == <>[](groups > 0 /\ (groups = 1 /\ ~cut /\ ~changed => HasBaseline))

=============================================================================
