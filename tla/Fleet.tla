--------------------------------- MODULE Fleet ---------------------------------
(***************************************************************************)
(* One run over all projects (reconciler.reconcile, client.py): the        *)
(* Keystone groups that group-mode federation needs                        *)
(* (keystone_groups.py), the projects one after the other with their       *)
(* failures kept apart, the roles of their groups (group_roles.py), and    *)
(* the federation mapping, which all projects share (federation.py): read  *)
(* before the first project, compared and pushed after the last.           *)
(*                                                                         *)
(* What the handlers do inside a project is modelled elsewhere; here a     *)
(* handler does its work or raises.  Each group-mode project derives one   *)
(* group, named by GroupOf; all groups are in one domain.  A mapping is    *)
(* the set of projects that have a rule in it: the static rules never      *)
(* change, and the order of rules is fixed by sorting.                     *)
(***************************************************************************)
EXTENDS Naturals

CONSTANTS
    N,          \* the number of configured projects, in the order of the run
    GroupMode,  \* projects with a rule that maps to a Keystone group
    Federated,  \* projects with any rule
    Group,      \* names of groups
    GroupOf,    \* the name of each project's group
    Broken,     \* projects whose handlers raise in every run
    Homeless,   \* those of them whose domain does not exist
    Damaged,    \* projects whose state file may be one that cannot be written
    Faults,     \* what may go wrong, see below
    MaxClock,   \* bound on the clock
    MaxEvents   \* bound on the steps of the world outside and on faults

(* "crash"   a run dies                                                     *)
(* "fail"    a call fails after its retries                                 *)
(* "lock"    the lock of a state file is not obtained in time               *)
(* "scoped"  runs for one project (--project) or some scopes (--only)       *)
(* "groups"  administrators delete groups                                   *)
(* "mapping" administrators edit or delete the mapping                      *)
Fault == {"crash", "fail", "lock", "scoped", "groups", "mapping"}

Project == 1..N
State   == {"present", "locked", "absent"}
Scope   == {"groups", "roles", "federation"}

\* A lifetime that never ends within the bound stands for none.
Config == {c \in [state : State, until : 0..MaxClock, action : {"none", "lock", "delete"}] :
              c.action = "none" <=> c.until = MaxClock}

ASSUME NAssumption       == N \in Nat /\ MaxClock \in Nat /\ MaxEvents \in Nat
ASSUME ProjectAssumption == /\ GroupMode \subseteq Federated /\ Federated \subseteq Project
                            /\ Broken \subseteq Project /\ Homeless \subseteq Broken
                            /\ Damaged \subseteq Project
ASSUME GroupAssumption   == GroupOf \in [Project -> Group]
ASSUME FaultsAssumption  == Faults \subseteq Fault

VARIABLES
    (* the cloud *)
    groups,     \* Keystone groups there are
    exists,     \* projects there are
    granted,    \* projects on which their group holds its roles
    mapping,    \* the federation mapping: is it there, and who has a rule in it
    (* the configuration and the clock *)
    config, clock,
    (* the state files *)
    recorded,   \* metadata.last_reconciled_state
    damaged,    \* projects whose file cannot be written
    (* the run *)
    pc,
    cfg,        \* the configuration it loaded
    scopes,     \* the scopes it was invoked for
    selected,   \* the projects it was invoked for
    seen,       \* ctx.current_mapping_rules, ctx.mapping_exists
    missing,    \* groups it has still to look for
    pending,    \* projects it has still to reconcile
    at,         \* the instant its loop dispatches on
    failed,     \* ctx.failed_projects: the projects,
    down,       \* and the shared phases
    (* history and bounds *)
    meddled,    \* shared resources others changed during the run
    events      \* events still allowed

cloudVars == <<groups, exists, granted, mapping>>
worldVars == <<config, clock, damaged>>
runVars   == <<cfg, scopes, selected, seen, missing, pending, at, failed, down>>
vars      == <<cloudVars, worldVars, recorded, pc, runVars, meddled, events>>

Mapping   == [there : BOOLEAN, rules : SUBSET Project]
NoMapping == [there |-> FALSE, rules |-> {}]

PC == {"idle", "collect", "groups", "enter", "loop", "roles", "rest", "save", "over"}

TypeOK ==
    /\ groups \subseteq Group
    /\ exists \subseteq Project /\ granted \subseteq Project
    /\ mapping \in Mapping
    /\ config \in [Project -> Config] /\ clock \in 0..MaxClock
    /\ recorded \in [Project -> State \cup {"unset"}] /\ damaged \subseteq Damaged
    /\ pc \in PC
    /\ cfg \in [Project -> Config]
    /\ scopes \subseteq Scope
    /\ selected \subseteq Project /\ pending \subseteq selected
    /\ seen \in Mapping
    /\ missing \subseteq Group
    /\ at \in 0..MaxClock
    /\ failed \subseteq Project /\ down \subseteq Scope
    /\ meddled \subseteq Scope
    /\ events \in 0..MaxEvents

Plain  == [state |-> "present", until |-> MaxClock, action |-> "none"]
Parked == [state |-> "locked", until |-> MaxClock, action |-> "none"]

Init ==
    /\ groups = {} /\ exists = {} /\ granted = {} /\ mapping = NoMapping
    /\ config \in {[p \in Project |-> IF p \in Homeless THEN c ELSE Plain] : c \in {Plain, Parked}}
    /\ clock = 0
    /\ recorded = [p \in Project |-> "unset"] /\ damaged \in SUBSET Damaged
    /\ pc = "idle"
    /\ cfg = config
    /\ scopes = {} /\ selected = {} /\ seen = NoMapping
    /\ missing = {} /\ pending = {} /\ at = 0 /\ failed = {} /\ down = {}
    /\ meddled = {}
    /\ events = MaxEvents

-----------------------------------------------------------------------------
(* What the configuration asks for at an instant.                          *)

Floor(c) == IF c.action = "lock" THEN "locked" ELSE "absent"

\* A lifetime only tightens.
Effective(c, t) ==
    IF t <= c.until \/ c.state = "absent" THEN c.state ELSE
    IF c.state = "locked" THEN IF c.action = "lock" THEN "locked" ELSE "absent"
                          ELSE Floor(c)

Present(c, t) == {p \in Project : Effective(c[p], t) = "present"}

\* A slip of Rules: only the projects of this run count.
RulesSelected(c, t) == Federated \cap Present(c, t) \cap selected

\* _build_generated_rules.
Rules(c, t) == Federated \cap Present(c, t)

-----------------------------------------------------------------------------
(* The start of a run, and the groups.                                     *)

\* A fault happens: it is allowed, and it is counted.
Strikes(f) == f \in Faults /\ events > 0 /\ events' = events - 1

\* A slip of Scopes: any combination is accepted.
AnyScopes == SUBSET Scope

\* validate_scopes: roles need the groups.
Scopes == {S \in SUBSET Scope : "roles" \in S => "groups" \in S}

\* --project: all projects, or one.
Selections == {Project} \cup {{p} : p \in Project}

\* resolve_federation_context.
ReadMapping == seen' = mapping

\* The configuration is loaded and the mapping is read.
Start ==
    /\ pc \in {"idle", "over"}
    /\ cfg' = config /\ ReadMapping
    /\ \/ scopes' = Scope /\ selected' = Project /\ UNCHANGED events
       \/ /\ Strikes("scoped")
          /\ scopes' \in Scopes
          /\ selected' \in Selections
    /\ missing' = {} /\ pending' = selected' /\ failed' = {} /\ down' = {} /\ meddled' = {}
    /\ pc' = IF "groups" \in scopes' THEN "collect" ELSE "enter"
    /\ UNCHANGED <<cloudVars, worldVars, recorded, at>>

\* The projects that need a group, of all there are, and those that name its
\* domain: the first that derives a name.
Wanting   == GroupMode \cap Present(cfg, clock)
Claimants == {p \in Wanting : \A q \in Wanting : GroupOf[q] = GroupOf[p] => p <= q}

PhaseFails(s) == down' = down \cup {s}

\* ensure_keystone_groups: the domains are resolved first, and one that is not
\* there raises.
CollectGroups ==
    /\ pc = "collect"
    /\ IF Claimants \cap Homeless = {}
       THEN /\ missing' = {GroupOf[p] : p \in Wanting}
            /\ pc' = "groups" /\ UNCHANGED down
       ELSE /\ PhaseFails("groups")
            /\ pc' = "enter" /\ UNCHANGED missing
    /\ UNCHANGED <<cloudVars, worldVars, recorded, cfg, scopes, selected, seen, pending, at,
                   failed, meddled, events>>

\* The group is found or created.
EnsureGroup(g) ==
    /\ pc = "groups"
    /\ g \in missing
    /\ groups' = groups \cup {g}
    /\ missing' = missing \ {g}
    /\ UNCHANGED <<exists, granted, mapping, worldVars, recorded, pc, cfg, scopes, selected, seen,
                   pending, at, failed, down, meddled, events>>

GroupsRaise ==
    /\ pc = "groups"
    /\ Strikes("fail")
    /\ PhaseFails("groups")
    /\ pc' = "enter"
    /\ UNCHANGED <<cloudVars, worldVars, recorded, cfg, scopes, selected, seen, missing, pending, at,
                   failed, meddled>>

\* One instant decides for all projects of the loop.
EnterLoop ==
    /\ pc = "enter" \/ (pc = "groups" /\ missing = {})
    /\ at' = clock
    /\ pc' = "loop"
    /\ UNCHANGED <<cloudVars, worldVars, recorded, cfg, scopes, selected, seen, missing, pending, failed,
                   down, meddled, events>>

-----------------------------------------------------------------------------
(* The loop over the projects.                                             *)

Goal(p)   == Effective(cfg[p], at)
IsNext(p) == p \in pending /\ \A q \in pending : p <= q

runFacts == <<worldVars, cfg, scopes, selected, seen, missing, at, meddled>>
loopVars == <<runFacts, down>>

\* A slip of Fails: the failure ends the run.
FailsForAll(p) ==
    /\ failed' = failed \cup {p} /\ pending' = pending \ {p}
    /\ pc' = "idle"

\* The exception of a handler is noted, and the loop goes on.
Fails(p) ==
    /\ failed' = failed \cup {p} /\ pending' = pending \ {p}
    /\ pc' = "loop"

GoesOn(to) == pc' = to /\ UNCHANGED <<failed, pending>>

\* The project is created, then its ids are saved.
Provision(p) ==
    /\ pc = "loop"
    /\ IsNext(p) /\ p \notin Broken
    /\ Goal(p) = "present"
    /\ exists' = exists \cup {p}
    /\ IF p \in damaged THEN Fails(p) ELSE GoesOn("roles")
    /\ UNCHANGED <<groups, granted, mapping, recorded, loopVars, events>>

GroupIsGone(p) == p \in GroupMode /\ GroupOf[p] \notin groups

\* augment_group_role_assignments: the entries a project derives.
Derived(p) == {p} \cap GroupMode

\* ensure_group_role_assignments with the derived entries: a group that is not
\* there raises.
GrantRoles(p) ==
    /\ pc = "roles"
    /\ IsNext(p)
    /\ CASE "roles" \in scopes /\ GroupIsGone(p) -> Fails(p) /\ UNCHANGED granted
         [] "roles" \in scopes /\ ~GroupIsGone(p) ->
                GoesOn("rest") /\ granted' = granted \cup Derived(p)
         [] OTHER -> GoesOn("rest") /\ UNCHANGED granted
    /\ UNCHANGED <<groups, exists, mapping, recorded, loopVars, events>>

OtherHandlers(p) ==
    /\ pc = "rest"
    /\ IsNext(p)
    /\ GoesOn("save")
    /\ UNCHANGED <<cloudVars, recorded, loopVars, events>>

\* A project that is not there is created, disabled.
Lock(p) ==
    /\ pc = "loop"
    /\ IsNext(p) /\ p \notin Broken
    /\ Goal(p) = "locked"
    /\ exists' = exists \cup {p}
    /\ IF p \in damaged THEN Fails(p) ELSE GoesOn("save")
    /\ UNCHANGED <<groups, granted, mapping, recorded, loopVars, events>>

\* The roles are revoked before the project is deleted, and a group that is
\* not there raises.
Remove(p) ==
    /\ pc = "loop"
    /\ IsNext(p) /\ p \notin Broken
    /\ Goal(p) = "absent"
    /\ IF p \in exists /\ GroupIsGone(p)
       THEN Fails(p) /\ UNCHANGED <<exists, granted>>
       ELSE GoesOn("save") /\ exists' = exists \ {p} /\ granted' = granted \ {p}
    /\ UNCHANGED <<groups, mapping, recorded, loopVars, events>>

HandlerRaises(p) ==
    /\ IsNext(p)
    /\ \/ pc = "loop" /\ p \in Broken /\ UNCHANGED events
       \/ pc \in {"loop", "roles", "rest"} /\ Strikes("fail")
    /\ Fails(p)
    /\ UNCHANGED <<cloudVars, recorded, loopVars>>

\* A slip of Save: what is recorded is the configured state.
SaveConfigured(p) ==
    /\ pc = "save"
    /\ IsNext(p) /\ p \notin damaged
    /\ recorded' = [recorded EXCEPT ![p] = cfg[p].state]
    /\ pending' = pending \ {p}
    /\ pc' = "loop"
    /\ UNCHANGED <<cloudVars, loopVars, failed, events>>

Save(p) ==
    /\ pc = "save"
    /\ IsNext(p) /\ p \notin damaged
    /\ recorded' = [recorded EXCEPT ![p] = Goal(p)]
    /\ pending' = pending \ {p}
    /\ pc' = "loop"
    /\ UNCHANGED <<cloudVars, loopVars, failed, events>>

\* The two saves are outside the try block of the project: the run is over for
\* every project that follows, and for the mapping.
SaveRaises(p) ==
    /\ pc = "save"
    /\ IsNext(p)
    /\ \/ p \in damaged /\ UNCHANGED events
       \/ Strikes("lock")
    /\ pc' = "idle"
    /\ UNCHANGED <<cloudVars, recorded, loopVars, pending, failed>>

-----------------------------------------------------------------------------
(* The mapping.                                                            *)

\* ensure_federation_mapping: the rules of all projects, at an instant of its
\* own, are compared with the copy read at the start.  What was not there then
\* is created, which conflicts with what others created since; what was there
\* is updated, which finds nothing if others deleted it.
Federate ==
    /\ pc = "loop" /\ pending = {}
    /\ pc' = "over"
    /\ LET rules == Rules(cfg, clock) IN
       CASE "federation" \notin scopes \/ rules = seen.rules -> UNCHANGED <<mapping, down>>
         [] OTHER -> IF seen.there = mapping.there
                     THEN mapping' = [there |-> TRUE, rules |-> rules] /\ UNCHANGED down
                     ELSE PhaseFails("federation") /\ UNCHANGED mapping
    /\ UNCHANGED <<groups, exists, granted, recorded, runFacts, pending, failed, events>>

FederationRaises ==
    /\ pc = "loop" /\ pending = {}
    /\ "federation" \in scopes
    /\ Strikes("fail")
    /\ PhaseFails("federation")
    /\ pc' = "over"
    /\ UNCHANGED <<cloudVars, recorded, runFacts, pending, failed>>

Step ==
    \/ Start
    \/ CollectGroups \/ GroupsRaise \/ EnterLoop
    \/ \E g \in Group : EnsureGroup(g)
    \/ \E p \in Project : \/ Provision(p) \/ GrantRoles(p) \/ OtherHandlers(p)
                          \/ Lock(p) \/ Remove(p)
                          \/ HandlerRaises(p) \/ Save(p) \/ SaveRaises(p)
    \/ Federate \/ FederationRaises

-----------------------------------------------------------------------------
(* The world outside.                                                      *)

Crash ==
    /\ Strikes("crash")
    /\ pc \notin {"idle", "over"}
    /\ pc' = "idle"
    /\ UNCHANGED <<cloudVars, worldVars, recorded, runVars, meddled>>

\* Time passes, and with it deadlines.
Tick ==
    /\ clock < MaxClock
    /\ clock' = clock + 1
    /\ UNCHANGED <<cloudVars, config, damaged, recorded, pc, runVars, meddled, events>>

Edit(p) ==
    /\ events > 0 /\ events' = events - 1
    /\ \E c \in Config : config' = [config EXCEPT ![p] = c]
    /\ UNCHANGED <<cloudVars, clock, damaged, recorded, pc, runVars, meddled>>

\* A group takes its roles with it.
DeleteGroup(g) ==
    /\ Strikes("groups")
    /\ g \in groups
    /\ groups' = groups \ {g}
    /\ granted' = {p \in granted : GroupOf[p] # g}
    /\ meddled' = meddled \cup {"groups"}
    /\ UNCHANGED <<exists, mapping, worldVars, recorded, pc, runVars>>

OthersMap ==
    /\ Strikes("mapping")
    /\ mapping' \in {NoMapping} \cup [there : {TRUE}, rules : SUBSET Federated]
    /\ meddled' = meddled \cup {"federation"}
    /\ UNCHANGED <<groups, exists, granted, worldVars, recorded, pc, runVars>>

Next ==
    \/ Step \/ Crash \/ Tick
    \/ \E p \in Project : Edit(p)
    \/ \E g \in Group : DeleteGroup(g)
    \/ OthersMap

Spec == Init /\ [][Next]_vars

\* The tool is invoked on a cadence for all projects and all scopes.
FairSpec == Spec /\ WF_vars(Step)

-----------------------------------------------------------------------------
(* Properties.                                                             *)

\* Part of OutcomeIsReported: what a run did for a project whose part of it is over.
Settled(p) ==
    \/ p \in failed
    \/ /\ recorded[p] = Goal(p)
       /\ "roles" \in scopes /\ Goal(p) = "present" /\ p \in GroupMode /\ GroupOf[p] \in groups
             => p \in granted

\* When a run comes to its end, every project it was invoked for is reported
\* failed or recorded in the state it was dispatched on, with its group's roles
\* unless the group was deleted since: no project is passed over because of
\* another one.
OutcomeIsReported == pc = "over" => \A p \in selected : Settled(p)

\* A present project whose roles are granted finds its group: groups are made
\* for all projects that are present at an earlier instant, a lifetime only
\* tightens, and roles are never run without groups.
GroupsAreThere ==
    pc = "roles" /\ "roles" \in scopes /\ "groups" \notin down /\ "groups" \notin meddled =>
        \A p \in Project : IsNext(p) => ~GroupIsGone(p)

\* A mapping that nobody else changed during the run gives no access to a
\* project the same run locked or removed, and has the rules of all present
\* projects, also after a run for one of them.
RulesAgree ==
    pc = "over" /\ "federation" \in scopes \ down /\ "federation" \notin meddled =>
        /\ mapping.rules \subseteq Present(cfg, at)
        /\ Federated \cap Present(cfg, clock) \subseteq mapping.rules

\* A project to be removed whose group somebody deleted cannot have its roles
\* revoked, in any run.
Stuck(p) == Effective(config[p], clock) = "absent" /\ p \in exists /\ GroupIsGone(p)

\* Nor can a group be made while a present project names a domain that is not
\* there: the phase fails for all projects.
Starved(p) ==
    p \in GroupMode /\ GroupIsGone(p) /\ GroupMode \cap Homeless \cap Present(config, clock) # {}

Converged(p) ==
    LET state == Effective(config[p], clock) IN
    /\ recorded[p] = state
    /\ p \in exists <=> state # "absent"
    /\ state = "present" /\ p \in GroupMode => p \in granted

\* The failure of a project does not stop the others, with one exception, which
\* is the code's: a project to be removed whose state file cannot be written
\* gets as far as the saves outside the try block, and these end every run.
EndsRuns(p) == p \in damaged \ Broken /\ Effective(config[p], clock) = "absent" /\ ~Stuck(p)

\* Once the world is quiet, a project that is neither broken nor damaged gets
\* what its configuration asks for, whatever is wrong with others, unless it
\* needs a group that cannot be had or comes after a project that ends every
\* run; and the mapping follows, unless there is such a project.
OthersConverge ==
    <>[](/\ \A p \in Project \ (Broken \cup damaged) :
               Stuck(p) \/ Starved(p) \/ (\E q \in Project : q < p /\ EndsRuns(q)) \/ Converged(p)
         /\ (\E q \in Project : EndsRuns(q)) \/ mapping.rules = Federated \cap Present(config, clock))

=============================================================================
