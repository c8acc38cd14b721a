------------------------------ MODULE FleetProofs ------------------------------
(***************************************************************************)
(* Proofs about Fleet: for any number of projects, whichever of them are   *)
(* broken, whatever groups they share, and whatever faults strike, a run   *)
(* reports every project it was invoked for, finds the groups whose roles  *)
(* it grants, and leaves a mapping that agrees with what it did.           *)
(***************************************************************************)
EXTENDS Fleet, TLAPS

USE NAssumption, ProjectAssumption, GroupAssumption, FaultsAssumption
USE DEF Selections, ReadMapping, Derived

Between == {"loop", "roles", "rest", "save"}

\* A fault that strikes uses up one event.
LEMMA StrikesType ==
    ASSUME NEW f, events \in 0..MaxEvents, Strikes(f)
    PROVE  events' \in 0..MaxEvents
BY DEF Strikes

\* The effective state is a state.
LEMMA EffectiveType ==
    ASSUME NEW c \in Config, NEW t \in 0..MaxClock
    PROVE  Effective(c, t) \in State
BY DEF Effective, Floor, Config, State

\* A lifetime only tightens: what is present later was present before.
LEMMA EffectiveTightens ==
    ASSUME NEW c \in Config, NEW s \in 0..MaxClock, NEW t \in 0..MaxClock, s <= t,
           Effective(c, t) = "present"
    PROVE  Effective(c, s) = "present"
<1>1. c.until \in 0..MaxClock /\ c.state \in State
    BY DEF Config
<1>2. Floor(c) # "present"
    BY DEF Floor
<1>3. t <= c.until /\ c.state = "present"
    BY <1>1, <1>2 DEF Effective
<1> QED
    BY <1>1, <1>3 DEF Effective

\* The initial state has the types declared for it.
LEMMA InitType == Init => TypeOK
<1> SUFFICES ASSUME Init PROVE TypeOK
    OBVIOUS
<1>1. Plain \in Config /\ Parked \in Config
    BY DEF Plain, Parked, Config, State
<1>2. config \in [Project -> Config]
    BY <1>1 DEF Init
<1> QED
    BY <1>2 DEF Init, TypeOK, NoMapping, Mapping, PC, State

\* The steps of a run keep the types.
LEMMA StepType == TypeOK /\ Step => TypeOK'
<1> SUFFICES ASSUME TypeOK, Step PROVE TypeOK'
    OBVIOUS
<1> USE DEF TypeOK, cloudVars, worldVars, runVars, runFacts, loopVars
<1>1. CASE Start
    <2>1. events' \in 0..MaxEvents
        BY <1>1, StrikesType DEF Start
    <2>2. scopes' \in SUBSET Scope /\ selected' \in SUBSET Project
        BY <1>1 DEF Start, Scopes
    <2> QED
        BY <1>1, <2>1, <2>2 DEF Start, PC
<1>2. CASE CollectGroups
    BY <1>2 DEF CollectGroups, PhaseFails, Wanting, PC, Scope
<1>3. CASE GroupsRaise
    <2>1. events' \in 0..MaxEvents
        BY <1>3, StrikesType DEF GroupsRaise
    <2> QED
        BY <1>3, <2>1 DEF GroupsRaise, PhaseFails, PC, Scope
<1>4. CASE EnterLoop
    BY <1>4 DEF EnterLoop, PC
<1>5. ASSUME NEW g \in Group, EnsureGroup(g) PROVE TypeOK'
    BY <1>5 DEF EnsureGroup
<1>6. ASSUME NEW p \in Project, Provision(p) \/ GrantRoles(p) \/ OtherHandlers(p) \/ Lock(p) \/ Remove(p)
      PROVE  TypeOK'
    <2>1. pc' \in PC /\ failed' \subseteq Project /\ pending' \subseteq selected
        BY <1>6 DEF Provision, GrantRoles, OtherHandlers, Lock, Remove, Fails, GoesOn, PC
    <2>2. groups' = groups /\ exists' \subseteq Project /\ granted' \subseteq Project
        BY <1>6 DEF Provision, GrantRoles, OtherHandlers, Lock, Remove
    <2> QED
        BY <1>6, <2>1, <2>2 DEF Provision, GrantRoles, OtherHandlers, Lock, Remove
<1>7. ASSUME NEW p \in Project, HandlerRaises(p) PROVE TypeOK'
    <2>1. events' \in 0..MaxEvents
        BY <1>7, StrikesType DEF HandlerRaises
    <2> QED
        BY <1>7, <2>1 DEF HandlerRaises, Fails, PC
<1>8. ASSUME NEW p \in Project, Save(p) PROVE TypeOK'
    <2>1. Goal(p) \in State
        BY EffectiveType DEF Goal
    <2> QED
        BY <1>8, <2>1 DEF Save, PC
<1>9. ASSUME NEW p \in Project, SaveRaises(p) PROVE TypeOK'
    <2>1. events' \in 0..MaxEvents
        BY <1>9, StrikesType DEF SaveRaises
    <2> QED
        BY <1>9, <2>1 DEF SaveRaises, PC
<1>10. CASE Federate
    <2>1. [there |-> TRUE, rules |-> Rules(cfg, clock)] \in Mapping
        BY DEF Rules, Mapping
    <2>2. \/ UNCHANGED <<mapping, down>>
          \/ mapping' = [there |-> TRUE, rules |-> Rules(cfg, clock)] /\ UNCHANGED down
          \/ PhaseFails("federation") /\ UNCHANGED mapping
        BY <1>10 DEF Federate
    <2>3. mapping' \in Mapping /\ down' \subseteq Scope
        BY <2>1, <2>2 DEF PhaseFails, Scope
    <2> QED
        BY <1>10, <2>3 DEF Federate, PC
<1>11. CASE FederationRaises
    <2>1. events' \in 0..MaxEvents
        BY <1>11, StrikesType DEF FederationRaises
    <2> QED
        BY <1>11, <2>1 DEF FederationRaises, PhaseFails, PC, Scope
<1> QED
    BY <1>1, <1>2, <1>3, <1>4, <1>5, <1>6, <1>7, <1>8, <1>9, <1>10, <1>11 DEF Step

\* So do a crash and the steps of the world outside.
LEMMA NextType == TypeOK /\ [Next]_vars => TypeOK'
<1> SUFFICES ASSUME TypeOK, [Next]_vars PROVE TypeOK'
    OBVIOUS
<1> USE DEF TypeOK, cloudVars, worldVars, runVars
<1>1. CASE Step
    BY <1>1, StepType
<1>2. CASE Crash
    <2>1. events' \in 0..MaxEvents
        BY <1>2, StrikesType DEF Crash
    <2> QED
        BY <1>2, <2>1 DEF Crash, PC
<1>3. CASE Tick
    BY <1>3 DEF Tick
<1>4. ASSUME NEW p \in Project, Edit(p) PROVE TypeOK'
    BY <1>4 DEF Edit
<1>5. ASSUME NEW g \in Group, DeleteGroup(g) PROVE TypeOK'
    <2>1. events' \in 0..MaxEvents
        BY <1>5, StrikesType DEF DeleteGroup
    <2> QED
        BY <1>5, <2>1 DEF DeleteGroup, Scope
<1>6. CASE OthersMap
    <2>1. events' \in 0..MaxEvents
        BY <1>6, StrikesType DEF OthersMap
    <2>2. NoMapping \in Mapping
        BY DEF NoMapping, Mapping
    <2>3. \A m \in [there : {TRUE}, rules : SUBSET Federated] : m \in Mapping
        BY DEF Mapping
    <2>4. mapping' \in Mapping
        BY <1>6, <2>2, <2>3 DEF OthersMap
    <2> QED
        BY <1>6, <2>1, <2>4 DEF OthersMap, Scope
<1>7. CASE UNCHANGED vars
    BY <1>7 DEF vars
<1> QED
    BY <1>1, <1>2, <1>3, <1>4, <1>5, <1>6, <1>7 DEF Next

\* The run over all projects keeps the declared types for any projects,
\* groups and faults (reconciler.py, reconcile).
THEOREM TypeCorrect == Spec => []TypeOK
BY InitType, NextType, PTL DEF Spec

-----------------------------------------------------------------------------
(* Where a run stands: nothing is done before the loop, the loop dispatches *)
(* on an instant that has passed, and roles are granted to present projects. *)

PlaceInv ==
    /\ pc # "idle" => scopes \in Scopes
    /\ pc \in {"collect", "groups", "enter"} => pending = selected
    /\ pc = "enter" => "groups" \notin scopes \/ "groups" \in down
    /\ pc = "over" => pending = {}
    /\ pc \in Between \cup {"over"} => at <= clock
    /\ pc \in {"roles", "rest"} => \A p \in Project : IsNext(p) => Goal(p) = "present"

\* One project is next.
LEMMA OneIsNext ==
    ASSUME TypeOK, NEW p \in Project, NEW q \in Project, IsNext(p), IsNext(q)
    PROVE  p = q
BY DEF IsNext, Project

\* Every step keeps PlaceInv.
LEMMA PlaceStep == TypeOK /\ PlaceInv /\ [Next]_vars => PlaceInv'
<1> SUFFICES ASSUME TypeOK, PlaceInv, [Next]_vars PROVE PlaceInv'
    OBVIOUS
<1> USE DEF PlaceInv, Between, IsNext, Goal, cloudVars, worldVars, runVars, runFacts, loopVars
<1>1. CASE Start
    BY <1>1 DEF Start, Scopes, Scope
<1>2. CASE CollectGroups \/ GroupsRaise
    BY <1>2 DEF CollectGroups, GroupsRaise, PhaseFails
<1>3. CASE EnterLoop
    BY <1>3 DEF EnterLoop, TypeOK
<1>4. ASSUME NEW g \in Group, EnsureGroup(g) PROVE PlaceInv'
    BY <1>4 DEF EnsureGroup
<1>5. ASSUME NEW p \in Project, Provision(p) PROVE PlaceInv'
    <2>1. Goal(p) = "present" /\ IsNext(p) /\ pc = "loop"
        BY <1>5 DEF Provision
    <2>2. \A q \in Project : IsNext(q) => q = p
        BY <2>1, OneIsNext
    <2> QED
        BY <1>5, <2>1, <2>2 DEF Provision, Fails, GoesOn
<1>6. ASSUME NEW p \in Project, GrantRoles(p) \/ OtherHandlers(p) \/ Lock(p) \/ Remove(p) PROVE PlaceInv'
    BY <1>6 DEF GrantRoles, OtherHandlers, Lock, Remove, Fails, GoesOn
<1>7. ASSUME NEW p \in Project, HandlerRaises(p) \/ Save(p) \/ SaveRaises(p) PROVE PlaceInv'
    BY <1>7 DEF HandlerRaises, Fails, Save, SaveRaises
<1>8. CASE Federate \/ FederationRaises
    BY <1>8 DEF Federate, FederationRaises
<1>9. CASE Crash
    BY <1>9 DEF Crash
<1>10. CASE Tick
    BY <1>10 DEF Tick, TypeOK
<1>11. ASSUME NEW p \in Project, Edit(p) PROVE PlaceInv'
    BY <1>11 DEF Edit
<1>12. ASSUME NEW g \in Group, DeleteGroup(g) PROVE PlaceInv'
    BY <1>12 DEF DeleteGroup
<1>13. CASE OthersMap
    BY <1>13 DEF OthersMap
<1>14. CASE UNCHANGED vars
    BY <1>14 DEF vars
<1> QED
    BY <1>1, <1>2, <1>3, <1>4, <1>5, <1>6, <1>7, <1>8, <1>9, <1>10, <1>11, <1>12, <1>13, <1>14
    DEF Next, Step

\* PlaceInv holds.
LEMMA PlaceHolds == Spec => []PlaceInv
<1>1. Init => PlaceInv
    BY DEF Init, PlaceInv, Between
<1> QED
    BY <1>1, PlaceStep, TypeCorrect, PTL DEF Spec

-----------------------------------------------------------------------------
(* What is reported.  A project that is over with is settled, and one that *)
(* is about to be recorded has its roles.                                  *)

HasRoles(p) ==
    "roles" \in scopes /\ Goal(p) = "present" /\ p \in GroupMode /\ GroupOf[p] \in groups
        => p \in granted

SettledInv ==
    /\ pc \in Between \cup {"over"} => \A p \in selected \ pending : Settled(p)
    /\ pc \in {"rest", "save"} => \A p \in Project : IsNext(p) => HasRoles(p)

\* Steps that leave the loop's facts alone, and only let groups go with their
\* roles, leave every project settled.
LEMMA StaysSettled ==
    ASSUME NEW p \in Project, Settled(p), failed \subseteq failed', recorded' = recorded,
           cfg' = cfg, at' = at, scopes' = scopes, groups' \subseteq groups,
           GroupOf[p] \in groups' /\ p \in granted => p \in granted'
    PROVE  Settled(p)'
BY DEF Settled, Goal

\* The steps of the loop settle the project that is next, and leave it for
\* another only when it is.
LEMMA SettledLoop ==
    ASSUME TypeOK, PlaceInv, SettledInv, NEW p \in Project,
           Provision(p) \/ GrantRoles(p) \/ OtherHandlers(p) \/ Lock(p) \/ Remove(p)
              \/ HandlerRaises(p) \/ Save(p) \/ SaveRaises(p)
    PROVE  SettledInv'
<1> USE DEF runFacts, loopVars, worldVars, cloudVars
<1>1. IsNext(p) /\ pc \in Between /\ p \in pending
    BY DEF Provision, GrantRoles, OtherHandlers, Lock, Remove, HandlerRaises, Save, SaveRaises, IsNext, Between
<1>2. \A q \in Project : IsNext(q) => q = p
    BY <1>1, OneIsNext
<1>3. cfg' = cfg /\ at' = at /\ scopes' = scopes /\ selected' = selected /\ groups' = groups
    BY DEF Provision, GrantRoles, OtherHandlers, Lock, Remove, HandlerRaises, Save, SaveRaises
<1>4. \A q \in selected \ pending : Settled(q) /\ q # p /\ q \in Project
    BY <1>1 DEF SettledInv, TypeOK
<1>5. CASE Fails(p) /\ recorded' = recorded /\ granted' = granted
    <2>1. \A q \in selected \ pending : Settled(q)'
        BY <1>3, <1>4, <1>5, StaysSettled DEF Fails
    <2>2. Settled(p)'
        BY <1>5 DEF Fails, Settled
    <2> QED
        BY <1>3, <1>5, <2>1, <2>2 DEF SettledInv, Fails
<1>6. CASE GoesOn("roles") /\ recorded' = recorded /\ granted' = granted
    <2>1. \A q \in selected \ pending : Settled(q)'
        BY <1>3, <1>4, <1>6, StaysSettled DEF GoesOn
    <2> QED
        BY <1>3, <1>6, <2>1 DEF SettledInv, GoesOn
<1>7. CASE GrantRoles(p) /\ GoesOn("rest")
    <2>1. recorded' = recorded /\ granted \subseteq granted'
        BY <1>7 DEF GrantRoles
    <2>2. \A q \in selected \ pending : Settled(q)'
        BY <1>3, <1>4, <1>7, <2>1, StaysSettled DEF GoesOn
    <2>3. HasRoles(p)'
        BY <1>3, <1>7 DEF GrantRoles, GroupIsGone, HasRoles, Fails, GoesOn, TypeOK
    <2>4. \A q \in Project : IsNext(q)' => q = p
        BY <1>2, <1>7 DEF GoesOn, IsNext
    <2> QED
        BY <1>3, <1>7, <2>2, <2>3, <2>4 DEF SettledInv, GoesOn
<1>8. CASE OtherHandlers(p)
    <2>1. \A q \in selected \ pending : Settled(q)'
        BY <1>3, <1>4, <1>8, StaysSettled DEF OtherHandlers, GoesOn
    <2>2. \A q \in Project : IsNext(q)' => IsNext(q) /\ HasRoles(q)
        BY <1>8 DEF OtherHandlers, GoesOn, IsNext, SettledInv
    <2>3. \A q \in Project : IsNext(q)' => HasRoles(q)'
        BY <1>3, <1>8, <2>2 DEF OtherHandlers, HasRoles, Goal
    <2> QED
        BY <1>3, <1>8, <2>1, <2>3 DEF SettledInv, OtherHandlers, GoesOn
<1>9. CASE (Lock(p) \/ Remove(p)) /\ GoesOn("save")
    <2>1. recorded' = recorded /\ granted \ {p} \subseteq granted' /\ Goal(p) # "present"
        BY <1>9 DEF Lock, Remove
    <2>2. \A q \in selected \ pending : Settled(q)'
        BY <1>3, <1>4, <1>9, <2>1, StaysSettled DEF GoesOn
    <2>3. \A q \in Project : IsNext(q)' => q = p
        BY <1>2, <1>9 DEF GoesOn, IsNext
    <2>4. HasRoles(p)'
        BY <1>3, <2>1 DEF HasRoles, Goal
    <2> QED
        BY <1>3, <1>9, <2>2, <2>3, <2>4 DEF SettledInv, GoesOn
<1>10. CASE Save(p)
    <2>1. HasRoles(p)
        BY <1>1, <1>10 DEF SettledInv, Save
    <2>2. recorded'[p] = Goal(p) /\ granted' = granted /\ failed' = failed
        BY <1>10 DEF Save, TypeOK
    <2>3. Settled(p)'
        BY <1>3, <2>1, <2>2 DEF Settled, HasRoles, Goal
    <2>4. \A q \in selected \ pending : recorded'[q] = recorded[q]
        BY <1>4, <1>10 DEF Save, TypeOK
    <2>5. \A q \in selected \ pending : Settled(q)'
        BY <1>3, <1>4, <2>2, <2>4 DEF Settled, Goal
    <2> QED
        BY <1>3, <1>10, <2>3, <2>5 DEF SettledInv, Save
<1>11. CASE SaveRaises(p)
    BY <1>11 DEF SaveRaises, SettledInv, Between
<1> QED
    BY <1>5, <1>6, <1>7, <1>8, <1>9, <1>10, <1>11
    DEF Provision, GrantRoles, Lock, Remove, HandlerRaises

\* Every step keeps SettledInv.
LEMMA SettledStep == TypeOK /\ PlaceInv /\ SettledInv /\ [Next]_vars => SettledInv'
<1> SUFFICES ASSUME TypeOK, PlaceInv, SettledInv, [Next]_vars PROVE SettledInv'
    OBVIOUS
<1> USE DEF cloudVars, worldVars, runVars, runFacts, loopVars
<1>1. CASE Start \/ CollectGroups \/ GroupsRaise \/ Crash
    BY <1>1 DEF Start, CollectGroups, GroupsRaise, Crash, SettledInv, Between
<1>2. CASE EnterLoop
    BY <1>2 DEF EnterLoop, SettledInv, PlaceInv, Between
<1>3. ASSUME NEW g \in Group, EnsureGroup(g) PROVE SettledInv'
    BY <1>3 DEF EnsureGroup, SettledInv, Between
<1>4. ASSUME NEW p \in Project,
             Provision(p) \/ GrantRoles(p) \/ OtherHandlers(p) \/ Lock(p) \/ Remove(p)
                \/ HandlerRaises(p) \/ Save(p) \/ SaveRaises(p)
      PROVE  SettledInv'
    BY <1>4, SettledLoop
<1>5. CASE Federate \/ FederationRaises
    BY <1>5 DEF Federate, FederationRaises, SettledInv, Settled, Goal, Between
<1>6. CASE Tick \/ OthersMap \/ (\E p \in Project : Edit(p))
    BY <1>6 DEF Tick, OthersMap, Edit, SettledInv, Settled, Goal, HasRoles, IsNext
<1>7. ASSUME NEW g \in Group, DeleteGroup(g) PROVE SettledInv'
    BY <1>7 DEF DeleteGroup, SettledInv, Settled, Goal, HasRoles, IsNext, TypeOK
<1>8. CASE UNCHANGED vars
    BY <1>8 DEF vars, SettledInv, Settled, Goal, HasRoles, IsNext
<1> QED
    BY <1>1, <1>2, <1>3, <1>4, <1>5, <1>6, <1>7, <1>8 DEF Next, Step

\* A run that comes to its end reports every project it was invoked for,
\* whatever happens to the others (reconciler.py, the loop of reconcile).
THEOREM OutcomesAreReported == Spec => []OutcomeIsReported
<1>1. Init => SettledInv
    BY DEF Init, SettledInv, Between
<1>2. PlaceInv /\ SettledInv => OutcomeIsReported
    BY DEF PlaceInv, SettledInv, OutcomeIsReported, Between
<1> QED
    BY <1>1, <1>2, SettledStep, PlaceHolds, TypeCorrect, PTL DEF Spec

-----------------------------------------------------------------------------
(* The groups.  Those the run has still to look for, and those there are,  *)
(* are all that projects need which are present now or when the loop is    *)
(* entered.                                                                *)

GroupInv ==
    /\ pc = "groups" /\ "groups" \notin meddled =>
           \A p \in GroupMode : Effective(cfg[p], clock) = "present" => GroupOf[p] \in groups \cup missing
    /\ pc \in Between /\ "groups" \in scopes \ (down \cup meddled) =>
           \A p \in GroupMode : Goal(p) = "present" => GroupOf[p] \in groups

\* Every step keeps GroupInv.
LEMMA GroupStep == TypeOK /\ PlaceInv /\ GroupInv /\ [Next]_vars => GroupInv'
<1> SUFFICES ASSUME TypeOK, PlaceInv, GroupInv, [Next]_vars PROVE GroupInv'
    OBVIOUS
<1> USE DEF GroupInv, Between, Goal, cloudVars, worldVars, runVars, runFacts, loopVars
<1>1. CASE Start \/ GroupsRaise \/ Crash \/ Federate \/ FederationRaises
    BY <1>1 DEF Start, GroupsRaise, Crash, Federate, FederationRaises
<1>2. CASE CollectGroups
    <2>1. \A p \in GroupMode : Effective(cfg[p], clock) = "present" => p \in Wanting
        BY DEF Wanting, Present
    <2> QED
        BY <1>2, <2>1 DEF CollectGroups
<1>3. ASSUME NEW g \in Group, EnsureGroup(g) PROVE GroupInv'
    BY <1>3 DEF EnsureGroup
<1>4. CASE EnterLoop
    BY <1>4 DEF EnterLoop, PlaceInv
<1>5. ASSUME NEW p \in Project,
             Provision(p) \/ GrantRoles(p) \/ OtherHandlers(p) \/ Lock(p) \/ Remove(p)
                \/ HandlerRaises(p) \/ Save(p) \/ SaveRaises(p)
      PROVE  GroupInv'
    <2>1. pc \in Between /\ pc' # "groups"
        BY <1>5 DEF Provision, GrantRoles, OtherHandlers, Lock, Remove, HandlerRaises, Save, SaveRaises,
                    Fails, GoesOn
    <2>2. groups' = groups /\ cfg' = cfg /\ at' = at /\ scopes' = scopes /\ down' = down /\ meddled' = meddled
        BY <1>5 DEF Provision, GrantRoles, OtherHandlers, Lock, Remove, HandlerRaises, Save, SaveRaises
    <2> QED
        BY <2>1, <2>2
<1>6. CASE Tick
    <2>1. \A p \in GroupMode : Effective(cfg[p], clock') = "present" => Effective(cfg[p], clock) = "present"
        BY <1>6, EffectiveTightens DEF Tick, TypeOK
    <2> QED
        BY <1>6, <2>1 DEF Tick
<1>7. CASE OthersMap \/ (\E p \in Project : Edit(p))
    BY <1>7 DEF OthersMap, Edit
<1>8. ASSUME NEW g \in Group, DeleteGroup(g) PROVE GroupInv'
    BY <1>8 DEF DeleteGroup
<1>9. CASE UNCHANGED vars
    BY <1>9 DEF vars
<1> QED
    BY <1>1, <1>2, <1>3, <1>4, <1>5, <1>6, <1>7, <1>8, <1>9 DEF Next, Step

\* The groups of all present projects are there before the first project is
\* reconciled, though a deadline may pass in between (keystone_groups.py,
\* ensure_keystone_groups; context.py, validate_scopes).
THEOREM GroupsAreFound == Spec => []GroupsAreThere
<1>1. Init => GroupInv
    BY DEF Init, GroupInv, Between
<1>2. TypeOK /\ PlaceInv /\ GroupInv => GroupsAreThere
    <2> SUFFICES ASSUME TypeOK, PlaceInv, GroupInv, pc = "roles", "roles" \in scopes,
                        "groups" \notin down, "groups" \notin meddled,
                        NEW p \in Project, IsNext(p), p \in GroupMode
                 PROVE  GroupOf[p] \in groups
        BY DEF GroupsAreThere, GroupIsGone
    <2>1. "groups" \in scopes /\ Goal(p) = "present"
        BY DEF PlaceInv, Scopes
    <2> QED
        BY <2>1 DEF GroupInv, Between
<1> QED
    BY <1>1, <1>2, GroupStep, PlaceHolds, TypeCorrect, PTL DEF Spec

-----------------------------------------------------------------------------
(* The mapping.  Until the run pushes, it is as the run read it, unless    *)
(* others have changed it.                                                 *)

RuleInv ==
    /\ pc \notin {"idle", "over"} /\ "federation" \notin meddled => mapping = seen
    /\ RulesAgree

\* A later instant has no project present that an earlier one has not.
LEMMA PresentShrinks ==
    ASSUME TypeOK, NEW s \in 0..MaxClock, NEW t \in 0..MaxClock, s <= t
    PROVE  Present(cfg, t) \subseteq Present(cfg, s)
BY EffectiveTightens DEF Present, TypeOK

\* Every step keeps RuleInv.
LEMMA RuleStep == TypeOK /\ PlaceInv /\ RuleInv /\ [Next]_vars => RuleInv'
<1> SUFFICES ASSUME TypeOK, PlaceInv, RuleInv, [Next]_vars PROVE RuleInv'
    OBVIOUS
<1> USE DEF RuleInv, RulesAgree, cloudVars, worldVars, runVars, runFacts, loopVars
<1>1. CASE Start \/ CollectGroups \/ GroupsRaise \/ EnterLoop \/ Crash
    BY <1>1 DEF Start, CollectGroups, GroupsRaise, EnterLoop, Crash
<1>2. ASSUME NEW g \in Group, EnsureGroup(g) PROVE RuleInv'
    BY <1>2 DEF EnsureGroup
<1>3. ASSUME NEW p \in Project,
             Provision(p) \/ GrantRoles(p) \/ OtherHandlers(p) \/ Lock(p) \/ Remove(p)
                \/ HandlerRaises(p) \/ Save(p) \/ SaveRaises(p)
      PROVE  RuleInv'
    <2>1. pc \in Between /\ pc' \in Between \cup {"idle"}
        BY <1>3 DEF Provision, GrantRoles, OtherHandlers, Lock, Remove, HandlerRaises, Save, SaveRaises,
                    Fails, GoesOn, Between
    <2>2. mapping' = mapping /\ seen' = seen /\ meddled' = meddled
        BY <1>3 DEF Provision, GrantRoles, OtherHandlers, Lock, Remove, HandlerRaises, Save, SaveRaises
    <2> QED
        BY <2>1, <2>2 DEF Between
<1>4. CASE Federate
    <2> SUFFICES ASSUME "federation" \in scopes \ down', "federation" \notin meddled
                 PROVE  mapping'.rules = Rules(cfg, clock)
        <3>1. Present(cfg, clock) \subseteq Present(cfg, at)
            BY <1>4, PresentShrinks DEF Federate, PlaceInv, Between, TypeOK
        <3>2. "federation" \in scopes \ down' /\ "federation" \notin meddled =>
                  /\ mapping'.rules \subseteq Present(cfg, at)
                  /\ Federated \cap Present(cfg, clock) \subseteq mapping'.rules
            BY <3>1 DEF Rules
        <3>3. pc' = "over" /\ scopes' = scopes /\ meddled' = meddled /\ cfg' = cfg /\ at' = at /\ clock' = clock
            BY <1>4 DEF Federate
        <3> QED
            BY <3>2, <3>3 DEF Present
    <2>1. mapping = seen
        BY <1>4 DEF Federate
    <2>2. \/ Rules(cfg, clock) = seen.rules /\ mapping' = mapping
          \/ mapping' = [there |-> TRUE, rules |-> Rules(cfg, clock)]
          \/ down' = down \cup {"federation"}
        BY <1>4 DEF Federate, PhaseFails
    <2> QED
        BY <2>1, <2>2
<1>5. CASE FederationRaises
    BY <1>5 DEF FederationRaises, PhaseFails
<1>6. CASE Tick
    <2>1. clock' \in 0..MaxClock /\ clock <= clock'
        BY <1>6 DEF Tick, TypeOK
    <2>2. Present(cfg, clock') \subseteq Present(cfg, clock)
        BY <2>1, PresentShrinks DEF TypeOK
    <2> QED
        BY <1>6, <2>2 DEF Tick, Present
<1>7. ASSUME NEW p \in Project, Edit(p) PROVE RuleInv'
    BY <1>7 DEF Edit, Present
<1>8. ASSUME NEW g \in Group, DeleteGroup(g) PROVE RuleInv'
    BY <1>8 DEF DeleteGroup, Present
<1>9. CASE OthersMap
    BY <1>9 DEF OthersMap
<1>10. CASE UNCHANGED vars
    BY <1>10 DEF vars, Present
<1> QED
    BY <1>1, <1>2, <1>3, <1>4, <1>5, <1>6, <1>7, <1>8, <1>9, <1>10 DEF Next, Step

\* A mapping nobody else changed during the run gives access to no project
\* the run locked or removed, and to all that are present, whichever projects
\* the run was invoked for (federation.py, ensure_federation_mapping).
THEOREM MappingAgrees == Spec => []RulesAgree
<1>1. Init => RuleInv
    BY DEF Init, RuleInv, RulesAgree
<1>2. RuleInv => RulesAgree
    BY DEF RuleInv
<1> QED
    BY <1>1, <1>2, RuleStep, PlaceHolds, TypeCorrect, PTL DEF Spec

=============================================================================
