---------------------------- MODULE LifecycleProofs ----------------------------
(***************************************************************************)
(* Proofs about Lifecycle, for every set of servers, with and without a    *)
(* state store, and whatever faults strike.                                *)
(***************************************************************************)
EXTENDS Lifecycle, TLAPS

USE HasStoreAssumption, FaultsAssumption, MaxEventsAssumption

\* The effective state is a state, for every configuration and clock.
LEMMA EffectiveStateType ==
    ASSUME NEW c \in Config, NEW past \in BOOLEAN
    PROVE  EffectiveState(c, past) \in State
BY DEF EffectiveState, Floor, State, Config

\* A fault that strikes uses up one event.
LEMMA StrikesType ==
    ASSUME NEW f, events \in 0..MaxEvents, Strikes(f)
    PROVE  events' \in 0..MaxEvents
BY DEF Strikes

\* The initial state has the types declared for it.
LEMMA InitType == Init => TypeOK
<1> SUFFICES ASSUME Init PROVE TypeOK
    OBVIOUS
<1>1. Plain \in Config
    BY DEF Plain, Config, State
<1>2. server \in [Server -> Status]
    BY DEF Init, Status
<1>3. events \in 0..MaxEvents
    BY DEF Init
<1> QED
    BY <1>1, <1>2, <1>3 DEF Init, TypeOK, ProjectFlag, PC, State

\* The steps of a run keep the types.
LEMMA StepType == TypeOK /\ Step => TypeOK'
<1> SUFFICES ASSUME TypeOK, Step PROVE TypeOK'
    OBVIOUS
<1> USE DEF TypeOK, cloudVars, worldVars, runVars
<1>1. CASE Start
    <2>1. Goal \in State
        BY EffectiveStateType DEF Goal
    <2>2. events' \in 0..MaxEvents
        BY <1>1, StrikesType DEF Start
    <2> QED
        BY <1>1, <2>1, <2>2 DEF Start, PC, State
<1>2. CASE EnsureProject
    BY <1>2 DEF EnsureProject, Flag, ProjectFlag, PC
<1>3. CASE Decide
    BY <1>3 DEF Decide, ShouldUnshelve, Config, PC
<1>4. CASE Handlers \/ ListShelved \/ ListActive \/ LoopDone
    BY <1>4 DEF Handlers, ListShelved, ListActive, LoopDone, PC
<1>5. CASE Lock
    BY <1>5 DEF Lock, ProjectFlag, PC
<1>6. CASE AbsentAlready \/ SafetyCheckFails \/ SafetyCheckPasses \/ DeleteProject
    BY <1>6 DEF AbsentAlready, SafetyCheckFails, SafetyCheckPasses, DeleteProject, ProjectFlag, PC
<1>7. CASE Save
    BY <1>7 DEF Save, PC
<1>8. ASSUME NEW s \in Server, UnshelveServer(s) PROVE TypeOK'
    <2>1. events' \in 0..MaxEvents
        BY <1>8, StrikesType DEF UnshelveServer
    <2> QED
        BY <1>8, <2>1 DEF UnshelveServer, Status
<1>9. ASSUME NEW s \in Server, ShelveServer(s) PROVE TypeOK'
    <2>1. events' \in 0..MaxEvents
        BY <1>9, StrikesType DEF ShelveServer
    <2> QED
        BY <1>9, <2>1 DEF ShelveServer, Status
<1> QED
    BY <1>1, <1>2, <1>3, <1>4, <1>5, <1>6, <1>7, <1>8, <1>9 DEF Step

\* So do the steps of the world outside, and a crash.
LEMMA NextType == TypeOK /\ [Next]_vars => TypeOK'
<1> SUFFICES ASSUME TypeOK, [Next]_vars PROVE TypeOK'
    OBVIOUS
<1>1. CASE Step
    BY <1>1, StepType
<1>2. CASE Crash
    <2>1. events' \in 0..MaxEvents
        BY <1>2, StrikesType DEF Crash, TypeOK
    <2> QED
        BY <1>2, <2>1 DEF Crash, TypeOK, cloudVars, worldVars, runVars, PC
<1>3. CASE Environment
    <2>1. events' \in 0..MaxEvents
        BY <1>3 DEF Environment, TypeOK
    <2>2. server' \in [Server -> Status] /\ project' = project /\ held' \subseteq Server
        BY <1>3 DEF Environment, UserActs, EditConfig, DeadlinePasses, TypeOK, cloudVars, Status
    <2>3. config' \in Config /\ expired' \in BOOLEAN
        BY <1>3 DEF Environment, UserActs, EditConfig, DeadlinePasses, TypeOK, worldVars
    <2> QED
        BY <1>3, <2>1, <2>2, <2>3 DEF Environment, TypeOK, runVars
<1>4. ASSUME NEW s \in Server, CompleteShelve(s) PROVE TypeOK'
    BY <1>4 DEF CompleteShelve, TypeOK, worldVars, runVars, Status
<1>5. CASE UNCHANGED vars
    BY <1>5 DEF vars, TypeOK, cloudVars, worldVars, runVars
<1> QED
    BY <1>1, <1>2, <1>3, <1>4, <1>5 DEF Next

\* Every state of the project's life has the declared types (reconciler.py,
\* the loop of reconcile: the state dispatched on is one it knows).
THEOREM TypeCorrect == Spec => []TypeOK
BY InitType, NextType, PTL DEF Spec

\* Every step keeps LifeInv: the decision to unshelve survives until the run
\* acts on it, and only a full present run clears the lock it answers.
LEMMA LifeStep == TypeOK /\ LifeInv /\ [Next]_vars => LifeInv'
<1> SUFFICES ASSUME TypeOK, LifeInv, [Next]_vars PROVE LifeInv'
    OBVIOUS
<1> USE DEF LifeInv, cloudVars, worldVars, runVars
<1>1. CASE Start
    BY <1>1 DEF Start, Goal, EffectiveState, Floor, TypeOK, State, Config
<1>2. CASE EnsureProject \/ Lock \/ ListActive
    BY <1>2 DEF EnsureProject, Lock, ListActive
<1>3. CASE Decide
    <2>1. unshelve' => ~scoped /\ cfg.enabled /\ (lockSeen \/ last = "unset")
        BY <1>3 DEF Decide, ShouldUnshelve
    <2>2. goal = "present"
        BY <1>3 DEF Decide
    <2> QED
        BY <1>3, <2>1, <2>2 DEF Decide
<1>4. CASE Handlers \/ ListShelved \/ LoopDone
    BY <1>4 DEF Handlers, ListShelved, LoopDone, TypeOK
<1>5. CASE AbsentAlready \/ SafetyCheckFails \/ SafetyCheckPasses \/ DeleteProject
    BY <1>5 DEF AbsentAlready, SafetyCheckFails, SafetyCheckPasses, DeleteProject
<1>6. CASE Save
    BY <1>6 DEF Save, TypeOK
<1>7. ASSUME NEW s \in Server, UnshelveServer(s) \/ ShelveServer(s) PROVE LifeInv'
    BY <1>7 DEF UnshelveServer, ShelveServer, TypeOK
<1>8. CASE Crash
    BY <1>8 DEF Crash
<1>9. CASE Environment
    BY <1>9 DEF Environment
<1>10. ASSUME NEW s \in Server, CompleteShelve(s) PROVE LifeInv'
    BY <1>10 DEF CompleteShelve
<1>11. CASE UNCHANGED vars
    BY <1>11 DEF vars
<1> QED
    BY <1>1, <1>2, <1>3, <1>4, <1>5, <1>6, <1>7, <1>8, <1>9, <1>10, <1>11 DEF Next, Step

\* A recorded lock stands until a full present run lifts it, and a run that
\* has decided to unshelve is a full run of an enabled project that answers
\* such a lock (reconciler.py, _should_unshelve and its caller).
THEOREM LifeCorrect == Spec => []LifeInv
<1>1. Init => LifeInv
    BY DEF Init, LifeInv
<1> QED
    BY <1>1, LifeStep, TypeCorrect, PTL DEF Spec

\* A run brings servers back only on the way out of a lock, whatever crashes,
\* scoped runs and edits came before (reconciler.py, _reconcile_present).
THEOREM UnshelvesAfterLockOnly == Spec => UnshelveOnlyAfterLock
<1>1. LifeInv => (pc = "unshelve" => lockSeen \/ last = "unset")
    BY DEF LifeInv
<1>2. LifeInv /\ [Next]_vars
        => [(pc = "unshelve" /\ server' # server /\ pc' = pc /\ todo' # todo)
                => lockSeen \/ last = "unset"]_vars
    BY <1>1
<1> QED
    BY <1>2, LifeCorrect, PTL DEF Spec, UnshelveOnlyAfterLock

\* The invariant that the run Lifecycle checks: types, and what a run decided
\* and recorded (reconciler.py, _should_unshelve).
THEOREM InvHolds == Spec => []Inv
BY TypeCorrect, LifeCorrect, PTL DEF Inv

=============================================================================
