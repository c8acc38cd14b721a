-------------------------------- MODULE Lifecycle --------------------------------
(***************************************************************************)
(* The lifecycle of one project across runs of the tool (reconciler.py,    *)
(* compute.py, project.py): present, locked and absent, the lifetime that  *)
(* tightens the configured state, the shelving of servers on the way into  *)
(* locked and their return on the way out.                                 *)
(*                                                                         *)
(* A run is one invocation; its steps are the calls that change the cloud  *)
(* or the state file.  The resource handlers of a present run are one step *)
(* here: they are modelled in modules of their own, and what matters here  *)
(* is that any of them may raise.                                          *)
(***************************************************************************)
EXTENDS Naturals, FiniteSets

CONSTANTS
    Server,     \* servers the project may have
    HasStore,   \* is a state store configured?
    Faults,     \* what may go wrong, see below
    MaxEvents   \* bound on the steps of the world outside and on faults

(* "crash"    a run dies, or a call raises, between two steps               *)
(* "scoped"   a run is invoked for some resources only (--only)             *)
(* "api"      the call that shelves or unshelves one server fails           *)
(* "slow"     Nova accepts a shelve and completes it later                  *)
(* "disabled" the configuration may say enabled: false                      *)
Fault == {"crash", "scoped", "api", "slow", "disabled"}

ASSUME HasStoreAssumption  == HasStore \in BOOLEAN
ASSUME FaultsAssumption    == Faults \subseteq Fault
ASSUME MaxEventsAssumption == MaxEvents \in Nat

VARIABLES
    (* the cloud *)
    project,    \* "missing", "enabled" or "disabled"
    server,     \* status of each server
    (* the configuration and the clock *)
    config,     \* state, enabled, and the action of the lifetime ("none" without one)
    expired,    \* is the lifetime's deadline past?
    (* the state file *)
    last,       \* metadata.last_reconciled_state
    (* the run *)
    pc,
    cfg,        \* the configuration the run loaded
    goal,       \* the effective state it dispatched on
    scoped,     \* was it invoked with scopes?
    wasDisabled,\* was the project disabled before ensure_project updated it?
    unshelve,   \* should_unshelve
    todo,       \* servers the current loop has still to visit
    (* history and bounds *)
    held,       \* servers that are shelved because the tool shelved them
    lockSeen,   \* has a locked run shelved or completed since a full present run?
    events      \* events still allowed

cloudVars == <<project, server>>
worldVars == <<config, expired>>
runVars   == <<cfg, goal, scoped, wasDisabled, unshelve, todo>>
vars      == <<cloudVars, worldVars, last, pc, runVars, held, lockSeen, events>>

State       == {"present", "locked", "absent"}
Config      == [state : State, enabled : BOOLEAN, action : {"none", "lock", "delete"}]
Status      == {"none", "active", "shelving", "shelved"}
ProjectFlag == {"missing", "enabled", "disabled"}
PC          == {"idle", "present", "decide", "handlers", "list", "unshelve", "locked",
                "listActive", "shelve", "absent", "delete", "save"}

TypeOK ==
    /\ project \in ProjectFlag
    /\ server \in [Server -> Status]
    /\ config \in Config /\ expired \in BOOLEAN
    /\ last \in State \cup {"unset"}
    /\ pc \in PC
    /\ cfg \in Config
    /\ goal \in State
    /\ scoped \in BOOLEAN /\ wasDisabled \in BOOLEAN /\ unshelve \in BOOLEAN
    /\ todo \subseteq Server
    /\ held \subseteq Server
    /\ lockSeen \in BOOLEAN
    /\ events \in 0..MaxEvents

Plain == [state |-> "present", enabled |-> TRUE, action |-> "none"]

Init ==
    /\ project = "missing"
    /\ server = [s \in Server |-> "none"]
    /\ config = Plain /\ expired = FALSE
    /\ last = "unset"
    /\ pc = "idle"
    /\ cfg = Plain /\ goal = "present" /\ scoped = FALSE
    /\ wasDisabled = FALSE /\ unshelve = FALSE /\ todo = {}
    /\ held = {}
    /\ lockSeen = FALSE
    /\ events = MaxEvents

-----------------------------------------------------------------------------
(* The effective state.                                                    *)

Rank(s) == CASE s = "present" -> 0 [] s = "locked" -> 1 [] s = "absent" -> 2

Floor(c) == IF c.action = "lock" THEN "locked" ELSE "absent"

\* The configured state, tightened once the deadline has passed.
EffectiveState(c, past) ==
    IF c.action = "none" \/ ~past \/ Rank(c.state) >= Rank(Floor(c))
    THEN c.state
    ELSE Floor(c)

Goal == EffectiveState(config, expired)

Exists(s) == server[s] # "none"

-----------------------------------------------------------------------------
(* A run.                                                                  *)

\* A fault happens: it is allowed, and it is counted.
Strikes(f) == f \in Faults /\ events > 0 /\ events' = events - 1

Start ==
    /\ pc = "idle"
    /\ cfg'  = config
    /\ goal' = Goal
    /\ pc'   = Goal
    /\ \/ scoped' = FALSE /\ UNCHANGED events
       \/ scoped' = TRUE /\ Strikes("scoped")
    /\ wasDisabled' = FALSE /\ unshelve' = FALSE /\ todo' = {}
    /\ UNCHANGED <<cloudVars, worldVars, last, held, lockSeen>>

Flag(enabled) == IF enabled THEN "enabled" ELSE "disabled"

\* ensure_project: create the project or bring its enabled flag in line, and
\* tell what the flag was before.
EnsureProject ==
    /\ pc = "present"
    /\ project' = Flag(cfg.enabled)
    /\ wasDisabled' = (project = "disabled")
    /\ pc' = "decide"
    /\ UNCHANGED <<server, worldVars, last, cfg, goal, scoped, unshelve, todo, held, lockSeen, events>>

\* A slip of ShouldUnshelve: the enabled flag decides, not the state file.
FlagDecides == cfg.enabled /\ wasDisabled

\* The state file decides; the enabled flag only when it records no state.
ShouldUnshelve ==
    /\ cfg.enabled
    /\ IF HasStore /\ last # "unset" THEN last = "locked" ELSE wasDisabled

\* A slip of Decide: a scoped run unshelves too.
DecideWhateverScopes ==
    /\ pc = "decide"
    /\ unshelve' = ShouldUnshelve
    /\ pc' = "handlers"
    /\ UNCHANGED <<cloudVars, worldVars, last, cfg, goal, scoped, wasDisabled, todo, held, lockSeen, events>>

\* The decision is taken before the handlers run.
Decide ==
    /\ pc = "decide"
    /\ unshelve' = (~scoped /\ ShouldUnshelve)
    /\ pc' = "handlers"
    /\ UNCHANGED <<cloudVars, worldVars, last, cfg, goal, scoped, wasDisabled, todo, held, lockSeen, events>>

\* Roles, networks, floating IPs, quotas, security groups, reservations.
Handlers ==
    /\ pc = "handlers"
    /\ pc' = IF unshelve THEN "list" ELSE "save"
    /\ UNCHANGED <<cloudVars, worldVars, last, runVars, held, lockSeen, events>>

ListShelved ==
    /\ pc = "list"
    /\ todo' = {s \in Server : server[s] = "shelved"}
    /\ pc' = "unshelve"
    /\ UNCHANGED <<cloudVars, worldVars, last, cfg, goal, scoped, wasDisabled, unshelve, held, lockSeen, events>>

\* One server of the list: it returns, or its failure is recorded and the
\* loop goes on.
UnshelveServer(s) ==
    /\ pc = "unshelve"
    /\ s \in todo
    /\ todo' = todo \ {s}
    /\ \/ /\ server[s] = "shelved"
          /\ server' = [server EXCEPT ![s] = "active"]
          /\ held' = held \ {s}
          /\ UNCHANGED events
       \/ /\ server[s] # "shelved"
          /\ UNCHANGED <<server, held, events>>
       \/ Strikes("api") /\ UNCHANGED <<server, held>>
    /\ UNCHANGED <<project, worldVars, last, pc, cfg, goal, scoped, wasDisabled, unshelve, lockSeen>>

LoopDone ==
    /\ pc \in {"unshelve", "shelve"}
    /\ todo = {}
    /\ pc' = "save"
    /\ UNCHANGED <<cloudVars, worldVars, last, runVars, held, lockSeen, events>>

\* A slip of Lock: the flag is left to the configuration.
LockKeepingFlag ==
    /\ pc = "locked"
    /\ project' = Flag(cfg.enabled)
    /\ pc' = "listActive"
    /\ UNCHANGED <<server, worldVars, last, runVars, held, lockSeen, events>>

\* _reconcile_locked: ensure_project with enabled forced to False.
Lock ==
    /\ pc = "locked"
    /\ project' = "disabled"
    /\ pc' = "listActive"
    /\ UNCHANGED <<server, worldVars, last, runVars, held, lockSeen, events>>

ListActive ==
    /\ pc = "listActive"
    /\ todo' = {s \in Server : server[s] = "active"}
    /\ pc' = "shelve"
    /\ UNCHANGED <<cloudVars, worldVars, last, cfg, goal, scoped, wasDisabled, unshelve, held, lockSeen, events>>

ShelveServer(s) ==
    /\ pc = "shelve"
    /\ s \in todo
    /\ todo' = todo \ {s}
    /\ \/ /\ server[s] = "active"
          /\ server' = [server EXCEPT ![s] = IF "slow" \in Faults THEN "shelving" ELSE "shelved"]
          /\ held' = held \cup {s}
          /\ lockSeen' = TRUE
          /\ UNCHANGED events
       \/ /\ server[s] # "active"
          /\ UNCHANGED <<server, held, lockSeen, events>>
       \/ Strikes("api") /\ UNCHANGED <<server, held, lockSeen>>
    /\ UNCHANGED <<project, worldVars, last, pc, cfg, goal, scoped, wasDisabled, unshelve>>

\* _reconcile_absent: nothing to do for a missing project, an error for one
\* that still has servers.
AbsentAlready ==
    /\ pc = "absent"
    /\ project = "missing"
    /\ pc' = "save"
    /\ UNCHANGED <<cloudVars, worldVars, last, runVars, held, lockSeen, events>>

SafetyCheckFails ==
    /\ pc = "absent"
    /\ project # "missing"
    /\ \E s \in Server : Exists(s)
    /\ pc' = "idle"
    /\ UNCHANGED <<cloudVars, worldVars, last, runVars, held, lockSeen, events>>

SafetyCheckPasses ==
    /\ pc = "absent"
    /\ project # "missing"
    /\ \A s \in Server : ~Exists(s)
    /\ pc' = "delete"
    /\ UNCHANGED <<cloudVars, worldVars, last, runVars, held, lockSeen, events>>

\* The teardown, modelled in detail in Teardown: the project goes.
DeleteProject ==
    /\ pc = "delete"
    /\ project' = "missing"
    /\ pc' = "save"
    /\ UNCHANGED <<server, worldVars, last, runVars, held, lockSeen, events>>

\* The state is recorded after every run that raised nothing, whatever its
\* scopes and whatever failures its loops recorded.
Save ==
    /\ pc = "save"
    /\ last' = IF HasStore THEN goal ELSE last
    /\ lockSeen' = CASE goal = "locked" -> TRUE
                     [] goal = "present" /\ ~scoped -> FALSE
                     [] OTHER -> lockSeen
    /\ pc' = "idle"
    /\ UNCHANGED <<cloudVars, worldVars, runVars, held, events>>

\* A crash, or an exception that is caught per project.
Crash ==
    /\ pc # "idle"
    /\ Strikes("crash")
    /\ pc' = "idle"
    /\ UNCHANGED <<cloudVars, worldVars, last, runVars, held, lockSeen>>

Step ==
    \/ Start
    \/ EnsureProject \/ Decide \/ Handlers \/ ListShelved
    \/ Lock \/ ListActive \/ LoopDone
    \/ AbsentAlready \/ SafetyCheckFails \/ SafetyCheckPasses \/ DeleteProject
    \/ Save
    \/ \E s \in Server : UnshelveServer(s) \/ ShelveServer(s)

-----------------------------------------------------------------------------
(* The world outside.                                                      *)

\* Nova finishes what it accepted.
CompleteShelve(s) ==
    /\ server[s] = "shelving"
    /\ server' = [server EXCEPT ![s] = "shelved"]
    /\ UNCHANGED <<project, worldVars, last, pc, runVars, held, lockSeen, events>>

\* A user boots, shelves, restores or deletes a server.
UserActs(s) ==
    /\ project # "missing"
    /\ \E to \in Status :
          /\ <<server[s], to>> \in
                {<<"none", "active">>, <<"active", "shelved">>, <<"shelved", "active">>,
                 <<"active", "none">>, <<"shelved", "none">>}
          /\ server' = [server EXCEPT ![s] = to]
    /\ held' = held \ {s}
    /\ UNCHANGED <<project, worldVars>>

\* The project's file is edited; an edited deadline may lie in the future again.
EditConfig ==
    /\ config' \in {c \in Config : c.enabled \/ "disabled" \in Faults} \ {config}
    /\ expired' \in {expired, FALSE}
    /\ UNCHANGED <<cloudVars, held>>

DeadlinePasses ==
    /\ config.action # "none"
    /\ ~expired
    /\ expired' = TRUE
    /\ UNCHANGED <<cloudVars, config, held>>

Environment ==
    /\ events > 0
    /\ events' = events - 1
    /\ (\E s \in Server : UserActs(s)) \/ EditConfig \/ DeadlinePasses
    /\ UNCHANGED <<last, pc, runVars, lockSeen>>

Next ==
    \/ Step
    \/ Crash
    \/ Environment
    \/ \E s \in Server : CompleteShelve(s)

Spec == Init /\ [][Next]_vars

\* The tool runs on a cadence, and Nova finishes what it accepted.
FairSpec == Spec /\ WF_vars(Step) /\ \A s \in Server : WF_vars(CompleteShelve(s))

-----------------------------------------------------------------------------
(* Properties.                                                             *)

\* A run brings servers back only on the way out of a lock: some run locked
\* the project since the last full present run, or the state file records
\* nothing and the project was found disabled.
UnshelveOnlyAfterLock ==
    [][(pc = "unshelve" /\ server' # server /\ pc' = pc /\ todo' # todo)
          => lockSeen \/ last = "unset"]_vars

\* What a run has decided stays true until it acts on it: only a full present
\* run of an enabled project unshelves, and a recorded lock is a lock that
\* no full present run has lifted since.
LifeInv ==
    /\ last = "locked" => lockSeen
    /\ ~HasStore => last = "unset"
    /\ pc \in {"present", "decide", "handlers", "list", "unshelve"} => goal = "present"
    /\ pc \in {"locked", "listActive", "shelve", "absent", "delete"} => goal # "present"
    /\ pc \in {"list", "unshelve"} => unshelve
    /\ unshelve => /\ ~scoped /\ goal = "present" /\ cfg.enabled
                   /\ pc \in {"handlers", "list", "unshelve", "save"} => lockSeen \/ last = "unset"

\* The variables have their types, and LifeInv holds.
Inv == TypeOK /\ LifeInv

\* Once nothing changes any more the project ends up in its effective state:
\* enabled as configured, or disabled with nothing running, or gone (unless
\* servers keep it).  Failed and killed runs are made up for by later ones.
EventuallyInState ==
    <>[](CASE Goal = "present" -> project = Flag(config.enabled)
           [] Goal = "locked" -> /\ project = "disabled"
                                 /\ \A s \in Server : server[s] # "active"
           [] Goal = "absent" -> project = "missing" \/ \E s \in Server : Exists(s))

\* Servers the tool shelved come back once the project is present again.
LockedServersReturn ==
    <>[](Goal = "present" /\ config.enabled => \A s \in held : server[s] = "active")

=============================================================================
