-------------------------------- MODULE Network --------------------------------
(***************************************************************************)
(* A project's network stack and the record of its routers' external       *)
(* addresses (resources/network.py, resources/prealloc/network.py): the    *)
(* network, its subnet and its router are created one call after another,  *)
(* once; every run then lists all routers, keeps their external addresses  *)
(* in the state file and moves those that are gone to the released list;   *)
(* and, later in the run, the stack is created again if it is missing.     *)
(*                                                                         *)
(* Every API call and every write of the state file is a step.  A router's *)
(* id is never used again.  An entry of router_ips is an id and an         *)
(* address; an entry of released_router_ips is the address.                *)
(***************************************************************************)
EXTENDS Integers, FiniteSets

CONSTANTS
    Router,         \* ids of routers
    Address,        \* the addresses of the external network
    None,
    Reclaim,        \* reclaim_router_ips
    Prealloc,       \* quotas.network.networks = 1, not 0 and not above
    Faults,         \* what may go wrong, see below
    MaxEvents       \* bound on the steps of the world outside and on faults

(* "fail"     a run dies, or a call fails after its retries, between steps  *)
(* "echo"     the answer to a create is lost and the call made again: it     *)
(*            creates another, or meets the conflict the first one made      *)
(* "wipe"     users delete the stack, router and network                    *)
(* "networks" users delete the network alone, or make one of their own      *)
(* "routers"  users add and delete routers and reset their gateways         *)
(* "others"   other projects take addresses and give them back              *)
(* "midrun"   all this happens during a run too, not only between runs      *)
Fault == {"fail", "echo", "wipe", "networks", "routers", "others", "midrun"}

ASSUME NoneAssumption      == None \notin Router \cup Address
ASSUME SwitchAssumption    == Reclaim \in BOOLEAN /\ Prealloc \in BOOLEAN
ASSUME FaultsAssumption    == Faults \subseteq Fault
ASSUME MaxEventsAssumption == MaxEvents \in Nat
\* Ids do not run out: past the first stack, a router needs an event.
ASSUME RouterAssumption    == IsFiniteSet(Router) /\ Cardinality(Router) > MaxEvents

VARIABLES
    (* the cloud *)
    stack,      \* the network <prefix>-network: "none", "bare" or with its "subnet"
    twin,       \* a second network has that name
    other,      \* the project owns a network of another name
    attached,   \* the router the subnet is attached to
    status,     \* of each router id: "new", "up" or "gone"
    named,      \* the routers called <prefix>-router
    ip,         \* the external address of each router, or None
    taken,      \* addresses other projects hold
    (* the state file *)
    tracked,    \* router_ips
    released,   \* released_router_ips
    (* the run *)
    pc,
    cfg,        \* its load-time copy of both lists, the address it reclaims
    again,      \* the stack is being created by prealloc/network.py
    made,       \* the router it created
    listed,     \* what it listed
    (* history and bounds *)
    seen,       \* every address router_ips has named, but for those a failing run dropped
    meanwhile,  \* have users made or deleted a network of theirs since the run began?
    events      \* events still allowed

stackVars  == <<stack, twin, other, attached>>
routerVars == <<status, named, ip>>
cloudVars  == <<stackVars, routerVars, taken>>
fileVars   == <<tracked, released>>
runVars    == <<cfg, again, made, listed>>
history    == <<seen, meanwhile>>
vars       == <<cloudVars, fileVars, pc, runVars, history, events>>

Rest  == {"idle", "done"}
PC    == Rest \cup {"find", "others", "network", "subnet", "reclaim", "refused", "router",
                    "attach", "list", "snapshot", "audit", "prealloc"}
Entry == Router \X Address
Config == [tracked : SUBSET Entry, released : SUBSET Address, previous : Address \cup {None}]

TypeOK ==
    /\ stack \in {"none", "bare", "subnet"}
    /\ twin \in BOOLEAN /\ other \in BOOLEAN
    /\ attached \in Router \cup {None}
    /\ status \in [Router -> {"new", "up", "gone"}]
    /\ named \subseteq Router
    /\ ip \in [Router -> Address \cup {None}]
    /\ taken \subseteq Address
    /\ tracked \subseteq Entry /\ released \subseteq Address
    /\ pc \in PC
    /\ cfg \in Config
    /\ again \in BOOLEAN
    /\ made \in Router \cup {None}
    /\ listed \subseteq Entry
    /\ seen \subseteq Address /\ meanwhile \in BOOLEAN
    /\ events \in 0..MaxEvents

Init ==
    /\ stack = "none" /\ twin = FALSE /\ other = FALSE /\ attached = None
    /\ status = [r \in Router |-> "new"] /\ named = {} /\ ip = [r \in Router |-> None]
    /\ taken = {} /\ tracked = {} /\ released = {}
    /\ pc = "idle"
    /\ cfg = [tracked |-> {}, released |-> {}, previous |-> None]
    /\ again = FALSE /\ made = None /\ listed = {} /\ seen = {} /\ meanwhile = FALSE
    /\ events = MaxEvents

-----------------------------------------------------------------------------
(* The cloud.                                                              *)

Up           == {r \in Router : status[r] = "up"}
Held         == taken \cup {ip[r] : r \in Up}
Unused       == Address \ Held
Listing      == {e \in Entry : e[1] \in Up /\ ip[e[1]] = e[2]}
Addresses(E) == {e[2] : e \in E}
Ids(E)       == {e[1] : e \in E}

AddRouter(r, a) ==
    /\ status[r] = "new"
    /\ a \in Unused
    /\ status' = [status EXCEPT ![r] = "up"]
    /\ ip' = [ip EXCEPT ![r] = a]

\* The stack's router.
NamedRouter(r, a) == AddRouter(r, a) /\ named' = named \cup {r}

Echo == "echo" \in Faults /\ events > 0 /\ events' = events - 1

-----------------------------------------------------------------------------
(* ensure_network_stack.                                                   *)

\* _find_previous_router_ip: the first entry of the stack's router in the
\* list, which is in no order.
PreviousIp ==
    LET P == {e[2] : e \in {x \in tracked : x[1] \in named}}
    IN  IF Reclaim /\ P # {} THEN P ELSE {None}

\* The run loads the project's state; what it will reclaim depends on that
\* alone.
Load ==
    /\ pc \in Rest
    /\ pc' = "find"
    /\ \E p \in PreviousIp :
          cfg' = [tracked |-> tracked, released |-> released, previous |-> p]
    /\ again' = FALSE /\ made' = None /\ listed' = {}
    /\ meanwhile' = FALSE
    /\ UNCHANGED <<cloudVars, fileVars, seen, events>>

\* Where the run goes on when the stack exists or is complete.
Onwards == IF again THEN "done" ELSE "list"

FindNetwork ==
    /\ pc = "find"
    /\ ~twin
    /\ pc' = IF stack # "none" THEN Onwards ELSE "others"
    /\ UNCHANGED <<cloudVars, fileVars, runVars, history, events>>

\* A slip of OtherNetworks: only the expected name is looked for.
ExpectedNameOnly ==
    /\ pc = "others"
    /\ pc' = IF stack # "none" THEN Onwards ELSE "network"
    /\ UNCHANGED <<cloudVars, fileVars, runVars, history, events>>

\* A project with any network keeps it.
OtherNetworks ==
    /\ pc = "others"
    /\ pc' = IF other \/ stack # "none" THEN Onwards ELSE "network"
    /\ UNCHANGED <<cloudVars, fileVars, runVars, history, events>>

CreateNetwork ==
    /\ pc = "network"
    /\ stack' = "bare"
    /\ \/ twin' = FALSE /\ UNCHANGED events
       \/ Echo /\ twin' = TRUE
    /\ pc' = "subnet"
    /\ UNCHANGED <<other, attached, routerVars, taken, fileVars, runVars, history>>

CreateSubnet ==
    /\ pc = "subnet"
    /\ stack = "bare"
    /\ stack' = "subnet"
    /\ pc' = IF cfg.previous # None THEN "reclaim" ELSE "router"
    /\ UNCHANGED <<twin, other, attached, routerVars, taken, fileVars, runVars, history, events>>

\* The address belongs to one router: a call that is made again is refused it,
\* and the router of the first one is none of the run's.
ReclaimRouter ==
    /\ pc = "reclaim"
    /\ \E r \in Router :
          /\ NamedRouter(r, cfg.previous)
          /\ \/ made' = r /\ pc' = "attach" /\ UNCHANGED events
             \/ Echo /\ pc' = "refused" /\ UNCHANGED made
    /\ UNCHANGED <<stackVars, taken, fileVars, cfg, again, listed, history>>

AddressTaken ==
    /\ pc = "reclaim"
    /\ cfg.previous \in Held
    /\ pc' = "refused"
    /\ UNCHANGED <<cloudVars, fileVars, runVars, history, events>>

\* A slip of PersistRefused: the list that was loaded is not taken over.
RefusedAlone ==
    /\ pc = "refused"
    /\ released' = {cfg.previous}
    /\ pc' = "router"
    /\ UNCHANGED <<cloudVars, tracked, runVars, history, events>>

\* The address that was refused is added to the list the run has loaded.
PersistRefused ==
    /\ pc = "refused"
    /\ released' = cfg.released \cup {cfg.previous}
    /\ pc' = "router"
    /\ UNCHANGED <<cloudVars, tracked, runVars, history, events>>

\* A call that is made again gets another router on another address.
CreateRouter ==
    /\ pc = "router"
    /\ \E r \in Router, a \in Unused :
          \/ NamedRouter(r, a) /\ made' = r /\ UNCHANGED events
          \/ /\ Echo
             /\ \E s \in Router \ {r}, b \in Unused \ {a} :
                   /\ status[r] = "new" /\ status[s] = "new"
                   /\ status' = [status EXCEPT ![r] = "up", ![s] = "up"]
                   /\ ip' = [ip EXCEPT ![r] = a, ![s] = b]
                   /\ named' = named \cup {r, s}
                   /\ made' = s
    /\ pc' = "attach"
    /\ UNCHANGED <<stackVars, taken, fileVars, cfg, again, listed, history>>

Attach ==
    /\ pc = "attach"
    /\ stack = "subnet"
    /\ made \in Up
    /\ attached' = made
    /\ pc' = Onwards
    /\ UNCHANGED <<stack, twin, other, routerVars, taken, fileVars, runVars, history, events>>

-----------------------------------------------------------------------------
(* track_router_ips.                                                       *)

ListRouters ==
    /\ pc = "list"
    /\ listed' = Listing
    /\ pc' = "snapshot"
    /\ UNCHANGED <<cloudVars, fileVars, cfg, again, made, history, events>>

\* A slip of PersistSnapshot: what is new is added, nothing is dropped.
SnapshotGrows ==
    /\ pc = "snapshot"
    /\ tracked' = tracked \cup listed
    /\ seen' = seen \cup Addresses(tracked')
    /\ pc' = "audit"
    /\ UNCHANGED <<cloudVars, released, runVars, meanwhile, events>>

\* A list that has not changed is not written.
PersistSnapshot ==
    /\ pc = "snapshot"
    /\ tracked' = IF listed # cfg.tracked THEN listed ELSE tracked
    /\ seen' = seen \cup Addresses(tracked')
    /\ pc' = "audit"
    /\ UNCHANGED <<cloudVars, released, runVars, meanwhile, events>>

\* A slip of NewReleases: a gateway that was reset goes unseen.
GoneOnly == Addresses({e \in cfg.tracked : e[1] \notin Ids(listed)})

\* Routers that are gone, and addresses that changed.
NewReleases == Addresses(cfg.tracked \ listed)

Active == Addresses(listed)

\* The list is written when an entry is added to the loaded one or leaves it.
ReleasedChanged == NewReleases \ Active # {} \/ cfg.released \cap Active # {}

\* A slip of AllReleased: what is active again stays.
ReleasedForGood == cfg.released \cup NewReleases

AllReleased ==
    IF ReleasedChanged THEN (cfg.released \cup NewReleases) \ Active ELSE released

PersistReleased ==
    /\ pc = "audit"
    /\ released' = AllReleased
    /\ pc' = IF Prealloc THEN "prealloc" ELSE "done"
    /\ UNCHANGED <<cloudVars, tracked, runVars, history, events>>

-----------------------------------------------------------------------------
(* ensure_preallocated_network: one look at the network, the next          *)
(* ensure_network_stack looks again before it creates anything.            *)

PreallocNetwork ==
    /\ pc = "prealloc"
    /\ ~twin
    /\ IF stack # "none" \/ other
       THEN pc' = "done" /\ UNCHANGED again
       ELSE pc' = "find" /\ again' = TRUE
    /\ UNCHANGED <<cloudVars, fileVars, cfg, made, listed, history, events>>

\* A call the cloud refuses, or two networks of the name that is looked for:
\* the project has failed in this run.
Impossible ==
    \/ pc \in {"find", "prealloc"} /\ twin
    \/ pc = "subnet" /\ stack # "bare"
    \/ pc = "router" /\ Unused = {}
    \/ pc = "attach" /\ (stack # "subnet" \/ made \notin Up)

\* Between the two writes of track_router_ips that forgets what was to go to
\* the released list.
Raise ==
    /\ \/ Impossible /\ UNCHANGED events
       \/ "fail" \in Faults /\ pc \notin Rest /\ events > 0 /\ events' = events - 1
    /\ pc' = "idle"
    /\ seen' = IF pc = "audit" THEN seen \cap (Addresses(tracked) \cup released) ELSE seen
    /\ UNCHANGED <<cloudVars, fileVars, runVars, meanwhile>>

-----------------------------------------------------------------------------
(* The world outside.                                                      *)

WipeStack ==
    /\ "wipe" \in Faults
    /\ stack # "none"
    /\ stack' = "none" /\ twin' = FALSE /\ attached' = None
    /\ status' = [r \in Router |-> IF r \in named /\ r \in Up THEN "gone" ELSE status[r]]
    /\ UNCHANGED <<other, named, ip, taken>>

\* Users detach and delete the network; the router and its address live on.
DropNetwork ==
    /\ "networks" \in Faults
    /\ stack # "none"
    /\ stack' = "none" /\ twin' = FALSE /\ attached' = None
    /\ UNCHANGED <<other, routerVars, taken>>

ToggleNetwork ==
    /\ "networks" \in Faults
    /\ other' = ~other
    /\ UNCHANGED <<stack, twin, attached, routerVars, taken>>

UserRouter(r) ==
    /\ "routers" \in Faults
    /\ \/ /\ \E a \in Address : AddRouter(r, a)
          /\ UNCHANGED <<stackVars, named>>
       \/ /\ r \in Up
          /\ status' = [status EXCEPT ![r] = "gone"]
          /\ attached' = IF attached = r THEN None ELSE attached
          /\ UNCHANGED <<stack, twin, other, named, ip>>
       \/ /\ r \in Up
          /\ \E a \in Unused \cup {None} : ip' = [ip EXCEPT ![r] = a]
          /\ UNCHANGED <<stackVars, named, status>>
    /\ UNCHANGED taken

Others(a) ==
    /\ "others" \in Faults
    /\ \/ a \in Unused /\ taken' = taken \cup {a}
       \/ taken' = taken \ {a}
    /\ UNCHANGED <<stackVars, routerVars>>

World ==
    /\ pc \in Rest \/ "midrun" \in Faults
    /\ events > 0
    /\ events' = events - 1
    /\ \/ WipeStack \/ DropNetwork \/ ToggleNetwork
       \/ \E r \in Router : UserRouter(r)
       \/ \E a \in Address : Others(a)
    /\ meanwhile' = (meanwhile \/ other' # other)
    /\ UNCHANGED <<fileVars, pc, runVars, seen>>

-----------------------------------------------------------------------------
Step == \/ Load \/ FindNetwork \/ OtherNetworks \/ CreateNetwork \/ CreateSubnet
        \/ ReclaimRouter \/ AddressTaken \/ PersistRefused \/ CreateRouter \/ Attach
        \/ ListRouters \/ PersistSnapshot \/ PersistReleased \/ PreallocNetwork

Next == Step \/ Raise \/ World

Spec == Init /\ [][Next]_vars

\* Runs are scheduled again and again and a run goes on until it ends.
FairSpec == Spec /\ WF_vars(Step \/ (Impossible /\ Raise))

-----------------------------------------------------------------------------
(* Properties.                                                             *)

\* When a run has ended, no address is on both lists: an address that a
\* router of the project holds is not reported as given up
\* (track_router_ips, the comment before all_released).  Only the address a
\* run was refused may be, if a router of the project itself holds it: that
\* was recorded after the released list was loaded.
ActiveNotReleased ==
    pc = "done" => Addresses(tracked) \cap released \subseteq {cfg.previous}

\* Between runs, an address router_ips once named is there still or in the
\* released list: the history of a project's addresses has no gap, whatever
\* order the two lists are written in and from which copies, unless a run
\* died between the two writes.
NothingForgotten == pc \in Rest => seen \subseteq Addresses(tracked) \cup released

\* A run never gives a project a network when it owns one already, under
\* whatever name (the SAFETY check of ensure_network_stack), unless users made
\* that one while the run was at work.
NeverASecondNetwork ==
    [][stack = "none" /\ stack' # "none" => ~other \/ meanwhile]_vars

\* Once the world is quiet, runs bring both lists in line with the routers
\* that exist, whatever failed before, unless two networks of one name make
\* every lookup raise.
EventuallyAccurate ==
    <>[](twin \/ (tracked = Listing /\ Addresses(tracked) \cap released = {}))

\* A run has written neither list yet, or the first one only.
Underway == pc \notin Rest \cup {"prealloc"} /\ ~again

Lists == INSTANCE AuditedList
         WITH Item <- Address, active <- Addresses(tracked), retired <- released,
              due <- IF pc = "audit" THEN NewReleases \ Active ELSE {},
              noted <- IF Underway THEN released \ cfg.released ELSE {},
              writing <- pc = "audit"

\* The two lists are an audited list, whichever of its two writers writes the
\* released one: what the first drops the second gets, and an address leaves
\* the second only when it is active again (track_router_ips and the reclaim
\* of ensure_network_stack; docs/DESIGN-DECISIONS.md, DD-026).
ImplementsAuditedList == Lists!Spec

=============================================================================
