-------------------------------- MODULE Teardown --------------------------------
(***************************************************************************)
(* Tearing down a project whose effective state is absent: the safety      *)
(* check, the revocation of what the project was given, the resources in   *)
(* reverse dependency order, and the project itself (reconciler.py,        *)
(* _reconcile_absent; resources/teardown.py).                              *)
(*                                                                         *)
(* Every API call is a step.  Keystone, Nova, Cinder and Neutron are known *)
(* by what these calls expect of them: Neutron refuses to remove what is   *)
(* still attached or in use, and nobody removes a project's resources with *)
(* it.                                                                     *)
(***************************************************************************)
EXTENDS Naturals, Sequences, FiniteSets

CONSTANTS
    Fip, Snapshot, Router, Subnet, Network, Group,  \* resources, by kind
    Services,   \* which of "compute" and "storage" the cloud offers
    Faults,     \* what may go wrong, see below
    MaxEvents   \* bound on the steps of the world outside and on faults

(* "crash"  a run dies between two calls                                    *)
(* "read"   a check or the list of one kind fails, after its retries        *)
(* "write"  a revocation, a deletion or a call preparing one fails          *)
(* "echo"   the answer to a detachment is lost, and the call is repeated    *)
(* "users"  users and their tools create and remove things meanwhile        *)
Fault == {"crash", "read", "write", "echo", "users"}

ASSUME ServicesAssumption  == Services \subseteq {"compute", "storage"}
ASSUME FaultsAssumption    == Faults \subseteq Fault
ASSUME MaxEventsAssumption == MaxEvents \in Nat

Resource  == Fip \cup Snapshot \cup Router \cup Subnet \cup Network \cup Group
Interface == Router \X Subnet

\* What refuses a teardown, of the services the cloud offers.
Blocker == (IF "compute" \in Services THEN {"server"} ELSE {})
              \cup (IF "storage" \in Services THEN {"volume"} ELSE {})

\* A slip of Steps: the routers go after what is attached to them.
StepsRoutersLate == <<Fip, Snapshot, Subnet, Router, Network, Group>>

\* _TEARDOWN_STEPS: the kinds in the order they are deleted.
Steps == <<Fip, Snapshot, Router, Subnet, Network, Group>>

\* A resource is of one kind, and is no interface.
ASSUME KindAssumption ==
    /\ \A i, j \in 1..Len(Steps) : i # j => Steps[i] \cap Steps[j] = {}
    /\ Resource \cap Interface = {}

\* What a project was given elsewhere: flavor access in Nova, roles in Keystone.
Access == {"flavor", "role"}

VARIABLES
    (* the cloud *)
    project,    \* does the project exist?
    inUse,      \* its servers and volumes, by kind
    access,     \* what it was given that stands
    exists,     \* its resources
    attached,   \* router interfaces
    (* the run *)
    pc,
    errors,     \* reasons not to tear down
    step,       \* index of the current entry of _TEARDOWN_STEPS
    todo,       \* resources this step has still to delete
    router,     \* the router being prepared for deletion, or none
    ports,      \* subnets of the interfaces listed on it
    failures,   \* resources whose deletion failed
    (* history and bounds *)
    reported,   \* resources some run reported deleted
    late,       \* what users booted or made since the run began, by kind of blocker
    pulled,     \* routers that lost an interface without the run's knowing: users
                \* took it off, or the answer to its detachment was lost
    unlisted,   \* resources and interfaces users created since the run began, but for
                \* those it listed later
    events      \* events still allowed

cloudVars == <<project, inUse, access, exists, attached>>
runVars   == <<errors, step, todo, router, ports, failures>>
history   == <<reported, late, pulled, unlisted>>
vars      == <<cloudVars, pc, runVars, history, events>>

PC == {"idle", "servers", "volumes", "flavors", "roles", "list", "delete",
       "detach", "router", "project"}

TypeOK ==
    /\ project \in BOOLEAN
    /\ inUse \subseteq Blocker
    /\ access \subseteq Access
    /\ exists \subseteq Resource
    /\ attached \subseteq Interface
    /\ pc \in PC
    /\ errors \subseteq {"server", "volume"}
    /\ step \in 1..Len(Steps) + 1
    /\ pc \notin {"idle", "project"} => step <= Len(Steps)
    /\ todo \subseteq Resource
    /\ router \subseteq Router
    /\ ports \subseteq Subnet
    /\ failures \subseteq Resource
    /\ reported \subseteq Resource
    /\ late \subseteq Blocker
    /\ pulled \subseteq Router
    /\ unlisted \subseteq Resource \cup Interface
    /\ events \in 0..MaxEvents

\* What users may have: snapshots where there is block storage, subnets in a
\* network.
Available(E, r) ==
    /\ r \in Snapshot => "storage" \in Services
    /\ r \in Subnet => E \cap Network # {}

\* A project with any resources, and every interface they allow.
Init ==
    /\ project = TRUE
    /\ inUse \in SUBSET Blocker
    /\ access = Access
    /\ exists \in {E \in SUBSET Resource : \A r \in E : Available(E, r)}
    /\ attached = {i \in Interface : i[1] \in exists /\ i[2] \in exists}
    /\ pc = "idle"
    /\ errors = {} /\ step = 1 /\ todo = {} /\ router = {} /\ ports = {} /\ failures = {}
    /\ reported = {} /\ late = {} /\ pulled = {} /\ unlisted = {}
    /\ events = MaxEvents

-----------------------------------------------------------------------------
(* What the services allow.                                                *)

\* Neutron keeps a router with interfaces, a subnet a router is attached to,
\* and a network one of whose subnets is.
Removable(r) ==
    /\ r \in Router => \A s \in Subnet : <<r, s>> \notin attached
    /\ r \in Subnet => \A q \in Router : <<q, r>> \notin attached
    /\ r \in Network => attached = {}

\* Servers have ports in a network and security groups on them: what they may
\* be using, Neutron may keep.
MayBeUsed(r) == r \in Subnet \cup Network \cup Group /\ "server" \in inUse

\* An interface or a gateway stays while a floating IP is routed through it.
MayRoute == exists \cap Fip # {}

\* A fault happens: it is allowed, and it is counted.
Strikes(f) == f \in Faults /\ events > 0 /\ events' = events - 1

-----------------------------------------------------------------------------
(* The safety check.                                                       *)

\* A missing project is torn down already: the run skips it.
AlreadyAbsent ==
    /\ pc = "idle"
    /\ ~project
    /\ UNCHANGED vars

\* A slip of Start: what an earlier run found refuses this one too.
StartKeepingErrors ==
    /\ pc = "idle"
    /\ project
    /\ pc' = "servers"
    /\ step' = 1 /\ todo' = {} /\ router' = {} /\ ports' = {} /\ failures' = {}
    /\ late' = {} /\ unlisted' = {}
    /\ UNCHANGED <<cloudVars, errors, reported, pulled, events>>

Start ==
    /\ pc = "idle"
    /\ project
    /\ pc' = "servers"
    /\ errors' = {} /\ step' = 1 /\ todo' = {} /\ router' = {} /\ ports' = {} /\ failures' = {}
    /\ late' = {} /\ unlisted' = {}
    /\ UNCHANGED <<cloudVars, reported, pulled, events>>

\* A slip of Finds: a check that fails finds nothing.
FindsOnlySeen(b) ==
    \/ errors' = errors \cup ({b} \cap inUse) /\ UNCHANGED events
    \/ errors' = errors /\ Strikes("read")

\* A slip of Finds: the second check forgets what the first one found.
FindsLastOnly(b) ==
    \/ errors' = {b} \cap inUse /\ UNCHANGED events
    \/ b \in Blocker /\ errors' = {b} /\ Strikes("read")

\* One check: what is there refuses the teardown, and so does an answer that
\* does not come.  A service the cloud lacks has nothing and answers at once.
Finds(b) ==
    \/ errors' = errors \cup ({b} \cap inUse) /\ UNCHANGED events
    \/ b \in Blocker /\ errors' = errors \cup {b} /\ Strikes("read")

CheckServers ==
    /\ pc = "servers"
    /\ Finds("server")
    /\ pc' = "volumes"
    /\ UNCHANGED <<cloudVars, step, todo, router, ports, failures, history>>

\* A refusal raises and ends the run of this project.
CheckVolumes ==
    /\ pc = "volumes"
    /\ Finds("volume")
    /\ pc' = IF errors' = {} THEN "flavors" ELSE "idle"
    /\ UNCHANGED <<cloudVars, step, todo, router, ports, failures, history>>

-----------------------------------------------------------------------------
(* What was given is taken back; a failure ends the run of this project.   *)

\* A slip of Revoke: a failure is swallowed.
RevokeSwallowing(a, next) ==
    \/ access' = access \ {a} /\ pc' = next /\ UNCHANGED events
    \/ access' = access /\ pc' = next /\ Strikes("write")

Revoke(a, next) ==
    \/ access' = access \ {a} /\ pc' = next /\ UNCHANGED events
    \/ access' = access /\ pc' = "idle" /\ Strikes("write")

RevokeFlavors ==
    /\ pc = "flavors"
    /\ Revoke("flavor", "roles")
    /\ UNCHANGED <<project, inUse, exists, attached, runVars, history>>

RevokeRoles ==
    /\ pc = "roles"
    /\ Revoke("role", "list")
    /\ UNCHANGED <<project, inUse, exists, attached, runVars, history>>

-----------------------------------------------------------------------------
(* The resources, kind by kind.                                            *)

\* The list of one kind is read when its turn comes.  A cloud without block
\* storage has no snapshots; any other failure ends the run of this project.
ListKind ==
    /\ pc = "list"
    /\ step <= Len(Steps)
    /\ \/ /\ todo' = exists \cap Steps[step]
          /\ unlisted' = unlisted \ Steps[step]
          /\ pc' = "delete"
          /\ UNCHANGED events
       \/ /\ Strikes("read")
          /\ pc' = "idle"
          /\ UNCHANGED <<todo, unlisted>>
    /\ UNCHANGED <<cloudVars, errors, step, router, ports, failures, reported, late, pulled>>

KindDone ==
    /\ pc = "delete"
    /\ todo = {}
    /\ step' = step + 1
    /\ pc' = IF step' > Len(Steps) THEN "project" ELSE "list"
    /\ UNCHANGED <<cloudVars, errors, todo, router, ports, failures, history, events>>

\* A slip of Delete: a refusal counts as gone.
DeleteSwallowing(r) ==
    \/ /\ exists' = exists \ (IF Removable(r) THEN {r} ELSE {})
       /\ reported' = reported \cup {r}
       /\ UNCHANGED <<failures, events>>
    \/ /\ Strikes("write")
       /\ reported' = reported \cup {r}
       /\ UNCHANGED <<exists, failures>>

\* _safe_delete: a resource that is gone, or goes, is reported deleted, also
\* when a repeated call finds that the first one took it; one that Neutron
\* keeps, or whose deletion fails, is a failure, and the loop goes on.
Delete(r) ==
    \/ /\ r \notin exists \/ Removable(r)
       /\ exists' = exists \ {r}
       /\ reported' = reported \cup {r}
       /\ UNCHANGED <<failures, events>>
    \/ /\ r \in exists /\ (~Removable(r) \/ MayBeUsed(r))
       /\ failures' = failures \cup {r}
       /\ UNCHANGED <<exists, reported, events>>
    \/ /\ Strikes("write")
       /\ failures' = failures \cup {r}
       /\ UNCHANGED <<exists, reported>>

DeleteResource(r) ==
    /\ pc = "delete"
    /\ r \in todo \ Router
    /\ Delete(r)
    /\ todo' = todo \ {r}
    /\ UNCHANGED <<project, inUse, access, attached, pc, errors, step, router, ports, late, pulled,
                   unlisted>>

\* The subnets of the interface ports listed on a router.
Interfaces(r) == {s \in Subnet : <<r, s>> \in attached}

\* _prepare_router_deletion: the interfaces are listed, detached one by one,
\* and the gateway is cleared.  Whatever it raises is taken for the answer to
\* the deletion: a "not found" for the router being gone.
ListPorts(r) ==
    /\ pc = "delete"
    /\ r \in todo \cap Router
    /\ todo' = todo \ {r}
    /\ \/ /\ router' = {r}
          /\ ports' = Interfaces(r)
          /\ unlisted' = unlisted \ ({r} \X Subnet)
          /\ pc' = "detach"
          /\ UNCHANGED <<failures, events>>
       \/ /\ Strikes("write")
          /\ failures' = failures \cup {r}
          /\ UNCHANGED <<router, ports, pc, unlisted>>
    /\ UNCHANGED <<cloudVars, errors, step, reported, late, pulled>>

\* The preparation ends early, with a failure or with a "not found".
GiveUp   == failures' = failures \cup router /\ UNCHANGED reported
TakeGone == reported' = reported \cup router /\ UNCHANGED failures

LeaveRouter == ports' = {} /\ router' = {} /\ pc' = "delete"

\* A detachment whose answer was lost took effect, and is not found when it is
\* repeated.
Detach(s) ==
    /\ pc = "detach"
    /\ s \in ports
    /\ \E r \in router :
          \/ /\ <<r, s>> \in attached
             /\ attached' = attached \ {<<r, s>>}
             /\ ports' = ports \ {s}
             /\ UNCHANGED <<router, pc, failures, reported, pulled, events>>
          \/ /\ <<r, s>> \in attached /\ Strikes("echo")
             /\ attached' = attached \ {<<r, s>>} /\ pulled' = pulled \cup {r}
             /\ TakeGone /\ LeaveRouter
          \/ /\ <<r, s>> \notin attached
             /\ TakeGone /\ LeaveRouter
             /\ UNCHANGED <<attached, pulled, events>>
          \/ /\ (<<r, s>> \in attached /\ MayRoute /\ UNCHANGED events) \/ Strikes("write")
             /\ GiveUp /\ LeaveRouter
             /\ UNCHANGED <<attached, pulled>>
    /\ UNCHANGED <<project, inUse, access, exists, errors, step, todo, late, unlisted>>

ClearGateway ==
    /\ pc = "detach"
    /\ ports = {}
    /\ \/ /\ router \subseteq exists
          /\ pc' = "router"
          /\ UNCHANGED <<router, failures, reported, events>>
       \/ /\ ~(router \subseteq exists)
          /\ TakeGone
          /\ router' = {} /\ pc' = "delete"
          /\ UNCHANGED events
       \/ /\ (router \subseteq exists /\ MayRoute /\ UNCHANGED events) \/ Strikes("write")
          /\ GiveUp
          /\ router' = {} /\ pc' = "delete"
    /\ UNCHANGED <<cloudVars, errors, step, todo, ports, late, pulled, unlisted>>

DeleteRouter ==
    /\ pc = "router"
    /\ \E r \in router : Delete(r)
    /\ router' = {}
    /\ pc' = "delete"
    /\ UNCHANGED <<project, inUse, access, attached, errors, step, todo, ports, late, pulled,
                   unlisted>>

\* The project goes last, whatever failed before; only then are the failures
\* raised.
DeleteProject ==
    /\ pc = "project"
    /\ \/ project' = FALSE /\ UNCHANGED events
       \/ Strikes("write") /\ UNCHANGED project
    /\ pc' = "idle"
    /\ UNCHANGED <<inUse, access, exists, attached, runVars, history>>

Crash ==
    /\ pc # "idle"
    /\ Strikes("crash")
    /\ pc' = "idle"
    /\ UNCHANGED <<cloudVars, runVars, history>>

Step ==
    \/ AlreadyAbsent \/ Start
    \/ CheckServers \/ CheckVolumes
    \/ RevokeFlavors \/ RevokeRoles
    \/ ListKind \/ KindDone
    \/ \E r \in Resource : DeleteResource(r) \/ ListPorts(r)
    \/ \E s \in Subnet : Detach(s)
    \/ ClearGateway \/ DeleteRouter
    \/ DeleteProject

-----------------------------------------------------------------------------
(* The world outside.                                                      *)

\* The owner frees the servers or the volumes, as the refusal asks.
Free(b) ==
    /\ b \in inUse
    /\ inUse' = inUse \ {b}
    /\ events > 0 /\ events' = events - 1
    /\ UNCHANGED <<project, access, exists, attached, pc, runVars, history>>

\* They boot a server or create a volume.
UserBoots ==
    /\ \E b \in Blocker : inUse' = inUse \cup {b} /\ late' = late \cup {b}
    /\ UNCHANGED <<exists, attached, pulled, unlisted>>

\* They create a resource; ids are not given twice.
UserCreates(r) ==
    /\ r \notin exists \cup reported /\ Available(exists, r)
    /\ exists' = exists \cup {r} /\ unlisted' = unlisted \cup {r}
    /\ UNCHANGED <<inUse, attached, late, pulled>>

\* They attach a subnet to a router.
UserAttaches(i) ==
    /\ i \notin attached /\ i[1] \in exists /\ i[2] \in exists
    /\ attached' = attached \cup {i} /\ unlisted' = unlisted \cup {i}
    /\ UNCHANGED <<inUse, exists, late, pulled>>

UserRemoves(r) ==
    /\ r \in exists /\ Removable(r)
    /\ exists' = exists \ {r}
    /\ UNCHANGED <<inUse, attached, late, pulled, unlisted>>

UserDetaches(i) ==
    /\ i \in attached
    /\ attached' = attached \ {i} /\ pulled' = pulled \cup {i[1]}
    /\ UNCHANGED <<inUse, exists, late, unlisted>>

\* In a project that is gone nothing is created any more.
UserActs ==
    /\ Strikes("users")
    /\ \/ project /\ (\/ UserBoots
                      \/ \E r \in Resource : UserCreates(r)
                      \/ \E i \in Interface : UserAttaches(i))
       \/ \E r \in Resource : UserRemoves(r)
       \/ \E i \in Interface : UserDetaches(i)
    /\ UNCHANGED <<project, access, pc, runVars, reported>>

Next ==
    \/ Step
    \/ Crash
    \/ \E b \in Blocker : Free(b)
    \/ UserActs

Spec == Init /\ [][Next]_vars

\* The tool runs on a cadence.
FairSpec == Spec /\ WF_vars(Step)

-----------------------------------------------------------------------------
(* The inductive invariant behind DeletedMeansGone.                        *)

\* One router is prepared at a time, and the interfaces listed on it are there
\* until the run detaches them, or users do.
PrepareInv ==
    /\ \A q, r \in router : q = r
    /\ pc = "detach" => (router \ pulled) \X ports \subseteq attached

-----------------------------------------------------------------------------
(* Properties.                                                             *)

\* A run that is past the safety check found nothing that refuses: what is in
\* use now was created since the run began.
CheckInv ==
    /\ pc \in PC \ {"idle", "servers", "volumes"} => errors = {}
    /\ (pc \in PC \ {"idle", "servers"} /\ errors = {}) => inUse \cap {"server"} \subseteq late
    /\ pc \in PC \ {"idle", "servers", "volumes"} => inUse \subseteq late
    /\ ~project => inUse \subseteq late

\* The variables have their types, and CheckInv holds.
Inv == TypeOK /\ CheckInv

\* A project goes only when nothing refuses it: the servers and volumes that
\* outlive it were created by users after the last run began, even when the
\* checks fail to answer.
DeletedProjectsAreEmpty == ~project => inUse \subseteq late

\* A deleted project leaves no flavor access and no role behind.
NoDanglingAccess ==
    /\ ~project => access = {}
    /\ pc \in PC \ {"idle", "servers", "volumes", "flavors"} => "flavor" \notin access
    /\ pc \in PC \ {"idle", "servers", "volumes", "flavors", "roles"} => access = {}

\* The order of the kinds respects what Neutron refuses: the first failure of
\* a run is a call that fails, never a refusal, unless somebody stepped in:
\* users booted a server after the check, or created something behind the
\* listing of its kind, or an interface went without the run's knowing and
\* its router was taken for gone.
OrderNeverRefused ==
    [][failures = {} /\ failures' # {} =>
           events' < events \/ "server" \in late \/ unlisted # {} \/ pulled # {}]_vars

\* What a run reports deleted is gone, but for a router whose preparation met
\* an interface that had gone without its knowing.
DeletedMeansGone == reported \cap exists \subseteq pulled

\* Once nothing refuses it a teardown is completed, by a later run if need be,
\* and what it leaves behind is what the last run named in its error or took
\* for gone, or what users created behind the listing of its kind.
EventuallyTornDown ==
    <>[](IF project THEN inUse # {} ELSE exists \subseteq failures \cup pulled \cup unlisted)

\* Once nothing refuses it nothing is left of the project.
NothingLeftBehind == <>[](inUse # {} \/ (~project /\ exists = {}))

=============================================================================
