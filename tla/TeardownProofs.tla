---------------------------- MODULE TeardownProofs ----------------------------
(***************************************************************************)
(* Proofs about Teardown, for every set of resources and every mix of      *)
(* services.                                                               *)
(***************************************************************************)
EXTENDS Teardown, TLAPS

USE ServicesAssumption, FaultsAssumption, MaxEventsAssumption

\* A fault that strikes uses up one event.
LEMMA StrikesType ==
    ASSUME NEW f, events \in 0..MaxEvents, Strikes(f)
    PROVE  events' \in 0..MaxEvents
BY DEF Strikes

\* The kinds are six, and each holds resources.
LEMMA StepsType == Len(Steps) = 6 /\ \A i \in 1..6 : Steps[i] \subseteq Resource
BY DEF Steps, Resource

\* The initial state has the types declared for it.
LEMMA InitType == Init => TypeOK
<1> SUFFICES ASSUME Init PROVE TypeOK
    OBVIOUS
<1>1. exists \subseteq Resource /\ attached \subseteq Interface /\ events \in 0..MaxEvents
    BY DEF Init
<1> QED
    BY <1>1, StepsType DEF Init, TypeOK, PC

\* Whatever a deletion does, the types of what it changes stay.
LEMMA DeleteType ==
    ASSUME NEW r \in Resource, TypeOK, Delete(r)
    PROVE  /\ exists' \subseteq Resource /\ reported' \subseteq Resource
           /\ failures' \subseteq Resource /\ events' \in 0..MaxEvents
<1>1. events' \in 0..MaxEvents
    BY StrikesType DEF Delete, TypeOK
<1> QED
    BY <1>1 DEF Delete, TypeOK

\* The types of what users may change.
UserTypes ==
    /\ inUse \subseteq Blocker /\ exists \subseteq Resource /\ attached \subseteq Interface
    /\ late \subseteq Blocker /\ pulled \subseteq Router /\ unlisted \subseteq Resource \cup Interface

\* Every step keeps the types.
LEMMA NextType == TypeOK /\ [Next]_vars => TypeOK'
<1> SUFFICES ASSUME TypeOK, [Next]_vars PROVE TypeOK'
    OBVIOUS
<1> USE StepsType DEF TypeOK, cloudVars, runVars, history
<1>1. CASE AlreadyAbsent \/ UNCHANGED vars
    BY <1>1 DEF AlreadyAbsent, vars
<1>2. CASE Start
    BY <1>2 DEF Start, PC
<1>3. CASE CheckServers \/ CheckVolumes
    <2>1. events' \in 0..MaxEvents
        BY <1>3, StrikesType DEF CheckServers, CheckVolumes, Finds
    <2>2. errors' \subseteq {"server", "volume"}
        BY <1>3 DEF CheckServers, CheckVolumes, Finds
    <2> QED
        BY <1>3, <2>1, <2>2 DEF CheckServers, CheckVolumes, PC
<1>4. CASE RevokeFlavors \/ RevokeRoles
    <2>1. events' \in 0..MaxEvents
        BY <1>4, StrikesType DEF RevokeFlavors, RevokeRoles, Revoke
    <2>2. access' \subseteq Access /\ pc' \in {"idle", "roles", "list"} /\ step <= Len(Steps)
        BY <1>4 DEF RevokeFlavors, RevokeRoles, Revoke
    <2> QED
        BY <1>4, <2>1, <2>2 DEF RevokeFlavors, RevokeRoles, PC
<1>5. CASE ListKind
    <2>1. events' \in 0..MaxEvents
        BY <1>5, StrikesType DEF ListKind
    <2>2. /\ todo' \subseteq Resource /\ unlisted' \subseteq Resource \cup Interface
          /\ pc' \in {"delete", "idle"} /\ step <= Len(Steps)
        BY <1>5 DEF ListKind
    <2> QED
        BY <1>5, <2>1, <2>2 DEF ListKind, PC
<1>6. CASE KindDone
    BY <1>6 DEF KindDone, PC
<1>7. ASSUME NEW r \in Resource, DeleteResource(r) PROVE TypeOK'
    BY <1>7, DeleteType DEF DeleteResource
<1>8. ASSUME NEW r \in Resource, ListPorts(r) PROVE TypeOK'
    <2>1. events' \in 0..MaxEvents
        BY <1>8, StrikesType DEF ListPorts
    <2>2. /\ router' \subseteq Router /\ ports' \subseteq Subnet /\ failures' \subseteq Resource
          /\ pc' \in {"delete", "detach"} /\ todo' \subseteq Resource
          /\ unlisted' \subseteq Resource \cup Interface
        BY <1>8 DEF ListPorts, Interfaces
    <2> QED
        BY <1>8, <2>1, <2>2 DEF ListPorts, PC
<1>9. ASSUME NEW s \in Subnet, Detach(s) PROVE TypeOK'
    <2>1. events' \in 0..MaxEvents
        BY <1>9, StrikesType DEF Detach
    <2>2. /\ attached' \subseteq Interface /\ pc' \in {"detach", "delete"}
          /\ router' \subseteq Router /\ ports' \subseteq Subnet /\ pulled' \subseteq Router
        BY <1>9 DEF Detach, LeaveRouter
    <2>3. failures' \subseteq Resource /\ reported' \subseteq Resource
        BY <1>9 DEF Detach, GiveUp, TakeGone, Resource
    <2> QED
        BY <1>9, <2>1, <2>2, <2>3 DEF Detach, PC
<1>10. CASE ClearGateway
    <2>1. events' \in 0..MaxEvents
        BY <1>10, StrikesType DEF ClearGateway
    <2>2. pc' \in {"router", "delete"} /\ router' \subseteq Router
        BY <1>10 DEF ClearGateway
    <2>3. failures' \subseteq Resource /\ reported' \subseteq Resource
        BY <1>10 DEF ClearGateway, GiveUp, TakeGone, Resource
    <2> QED
        BY <1>10, <2>1, <2>2, <2>3 DEF ClearGateway, PC
<1>11. CASE DeleteRouter
    <2>1. PICK r \in router : Delete(r)
        BY <1>11 DEF DeleteRouter
    <2>2. r \in Resource
        BY DEF Resource
    <2> QED
        BY <1>11, <2>1, <2>2, DeleteType DEF DeleteRouter, PC
<1>12. CASE DeleteProject
    <2>1. events' \in 0..MaxEvents
        BY <1>12, StrikesType DEF DeleteProject
    <2> QED
        BY <1>12, <2>1 DEF DeleteProject, PC
<1>13. CASE Crash
    <2>1. events' \in 0..MaxEvents
        BY <1>13, StrikesType DEF Crash
    <2> QED
        BY <1>13, <2>1 DEF Crash, PC
<1>14. ASSUME NEW b \in Blocker, Free(b) PROVE TypeOK'
    BY <1>14 DEF Free
<1>15. CASE UserActs
    <2>1. events' \in 0..MaxEvents
        BY <1>15, StrikesType DEF UserActs
    <2>2. UserTypes'
        <3>1. CASE UserBoots
            BY <3>1 DEF UserBoots, UserTypes
        <3>2. ASSUME NEW r \in Resource, UserCreates(r) \/ UserRemoves(r) PROVE UserTypes'
            BY <3>2 DEF UserCreates, UserRemoves, UserTypes
        <3>3. ASSUME NEW i \in Interface, UserAttaches(i) \/ UserDetaches(i) PROVE UserTypes'
            <4>1. i[1] \in Router
                BY DEF Interface
            <4> QED
                BY <3>3, <4>1 DEF UserAttaches, UserDetaches, UserTypes
        <3> QED
            BY <1>15, <3>1, <3>2, <3>3 DEF UserActs
    <2> QED
        BY <1>15, <2>1, <2>2 DEF UserActs, UserTypes
<1> QED
    BY <1>1, <1>2, <1>3, <1>4, <1>5, <1>6, <1>7, <1>8, <1>9, <1>10, <1>11, <1>12,
       <1>13, <1>14, <1>15 DEF Next, Step

\* Every state of a teardown has the declared types: no run walks off the end
\* of the table of kinds (resources/teardown.py, _TEARDOWN_STEPS).
THEOREM TypeCorrect == Spec => []TypeOK
BY InitType, NextType, PTL DEF Spec

-----------------------------------------------------------------------------
(* The safety check.                                                       *)

\* One check leaves no error only when it saw nothing.
LEMMA FindsLemma ==
    ASSUME NEW b, Finds(b)
    PROVE  errors \subseteq errors' /\ (errors' = {} => b \notin inUse)
BY DEF Finds

\* The steps that follow the check and touch neither what it looked at nor
\* its verdict.
After ==
    \/ RevokeFlavors \/ RevokeRoles \/ ListKind \/ KindDone
    \/ \E r \in Resource : DeleteResource(r) \/ ListPorts(r)
    \/ \E s \in Subnet : Detach(s)
    \/ ClearGateway \/ DeleteRouter

LEMMA AfterLemma ==
    ASSUME After
    PROVE  /\ UNCHANGED <<project, inUse, errors, late>>
           /\ pc \in PC \ {"idle", "servers", "volumes"}
           /\ pc' \in PC \ {"servers", "volumes"}
<1> USE DEF cloudVars, runVars, history, PC
<1>1. CASE RevokeFlavors \/ RevokeRoles
    BY <1>1 DEF RevokeFlavors, RevokeRoles, Revoke
<1>2. CASE ListKind \/ KindDone
    BY <1>2 DEF ListKind, KindDone
<1>3. ASSUME NEW r \in Resource, DeleteResource(r) \/ ListPorts(r)
      PROVE  /\ UNCHANGED <<project, inUse, errors, late>>
             /\ pc \in PC \ {"idle", "servers", "volumes"}
             /\ pc' \in PC \ {"servers", "volumes"}
    BY <1>3 DEF DeleteResource, ListPorts
<1>4. ASSUME NEW s \in Subnet, Detach(s)
      PROVE  /\ UNCHANGED <<project, inUse, errors, late>>
             /\ pc \in PC \ {"idle", "servers", "volumes"}
             /\ pc' \in PC \ {"servers", "volumes"}
    BY <1>4 DEF Detach, LeaveRouter
<1>5. CASE ClearGateway \/ DeleteRouter
    BY <1>5 DEF ClearGateway, DeleteRouter
<1> QED
    BY <1>1, <1>2, <1>3, <1>4, <1>5 DEF After

\* Every step keeps the verdict of the check: what users add meanwhile is on
\* the account of what they added.
LEMMA CheckStep == TypeOK /\ CheckInv /\ [Next]_vars => CheckInv'
<1> SUFFICES ASSUME TypeOK, CheckInv, [Next]_vars PROVE CheckInv'
    OBVIOUS
<1> USE DEF CheckInv, cloudVars, runVars, history
<1>1. CASE AlreadyAbsent \/ UNCHANGED vars
    BY <1>1 DEF AlreadyAbsent, vars
<1>2. CASE Start
    BY <1>2 DEF Start, PC
<1>3. CASE CheckServers
    BY <1>3, FindsLemma DEF CheckServers, PC
<1>4. CASE CheckVolumes
    <2>1. errors' = {} => errors = {} /\ "volume" \notin inUse
        BY <1>4, FindsLemma DEF CheckVolumes
    <2>2. errors' = {} => inUse \cap {"server"} \subseteq late
        BY <1>4, <2>1 DEF CheckVolumes, PC
    <2>3. inUse \subseteq {"server", "volume"}
        BY DEF TypeOK, Blocker
    <2>4. UNCHANGED <<project, inUse, late>> /\ pc' = IF errors' = {} THEN "flavors" ELSE "idle"
        BY <1>4 DEF CheckVolumes
    <2> QED
        BY <2>1, <2>2, <2>3, <2>4 DEF PC
<1>5. CASE After
    BY <1>5, AfterLemma
<1>6. CASE DeleteProject
    BY <1>6 DEF DeleteProject, PC
<1>7. CASE Crash
    BY <1>7 DEF Crash
<1>8. ASSUME NEW b \in Blocker, Free(b) PROVE CheckInv'
    BY <1>8 DEF Free
<1>9. CASE UserActs
    <2>1. \/ UNCHANGED <<inUse, late>>
          \/ \E b \in Blocker : inUse' = inUse \cup {b} /\ late' = late \cup {b}
        BY <1>9 DEF UserActs, UserBoots, UserCreates, UserAttaches, UserRemoves, UserDetaches
    <2> QED
        BY <1>9, <2>1 DEF UserActs
<1> QED
    BY <1>1, <1>2, <1>3, <1>4, <1>5, <1>6, <1>7, <1>8, <1>9 DEF Next, Step, After

\* What a run past the safety check finds in use was created since the run
\* began, however many checks failed to answer before (resources/teardown.py,
\* safety_check).
THEOREM ChecksHold == Spec => []CheckInv
<1>1. Init => CheckInv
    BY DEF Init, CheckInv
<1> QED
    BY <1>1, CheckStep, TypeCorrect, PTL DEF Spec

\* The invariant that the run Teardown checks: types, and what the safety check
\* found (resources/teardown.py, safety_check).
THEOREM InvHolds == Spec => []Inv
BY TypeCorrect, ChecksHold, PTL DEF Inv

\* A project goes only when it has no server and no volume but those that users
\* created during the teardown.
THEOREM ProjectsAreEmpty == Spec => []DeletedProjectsAreEmpty
<1>1. CheckInv => DeletedProjectsAreEmpty
    BY DEF CheckInv, DeletedProjectsAreEmpty
<1> QED
    BY <1>1, ChecksHold, PTL

-----------------------------------------------------------------------------
(* What the project was given.                                             *)

\* Every step keeps the account of what was taken back, whatever fails and
\* whatever users do.
LEMMA AccessStep == TypeOK /\ NoDanglingAccess /\ [Next]_vars => NoDanglingAccess'
<1> SUFFICES ASSUME TypeOK, NoDanglingAccess, [Next]_vars PROVE NoDanglingAccess'
    OBVIOUS
<1> USE DEF NoDanglingAccess, cloudVars, runVars, history, PC
<1>1. CASE AlreadyAbsent \/ UNCHANGED vars
    BY <1>1 DEF AlreadyAbsent, vars
<1>2. CASE Start \/ CheckServers \/ CheckVolumes
    BY <1>2 DEF Start, CheckServers, CheckVolumes
<1>3. CASE RevokeFlavors
    BY <1>3 DEF RevokeFlavors, Revoke
<1>4. CASE RevokeRoles
    <2>1. access \ {"role"} = {}
        BY <1>4 DEF RevokeRoles, TypeOK, Access
    <2>2. UNCHANGED project /\ (access' = {} \/ (pc' = "idle" /\ UNCHANGED access))
        BY <1>4, <2>1 DEF RevokeRoles, Revoke
    <2> QED
        BY <1>4, <2>2
<1>5. CASE ListKind \/ KindDone \/ ClearGateway \/ DeleteRouter \/ DeleteProject
    BY <1>5 DEF ListKind, KindDone, ClearGateway, DeleteRouter, DeleteProject
<1>6. ASSUME NEW r \in Resource, DeleteResource(r) \/ ListPorts(r) PROVE NoDanglingAccess'
    BY <1>6 DEF DeleteResource, ListPorts
<1>7. ASSUME NEW s \in Subnet, Detach(s) PROVE NoDanglingAccess'
    BY <1>7 DEF Detach, LeaveRouter
<1>8. CASE Crash
    BY <1>8 DEF Crash
<1>9. ASSUME NEW b \in Blocker, Free(b) PROVE NoDanglingAccess'
    BY <1>9 DEF Free
<1>10. CASE UserActs
    BY <1>10 DEF UserActs
<1> QED
    BY <1>1, <1>2, <1>3, <1>4, <1>5, <1>6, <1>7, <1>8, <1>9, <1>10 DEF Next, Step

\* A deleted project leaves no tracked flavor access and no role assignment
\* behind, whatever fails (reconciler.py, _reconcile_absent: both are revoked,
\* or the run ends, before anything is deleted).
THEOREM AccessIsTakenBack == Spec => []NoDanglingAccess
<1>1. Init => NoDanglingAccess
    BY DEF Init, NoDanglingAccess
<1> QED
    BY <1>1, AccessStep, TypeCorrect, PTL DEF Spec

-----------------------------------------------------------------------------
(* What is reported.                                                       *)

\* A deletion reports only what is gone when it returns.
LEMMA DeleteReports ==
    ASSUME NEW r, Delete(r), DeletedMeansGone, UNCHANGED pulled
    PROVE  DeletedMeansGone'
BY DEF Delete, DeletedMeansGone

\* Every step keeps the reports true: an interface that is gone when its turn
\* comes went without the run's knowing.
LEMMA ReportStep ==
    ASSUME TypeOK, PrepareInv, DeletedMeansGone, [Next]_vars
    PROVE  PrepareInv' /\ DeletedMeansGone'
<1> USE DEF PrepareInv, cloudVars, runVars, history
<1>1. CASE AlreadyAbsent \/ UNCHANGED vars
    BY <1>1 DEF AlreadyAbsent, vars, DeletedMeansGone
<1>2. CASE Start \/ CheckServers \/ CheckVolumes \/ RevokeFlavors \/ RevokeRoles
    <2>1. UNCHANGED <<exists, attached, reported, pulled>> /\ pc' # "detach"
        BY <1>2 DEF Start, CheckServers, CheckVolumes, RevokeFlavors, RevokeRoles, Revoke
    <2>2. router' = {} \/ router' = router
        BY <1>2 DEF Start, CheckServers, CheckVolumes, RevokeFlavors, RevokeRoles
    <2> QED
        BY <2>1, <2>2 DEF DeletedMeansGone
<1>3. CASE ListKind \/ KindDone \/ DeleteProject \/ Crash
    <2>1. UNCHANGED <<exists, attached, reported, router, pulled>> /\ pc' # "detach"
        BY <1>3 DEF ListKind, KindDone, DeleteProject, Crash
    <2> QED
        BY <2>1 DEF DeletedMeansGone
<1>4. ASSUME NEW r \in Resource, DeleteResource(r) PROVE PrepareInv' /\ DeletedMeansGone'
    BY <1>4, DeleteReports DEF DeleteResource
<1>5. ASSUME NEW r \in Resource, ListPorts(r) PROVE PrepareInv' /\ DeletedMeansGone'
    BY <1>5 DEF ListPorts, Interfaces, DeletedMeansGone
<1>6. ASSUME NEW s \in Subnet, Detach(s) PROVE PrepareInv' /\ DeletedMeansGone'
    <2>1. PICK r \in router :
              \/ /\ attached' = attached \ {<<r, s>>}
                 /\ ports' = ports \ {s}
                 /\ UNCHANGED <<router, pc, reported, pulled>>
              \/ /\ pulled' = pulled \cup {r} /\ reported' = reported \cup router
                 /\ router' = {} /\ pc' = "delete"
              \/ /\ <<r, s>> \notin attached
                 /\ router' = {} /\ pc' = "delete" /\ reported' = reported \cup router
                 /\ UNCHANGED pulled
              \/ router' = {} /\ pc' = "delete" /\ UNCHANGED <<reported, pulled>>
        BY <1>6 DEF Detach, GiveUp, TakeGone, LeaveRouter
    <2>2. UNCHANGED exists /\ pc = "detach" /\ s \in ports /\ router = {r}
        BY <1>6 DEF Detach
    <2>3. <<r, s>> \notin attached => router \subseteq pulled
        BY <2>2
    <2> QED
        BY <2>1, <2>2, <2>3 DEF DeletedMeansGone
<1>7. CASE ClearGateway
    <2>1. UNCHANGED <<exists, attached, pulled>> /\ pc' # "detach" /\ (router' = router \/ router' = {})
        BY <1>7 DEF ClearGateway
    <2>2. \/ UNCHANGED reported
          \/ ~(router \subseteq exists) /\ reported' = reported \cup router
        BY <1>7 DEF ClearGateway, GiveUp, TakeGone
    <2>3. ~(router \subseteq exists) => router \cap exists = {}
        OBVIOUS
    <2> QED
        BY <2>1, <2>2, <2>3 DEF DeletedMeansGone
<1>8. CASE DeleteRouter
    BY <1>8, DeleteReports DEF DeleteRouter
<1>9. ASSUME NEW b \in Blocker, Free(b) PROVE PrepareInv' /\ DeletedMeansGone'
    BY <1>9 DEF Free, DeletedMeansGone
<1>10. CASE UserActs
    <2>1. UNCHANGED <<reported, router, ports, pc>> /\ reported \cap exists' \subseteq exists
        BY <1>10 DEF UserActs, UserBoots, UserCreates, UserAttaches, UserRemoves, UserDetaches
    <2>2. \/ attached \subseteq attached' /\ UNCHANGED pulled
          \/ \E i \in attached : attached' = attached \ {i} /\ pulled' = pulled \cup {i[1]}
        BY <1>10 DEF UserActs, UserBoots, UserCreates, UserAttaches, UserRemoves, UserDetaches
    <2>3. DeletedMeansGone'
        BY <2>1, <2>2 DEF DeletedMeansGone
    <2>4. PrepareInv'
        BY <2>1, <2>2
    <2> QED
        BY <2>3, <2>4
<1> QED
    BY <1>1, <1>2, <1>3, <1>4, <1>5, <1>6, <1>7, <1>8, <1>9, <1>10 DEF Next, Step

\* What a run reports deleted is gone, whatever calls fail and whatever users
\* do, but for a router that lost an interface without the run's knowing
\* (resources/teardown.py, _safe_delete).
THEOREM ReportsAreTrue == Spec => []DeletedMeansGone
<1>1. Init => PrepareInv /\ DeletedMeansGone
    BY DEF Init, PrepareInv, DeletedMeansGone
<1> QED
    BY <1>1, ReportStep, TypeCorrect, PTL DEF Spec

-----------------------------------------------------------------------------
(* The order of the kinds.                                                 *)

\* What a run still has before it, while nothing has failed in it and no
\* interface went without its knowing: past their turn no floating IP is left
\* but those it never listed, and once the routers had theirs no interface.
TurnInv ==
    /\ step > 1 => exists \cap Fip \subseteq unlisted
    /\ step > 3 => attached \subseteq unlisted
    /\ step = 1 /\ pc = "delete" => exists \cap Fip \subseteq todo \cup unlisted
    /\ step = 3 /\ pc \in {"delete", "router"} => attached \subseteq (todo \X Subnet) \cup unlisted
    /\ pc = "detach" => attached \subseteq (todo \X Subnet) \cup (router \X ports) \cup unlisted

Turn == {"list", "delete", "detach", "router"}

OrderInv ==
    /\ attached \subseteq (exists \cap Router) \X Subnet
    /\ pc \in {"servers", "volumes", "flavors", "roles"} => step = 1
    /\ pc \in {"delete", "detach", "router"} => todo \subseteq Steps[step]
    /\ pc \in {"detach", "router"} => router \cap todo = {} /\ step = 3
    /\ pc \in Turn /\ failures = {} /\ pulled = {} => TurnInv

\* What is not a router, a subnet or a network is removable, and so is a router
\* without interfaces; once there are none, everything is.
LEMMA KindsApart ==
    /\ Steps[1] = Fip /\ Steps[2] = Snapshot /\ Steps[3] = Router
    /\ Steps[4] = Subnet /\ Steps[5] = Network /\ Steps[6] = Group
    /\ \A i, j \in 1..6 : i # j => Steps[i] \cap Steps[j] = {}
    /\ Router \cap Fip = {} /\ Router \cap Snapshot = {} /\ Router \cap Subnet = {} /\ Router \cap Network = {}
<1>1. Steps[1] = Fip /\ Steps[2] = Snapshot /\ Steps[3] = Router /\ Steps[4] = Subnet /\ Steps[5] = Network
    /\ Steps[6] = Group
    BY DEF Steps
<1>2. \A i, j \in 1..6 : i # j => Steps[i] \cap Steps[j] = {}
    BY KindAssumption, StepsType
<1>3. Steps[3] \cap Steps[1] = {} /\ Steps[3] \cap Steps[2] = {} /\ Steps[3] \cap Steps[4] = {}
    /\ Steps[3] \cap Steps[5] = {}
    BY <1>2
<1> QED
    BY <1>1, <1>2, <1>3

\* While users add nothing behind the run, nothing whose turn it is is attached
\* any more.
LEMMA RemovableInTurn ==
    ASSUME TypeOK, OrderInv, TurnInv, unlisted = {}, pc = "delete", NEW r \in todo \ Router
    PROVE  Removable(r)
<1>1. step \in 1..6 /\ r \in Steps[step]
    BY StepsType DEF OrderInv, TypeOK
<1>2. CASE step > 3
    BY <1>2 DEF TurnInv, Removable
<1>3. CASE step <= 3
    <2>1. Steps[step] \cap Steps[4] = {} /\ Steps[step] \cap Steps[5] = {}
        BY <1>1, <1>3, KindsApart
    <2> QED
        BY <1>1, <2>1, KindsApart DEF Removable
<1> QED
    BY <1>1, <1>2, <1>3

\* The router that was prepared can go.
LEMMA RouterInTurn ==
    ASSUME TypeOK, OrderInv, TurnInv, unlisted = {}, pc = "router", NEW r \in router
    PROVE  Removable(r)
<1>1. r \in Router /\ r \notin todo /\ attached \subseteq todo \X Subnet
    BY DEF OrderInv, TurnInv, TypeOK
<1>2. r \notin Subnet /\ r \notin Network
    BY <1>1, KindsApart
<1> QED
    BY <1>1, <1>2 DEF Removable

\* Without servers nothing is in use, and what can be removed fails only with
\* its call.
LEMMA DeleteInTurn ==
    ASSUME TypeOK, NEW r, Delete(r)
    PROVE  /\ exists' \in {exists, exists \ {r}} /\ (r \in Router /\ exists' # exists => Removable(r))
           /\ failures \subseteq failures'
           /\ failures' = {} => exists' = exists \ {r}
           /\ Removable(r) /\ "server" \notin inUse /\ failures' # failures => events' < events
<1>1. CASE exists' = exists \ {r} /\ (r \notin exists \/ Removable(r)) /\ UNCHANGED failures
    <2>1. r \notin exists => exists \ {r} = exists
        OBVIOUS
    <2> QED
        BY <1>1, <2>1
<1>2. CASE (~Removable(r) \/ MayBeUsed(r)) /\ failures' = failures \cup {r} /\ UNCHANGED exists
    BY <1>2 DEF MayBeUsed
<1>3. CASE failures' = failures \cup {r} /\ UNCHANGED exists /\ events' = events - 1
    BY <1>3 DEF TypeOK
<1> QED
    BY <1>1, <1>2, <1>3 DEF Delete, Strikes

\* What users do behind the run is on the account of what it did not list.
Accounted ==
    /\ attached' \subseteq (exists' \cap Router) \X Subnet
    /\ pulled' = {} => /\ pulled = {} /\ unlisted \subseteq unlisted'
                       /\ exists' \subseteq exists \cup unlisted' /\ attached' \subseteq attached \cup unlisted'

\* Every step keeps the account of what is still before the run.
LEMMA OrderStep == TypeOK /\ PrepareInv /\ OrderInv /\ [Next]_vars => OrderInv'
<1> SUFFICES ASSUME TypeOK, PrepareInv, OrderInv, [Next]_vars PROVE OrderInv'
    OBVIOUS
<1> USE DEF OrderInv, Turn, cloudVars, runVars, history
<1> Resource \cap Interface = {} /\ unlisted \subseteq Resource \cup Interface /\ attached \subseteq Interface
    BY KindAssumption DEF TypeOK
<1>1. CASE AlreadyAbsent \/ UNCHANGED vars
    BY <1>1 DEF AlreadyAbsent, vars, TurnInv
<1>2. CASE Start \/ CheckServers \/ CheckVolumes
    <2>1. UNCHANGED <<exists, attached>> /\ pc' \notin Turn
        BY <1>2 DEF Start, CheckServers, CheckVolumes
    <2>2. pc' \in {"servers", "volumes", "flavors", "roles"} => step' = 1
        BY <1>2 DEF Start, CheckServers, CheckVolumes
    <2> QED
        BY <2>1, <2>2
<1>3. CASE RevokeFlavors \/ RevokeRoles
    <2>1. UNCHANGED <<exists, attached, runVars>> /\ step = 1 /\ pc' \in {"idle", "roles", "list"}
        BY <1>3 DEF RevokeFlavors, RevokeRoles, Revoke
    <2> QED
        BY <2>1 DEF TurnInv
<1>4. CASE ListKind
    <2>1. UNCHANGED <<exists, attached, step, router, ports, failures, pulled>> /\ pc = "list"
        BY <1>4 DEF ListKind
    <2>2. CASE pc' = "idle"
        BY <2>1, <2>2
    <2>3. CASE /\ todo' = exists \cap Steps[step] /\ pc' = "delete"
               /\ unlisted' = unlisted \ Steps[step] /\ step <= Len(Steps)
        <3>1. step \in 1..6 /\ Steps[step] \subseteq Resource
            BY <2>3, StepsType DEF TypeOK
        <3>2. step = 1 => todo' = exists \cap Fip
            BY <2>3, KindsApart
        <3>3. step > 1 /\ exists \cap Fip \subseteq unlisted => exists \cap Fip \subseteq unlisted'
            BY <2>3, <3>1, KindsApart
        <3>4. attached \subseteq unlisted => attached \subseteq unlisted'
            BY <2>3, <3>1
        <3>5. step = 3 => attached \subseteq todo' \X Subnet
            BY <2>3, KindsApart
        <3> QED
            BY <2>1, <2>3, <3>2, <3>3, <3>4, <3>5 DEF TurnInv
    <2> QED
        BY <1>4, <2>2, <2>3 DEF ListKind
<1>5. CASE KindDone
    <2>1. /\ UNCHANGED <<exists, attached, todo, router, ports, failures, pulled, unlisted>>
          /\ pc = "delete" /\ todo = {} /\ step' = step + 1 /\ pc' \in {"project", "list"} /\ step \in 1..6
        BY <1>5, StepsType DEF KindDone, TypeOK
    <2>2. CASE failures = {} /\ pulled = {}
        <3>1. exists \cap Fip \subseteq unlisted /\ (step >= 3 => attached \subseteq unlisted)
            BY <2>1, <2>2 DEF TurnInv
        <3> QED
            BY <2>1, <3>1 DEF TurnInv
    <2> QED
        BY <2>1, <2>2
<1>6. ASSUME NEW r \in Resource, DeleteResource(r) PROVE OrderInv'
    <2>1. /\ UNCHANGED <<attached, pc, step, router, pulled, unlisted>>
          /\ pc = "delete" /\ r \in todo \ Router /\ todo' = todo \ {r} /\ Delete(r)
        BY <1>6 DEF DeleteResource
    <2>2. /\ exists' \in {exists, exists \ {r}} /\ failures \subseteq failures'
          /\ failures' = {} => exists' = exists \ {r}
        BY <2>1, DeleteInTurn
    <2>3. attached' \subseteq (exists' \cap Router) \X Subnet
        BY <2>1, <2>2
    <2>4. CASE failures' = {} /\ pulled = {}
        <3>1. TurnInv /\ exists' = exists \ {r}
            BY <2>1, <2>2, <2>4
        <3>2. step = 3 => attached \subseteq (todo' \X Subnet) \cup unlisted
            BY <2>1, <3>1 DEF TurnInv, TypeOK, Interface
        <3> QED
            BY <2>1, <2>3, <3>1, <3>2 DEF TurnInv
    <2> QED
        BY <2>1, <2>3, <2>4
<1>7. ASSUME NEW r \in Resource, ListPorts(r) PROVE OrderInv'
    <2>1. /\ UNCHANGED <<exists, attached, step, pulled>>
          /\ pc = "delete" /\ r \in todo \cap Router /\ todo' = todo \ {r}
        BY <1>7 DEF ListPorts
    <2>2. step \in 1..6 /\ r \in Steps[step]
        BY <2>1, StepsType DEF TypeOK
    <2>3. step = 3
        BY <2>1, <2>2, KindsApart
    <2>4. CASE failures' # {} /\ pc' = "delete"
        BY <2>1, <2>4
    <2>5. CASE /\ router' = {r} /\ ports' = Interfaces(r) /\ pc' = "detach" /\ failures' = failures
               /\ unlisted' = unlisted \ ({r} \X Subnet)
        <3>1. attached \subseteq (todo \X Subnet) \cup unlisted
                  => attached \subseteq (todo' \X Subnet) \cup (router' \X ports') \cup unlisted'
            BY <2>1, <2>5 DEF Interfaces, Interface
        <3>2. exists \cap Fip \subseteq unlisted => exists \cap Fip \subseteq unlisted'
            <4>1. Fip \subseteq Resource /\ {r} \X Subnet \subseteq Interface
                BY <2>1 DEF Resource, Interface
            <4> QED
                BY <2>5, <4>1
        <3> QED
            BY <2>1, <2>3, <2>5, <3>1, <3>2 DEF TurnInv
    <2> QED
        BY <1>7, <2>4, <2>5 DEF ListPorts
<1>8. ASSUME NEW s \in Subnet, Detach(s) PROVE OrderInv'
    <2>1. UNCHANGED <<exists, step, todo, unlisted>> /\ pc = "detach" /\ s \in ports /\ step = 3
        BY <1>8 DEF Detach
    <2>2. PICK r \in router :
              \/ /\ attached' = attached \ {<<r, s>>} /\ ports' = ports \ {s}
                 /\ UNCHANGED <<router, pc, failures, pulled>>
              \/ attached' = attached \ {<<r, s>>} /\ pulled' = pulled \cup {r} /\ pc' = "delete"
              \/ <<r, s>> \notin attached /\ UNCHANGED <<attached, pulled>> /\ pc' = "delete"
              \/ failures' = failures \cup router /\ UNCHANGED attached /\ pc' = "delete"
        BY <1>8 DEF Detach, GiveUp, LeaveRouter
    <2>3. router = {r}
        BY DEF PrepareInv
    <2>4. CASE /\ attached' = attached \ {<<r, s>>} /\ ports' = ports \ {s}
               /\ UNCHANGED <<router, pc, failures, pulled>>
        <3>1. attached \subseteq (todo \X Subnet) \cup (router \X ports) \cup unlisted
                  => attached' \subseteq (todo \X Subnet) \cup (router \X ports') \cup unlisted
            BY <2>3, <2>4
        <3> QED
            BY <2>1, <2>4, <3>1 DEF TurnInv
    <2>5. CASE attached' = attached \ {<<r, s>>} /\ pulled' = pulled \cup {r} /\ pc' = "delete"
        BY <2>1, <2>5
    <2>6. CASE <<r, s>> \notin attached /\ UNCHANGED <<attached, pulled>> /\ pc' = "delete"
        <3>1. pulled # {}
            BY <2>1, <2>6 DEF PrepareInv
        <3> QED
            BY <2>1, <2>6, <3>1
    <2>7. CASE failures' = failures \cup router /\ UNCHANGED attached /\ pc' = "delete"
        BY <2>1, <2>3, <2>7
    <2> QED
        BY <2>2, <2>4, <2>5, <2>6, <2>7
<1>9. CASE ClearGateway
    <2>1. /\ UNCHANGED <<exists, attached, step, todo, ports, pulled, unlisted>> /\ failures \subseteq failures'
          /\ pc = "detach" /\ ports = {} /\ pc' \in {"router", "delete"} /\ router' \in {router, {}}
        BY <1>9 DEF ClearGateway, GiveUp, TakeGone
    <2>2. TurnInv => attached \subseteq (todo \X Subnet) \cup unlisted
        BY <2>1 DEF TurnInv
    <2> QED
        BY <2>1, <2>2 DEF TurnInv
<1>10. CASE DeleteRouter
    <2>1. /\ UNCHANGED <<attached, step, todo, ports, pulled, unlisted>>
          /\ pc = "router" /\ pc' = "delete" /\ router' = {} /\ step = 3
        BY <1>10 DEF DeleteRouter
    <2>2. PICK r \in router : Delete(r)
        BY <1>10 DEF DeleteRouter
    <2>3. exists' \in {exists, exists \ {r}} /\ (exists' # exists => Removable(r)) /\ failures \subseteq failures'
        BY <2>2, DeleteInTurn DEF TypeOK
    <2>4. attached' \subseteq (exists' \cap Router) \X Subnet
        BY <2>1, <2>3 DEF Removable, TypeOK
    <2> QED
        BY <2>1, <2>3, <2>4 DEF TurnInv
<1>11. CASE DeleteProject \/ Crash
    BY <1>11 DEF DeleteProject, Crash
<1>12. ASSUME NEW b \in Blocker, Free(b) PROVE OrderInv'
    BY <1>12 DEF Free, TurnInv
<1>13. CASE UserActs
    <2>1. UNCHANGED <<pc, step, todo, router, ports, failures>>
        BY <1>13 DEF UserActs
    <2>2. Accounted
        <3>1. CASE UserBoots
            BY <3>1 DEF UserBoots, Accounted
        <3>2. ASSUME NEW r \in Resource, UserCreates(r) \/ UserRemoves(r) PROVE Accounted
            BY <3>2 DEF UserCreates, UserRemoves, Removable, TypeOK, Interface,
                        Accounted
        <3>3. ASSUME NEW i \in Interface, UserAttaches(i) \/ UserDetaches(i) PROVE Accounted
            BY <3>3 DEF UserAttaches, UserDetaches, Interface, Accounted
        <3> QED
            BY <1>13, <3>1, <3>2, <3>3 DEF UserActs
    <2> QED
        BY <2>1, <2>2 DEF TurnInv, Accounted
<1> QED
    BY <1>1, <1>2, <1>3, <1>4, <1>5, <1>6, <1>7, <1>8, <1>9, <1>10, <1>11, <1>12, <1>13 DEF Next, Step

\* Which resource a step fails to delete while nobody steps in: one whose call
\* fails.
LEMMA RefusalStep ==
    ASSUME TypeOK, CheckInv, PrepareInv, OrderInv, Next, failures = {}, failures' # {},
           pulled = {}, unlisted = {}, "server" \notin late
    PROVE  events' < events
<1> USE DEF cloudVars, runVars, history
<1>1. pc \in Turn => TurnInv /\ "server" \notin inUse
    BY DEF OrderInv, CheckInv, Turn, PC
<1>2. ASSUME NEW r \in Resource, DeleteResource(r) PROVE events' < events
    BY <1>1, <1>2, RemovableInTurn, DeleteInTurn DEF DeleteResource, Turn
<1>3. ASSUME NEW r \in Resource, ListPorts(r) PROVE events' < events
    BY <1>3 DEF ListPorts, Strikes, TypeOK
<1>4. pc = "detach" => ~MayRoute
    BY <1>1 DEF OrderInv, TurnInv, Turn, MayRoute
<1>5. ASSUME NEW s \in Subnet, Detach(s) PROVE events' < events
    BY <1>4, <1>5 DEF Detach, TakeGone, Strikes, TypeOK
<1>6. CASE ClearGateway
    BY <1>4, <1>6 DEF ClearGateway, TakeGone, Strikes, TypeOK
<1>7. CASE DeleteRouter
    <2>1. PICK r \in router : Delete(r)
        BY <1>7 DEF DeleteRouter
    <2>2. Removable(r)
        BY <1>1, <1>7, RouterInTurn DEF DeleteRouter, Turn
    <2>3. "server" \notin inUse
        BY <1>1, <1>7 DEF DeleteRouter, Turn
    <2> QED
        BY <2>1, <2>2, <2>3, DeleteInTurn
<1>8. UNCHANGED failures \/ failures' = {}
      \/ (\E r \in Resource : DeleteResource(r) \/ ListPorts(r)) \/ (\E s \in Subnet : Detach(s))
      \/ ClearGateway \/ DeleteRouter
    BY DEF Next, Step, AlreadyAbsent, vars, Start, CheckServers, CheckVolumes, RevokeFlavors, RevokeRoles,
           ListKind, KindDone, DeleteProject, Crash, Free, UserActs
<1> QED
    BY <1>2, <1>3, <1>5, <1>6, <1>7, <1>8

\* The order in which the kinds are deleted meets no refusal, for any number of
\* resources of each kind, whatever calls fail, wherever runs die and whatever
\* users remove or create before its kind is listed: what fails first in a run
\* is a call.  It speaks of runs in which no server is booted after the run
\* began, nothing is created behind the listing of its kind, and no interface
\* goes unnoticed (resources/teardown.py, _TEARDOWN_STEPS).
THEOREM OrderIsRight == Spec => OrderNeverRefused
<1>1. Init => PrepareInv /\ OrderInv
    <2> SUFFICES ASSUME Init PROVE PrepareInv /\ OrderInv
        OBVIOUS
    <2>1. attached \subseteq (exists \cap Router) \X Subnet
        BY DEF Init, Interface
    <2> QED
        BY <2>1 DEF Init, PrepareInv, OrderInv, Turn
<1>2. TypeOK /\ CheckInv /\ PrepareInv /\ OrderInv /\ DeletedMeansGone /\ [Next]_vars
        => [failures = {} /\ failures' # {} =>
                events' < events \/ "server" \in late \/ unlisted # {} \/ pulled # {}]_vars
    BY RefusalStep DEF vars
<1>3. TypeOK /\ PrepareInv /\ OrderInv /\ DeletedMeansGone /\ [Next]_vars
        => PrepareInv' /\ OrderInv' /\ DeletedMeansGone'
    BY OrderStep, ReportStep
<1>4. Init => DeletedMeansGone
    BY DEF Init, DeletedMeansGone
<1> QED
    BY <1>1, <1>2, <1>3, <1>4, TypeCorrect, ChecksHold, PTL DEF Spec, OrderNeverRefused

=============================================================================
