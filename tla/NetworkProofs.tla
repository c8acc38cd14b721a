----------------------------- MODULE NetworkProofs -----------------------------
(***************************************************************************)
(* Proofs about Network, for every number of routers and addresses.        *)
(***************************************************************************)
EXTENDS Network, TLAPS

USE NoneAssumption, SwitchAssumption, FaultsAssumption, MaxEventsAssumption

\* A run that reclaims has an address to reclaim: without it the released
\* list would be given an entry that is no address.
ReclaimInv == pc \in {"reclaim", "refused"} => cfg.previous \in Address

TypeInv == TypeOK /\ ReclaimInv

-----------------------------------------------------------------------------
(* Types.                                                                  *)

\* A new router has an address and an id; at most one event is used up.
LEMMA NewRouterType ==
    ASSUME TypeInv, ReclaimRouter \/ CreateRouter
    PROVE  /\ status' \in [Router -> {"new", "up", "gone"}]
           /\ named' \subseteq Router
           /\ ip' \in [Router -> Address \cup {None}]
           /\ made' \in Router \cup {None}
           /\ events' \in 0..MaxEvents
<1>1. CASE ReclaimRouter
    <2>1. PICK r \in Router :
              /\ AddRouter(r, cfg.previous) /\ named' = named \cup {r}
              /\ \/ made' = r /\ UNCHANGED events
                 \/ events > 0 /\ events' = events - 1 /\ UNCHANGED made
        BY <1>1 DEF ReclaimRouter, NamedRouter, Echo
    <2> QED
        BY <2>1 DEF TypeInv, TypeOK, AddRouter, Unused
<1>2. CASE CreateRouter
    <2>1. PICK r \in Router, a \in Unused :
            \/ AddRouter(r, a) /\ named' = named \cup {r} /\ made' = r /\ UNCHANGED events
            \/ /\ events > 0 /\ events' = events - 1
               /\ \E s \in Router \ {r}, b \in Unused \ {a} :
                    /\ status' = [status EXCEPT ![r] = "up", ![s] = "up"]
                    /\ ip' = [ip EXCEPT ![r] = a, ![s] = b]
                    /\ named' = named \cup {r, s}
                    /\ made' = s
        BY <1>2 DEF CreateRouter, NamedRouter, Echo
    <2> QED
        BY <2>1 DEF TypeInv, TypeOK, AddRouter, Unused
<1> QED
    BY <1>1, <1>2

\* The initial state has the types declared for it.
LEMMA InitType == Init => TypeInv
<1> SUFFICES ASSUME Init PROVE TypeInv
    OBVIOUS
<1>1. events \in 0..MaxEvents
    BY DEF Init
<1>2. status \in [Router -> {"new", "up", "gone"}] /\ ip \in [Router -> Address \cup {None}]
    BY DEF Init
<1>3. cfg \in Config
    BY DEF Init, Config
<1> QED
    BY <1>1, <1>2, <1>3 DEF Init, TypeInv, TypeOK, ReclaimInv, PC, Rest

\* The steps that create a stack keep the types.
LEMMA StackType ==
    ASSUME TypeInv,
           FindNetwork \/ OtherNetworks \/ CreateNetwork \/ CreateSubnet \/ ReclaimRouter
             \/ AddressTaken \/ PersistRefused \/ CreateRouter \/ Attach
    PROVE  TypeInv'
<1> USE DEF TypeInv, TypeOK, ReclaimInv, cloudVars, stackVars, routerVars, fileVars, runVars, history
<1>1. CASE FindNetwork
    BY <1>1 DEF FindNetwork, Onwards, PC, Rest
<1>2. CASE OtherNetworks
    BY <1>2 DEF OtherNetworks, Onwards, PC, Rest
<1>3. CASE CreateNetwork
    <2>1. UNCHANGED events \/ (events > 0 /\ events' = events - 1)
        BY <1>3, Zenon DEF CreateNetwork, Echo
    <2>2. events' \in 0..MaxEvents
        BY <2>1
    <2>3. twin' \in BOOLEAN
        BY <1>3, Zenon DEF CreateNetwork
    <2> QED
        BY <1>3, <2>2, <2>3 DEF CreateNetwork, PC
<1>4. CASE CreateSubnet
    BY <1>4 DEF CreateSubnet, Config, PC
<1>5. CASE ReclaimRouter
    BY <1>5, NewRouterType DEF ReclaimRouter, PC
<1>6. CASE AddressTaken
    BY <1>6 DEF AddressTaken, PC
<1>7. CASE PersistRefused
    BY <1>7 DEF PersistRefused, Config, PC
<1>8. CASE CreateRouter
    BY <1>8, NewRouterType DEF CreateRouter, PC
<1>9. CASE Attach
    BY <1>9 DEF Attach, Onwards, Up, PC, Rest
<1> QED
    BY <1>1, <1>2, <1>3, <1>4, <1>5, <1>6, <1>7, <1>8, <1>9

\* The other steps of a run keep the types.
LEMMA TrackType ==
    ASSUME TypeInv,
           Load \/ ListRouters \/ PersistSnapshot \/ PersistReleased \/ PreallocNetwork \/ Raise
    PROVE  TypeInv'
<1> USE DEF TypeInv, TypeOK, ReclaimInv, cloudVars, stackVars, routerVars, fileVars, runVars, history
<1>1. CASE Load
    <2>1. PreviousIp \subseteq Address \cup {None}
        BY DEF PreviousIp, Entry
    <2>2. PICK p \in PreviousIp :
              cfg' = [tracked |-> tracked, released |-> released, previous |-> p]
        BY <1>1 DEF Load
    <2>3. cfg' \in Config
        BY <2>1, <2>2 DEF Config
    <2> QED
        BY <1>1, <2>3 DEF Load, PC, Rest
<1>2. CASE ListRouters
    BY <1>2 DEF ListRouters, Listing, PC
<1>3. CASE PersistSnapshot
    <2>1. tracked' \subseteq Entry
        BY <1>3 DEF PersistSnapshot
    <2>2. Addresses(tracked') \subseteq Address
        BY <2>1 DEF Addresses, Entry
    <2> QED
        BY <1>3, <2>1, <2>2 DEF PersistSnapshot, PC
<1>4. CASE PersistReleased
    <2>1. AllReleased \subseteq Address
        BY DEF AllReleased, NewReleases, Addresses, Config, Entry
    <2> QED
        BY <1>4, <2>1 DEF PersistReleased, PC, Rest
<1>5. CASE PreallocNetwork
    BY <1>5 DEF PreallocNetwork, PC, Rest
<1>6. CASE Raise
    BY <1>6 DEF Raise, PC, Rest
<1> QED
    BY <1>1, <1>2, <1>3, <1>4, <1>5, <1>6

\* The world outside keeps the types.
LEMMA WorldType == TypeInv /\ World => TypeInv'
<1> SUFFICES ASSUME TypeInv, World PROVE TypeInv'
    OBVIOUS
<1> USE DEF TypeInv, TypeOK, ReclaimInv, cloudVars, stackVars, routerVars, fileVars, runVars, history
<1>1. events' \in 0..MaxEvents
    BY DEF World
<1>2. CASE WipeStack \/ DropNetwork \/ ToggleNetwork
    BY <1>1, <1>2 DEF World, WipeStack, DropNetwork, ToggleNetwork
<1>3. CASE \E r \in Router : UserRouter(r)
    BY <1>1, <1>3 DEF World, UserRouter, AddRouter, Up, Unused
<1>4. CASE \E a \in Address : Others(a)
    BY <1>1, <1>4 DEF World, Others, Unused
<1> QED
    BY <1>2, <1>3, <1>4 DEF World

\* Every step keeps the types.
LEMMA NextType == TypeInv /\ [Next]_vars => TypeInv'
<1> SUFFICES ASSUME TypeInv, [Next]_vars PROVE TypeInv'
    OBVIOUS
<1>1. CASE UNCHANGED vars
    BY <1>1 DEF TypeInv, TypeOK, ReclaimInv, vars, cloudVars, stackVars, routerVars, fileVars, runVars, history
<1> QED
    BY <1>1, StackType, TrackType, WorldType DEF Next, Step

\* Every value stays in the set declared for it: in particular the released
\* list only ever holds addresses (ensure_network_stack, track_router_ips).
THEOREM TypeCorrect == Spec => []TypeOK
<1>1. Spec => []TypeInv
    BY InitType, NextType, PTL DEF Spec
<1> QED
    BY <1>1, PTL DEF TypeInv

-----------------------------------------------------------------------------
(* The two lists.  A run that reclaims writes the released list of the run *)
(* a second time, from the copy it loaded, when it finds after the audit   *)
(* that its stack has gone meanwhile: that would undo the audit.  So       *)
(* either nothing is reclaimed or the world keeps still during a run.      *)

Undisturbed == ~Reclaim \/ "midrun" \notin Faults

\* While a run has written neither list in full: it has at most added the
\* address it was refused.
Unwritten == {"find", "others", "network", "subnet", "reclaim", "refused", "router", "attach", "list",
              "snapshot"}

Recorded == cfg.released \subseteq released /\ released \subseteq cfg.released \cup {cfg.previous}

Disjoint == Addresses(tracked) \cap released \subseteq {cfg.previous}

ListsInv ==
    /\ cfg.previous # None => Reclaim /\ cfg.previous \in Addresses(cfg.tracked)
    /\ pc \in Unwritten /\ ~again => tracked = cfg.tracked /\ Recorded
    /\ pc \in {"list", "snapshot", "audit"} => ~again
    /\ pc = "audit" => tracked = listed /\ Recorded
    /\ pc \in {"prealloc", "done"} => Disjoint
    /\ pc \in Unwritten /\ again => Disjoint

\* Where addresses are reclaimed, the stack is not created again: after the
\* first look the project owns a network until the run ends.
OnceInv ==
    Reclaim => /\ ~again
               /\ pc \in {"list", "snapshot", "audit", "prealloc"} => stack # "none" \/ other

\* The released list is written when it must be: what it holds then has
\* nothing that is active, whether it was written or not, but for the address
\* that was refused.
LEMMA AuditDisjoint ==
    ASSUME Recorded
    PROVE  AllReleased \cap Active \subseteq {cfg.previous}
BY DEF AllReleased, ReleasedChanged, Recorded

\* The world keeps still during a run that reclaims.
LEMMA WorldRests ==
    ASSUME Undisturbed, Reclaim, World
    PROVE  pc' = pc /\ pc \in Rest
BY DEF Undisturbed, World

\* Every step keeps what a run that reclaims relies on.
LEMMA OnceStep ==
    ASSUME Undisturbed, TypeInv, OnceInv, [Next]_vars
    PROVE  OnceInv'
<1> SUFFICES ASSUME Reclaim
             PROVE  /\ ~again'
                    /\ pc' \in {"list", "snapshot", "audit", "prealloc"} => stack' # "none" \/ other'
    BY DEF OnceInv
<1> USE DEF OnceInv, cloudVars, stackVars, routerVars, fileVars, runVars, history
<1>1. CASE Load
    BY <1>1 DEF Load
<1>2. CASE FindNetwork
    <2>1. UNCHANGED <<stack, other, again>> /\ (pc' = "list" => stack # "none") /\ pc' \in {"list", "others"}
        BY <1>2 DEF FindNetwork, Onwards
    <2> QED
        BY <2>1
<1>3. CASE OtherNetworks
    <2>1. UNCHANGED <<stack, other, again>> /\ pc' = IF other \/ stack # "none" THEN Onwards ELSE "network"
        BY <1>3 DEF OtherNetworks
    <2> QED
        BY <2>1, Zenon DEF Onwards
<1>4. CASE CreateNetwork \/ CreateSubnet \/ ReclaimRouter \/ AddressTaken \/ PersistRefused \/ CreateRouter
    BY <1>4 DEF CreateNetwork, CreateSubnet, ReclaimRouter, AddressTaken, PersistRefused, CreateRouter
<1>5. CASE Attach
    BY <1>5 DEF Attach, Onwards
<1>6. CASE ListRouters \/ PersistSnapshot
    BY <1>6 DEF ListRouters, PersistSnapshot
<1>7. CASE PersistReleased
    BY <1>7 DEF PersistReleased
<1>8. CASE PreallocNetwork
    <2>1. pc' = "done" /\ again' = again
        BY <1>8, Zenon DEF PreallocNetwork
    <2> QED
        BY <2>1
<1>9. CASE Raise
    BY <1>9 DEF Raise
<1>10. CASE World
    BY <1>10, WorldRests DEF World, Rest
<1>11. CASE UNCHANGED vars
    BY <1>11 DEF vars
<1> QED
    BY <1>1, <1>2, <1>3, <1>4, <1>5, <1>6, <1>7, <1>8, <1>9, <1>10, <1>11 DEF Next, Step

\* Every step keeps the relation of file and copies.
LEMMA ListsStep ==
    ASSUME TypeInv, OnceInv, ListsInv, [Next]_vars
    PROVE  ListsInv'
<1> USE DEF ListsInv, Unwritten, Recorded, Disjoint, cloudVars, stackVars, routerVars, fileVars, runVars, history
<1>1. CASE Load
    <2>1. PICK p \in PreviousIp : cfg' = [tracked |-> tracked, released |-> released, previous |-> p]
        BY <1>1 DEF Load
    <2>2. p # None => Reclaim /\ p \in Addresses(tracked)
        BY <2>1 DEF PreviousIp, Addresses
    <2>3. UNCHANGED <<tracked, released>> /\ ~again' /\ pc' = "find"
        BY <1>1 DEF Load
    <2> QED
        BY <2>1, <2>2, <2>3 DEF Addresses
<1>2. CASE FindNetwork
    BY <1>2 DEF FindNetwork, Onwards, Addresses
<1>3. CASE OtherNetworks
    BY <1>3 DEF OtherNetworks, Onwards, Addresses
<1>4. CASE CreateNetwork
    BY <1>4 DEF CreateNetwork, Addresses
<1>5. CASE CreateSubnet
    BY <1>5 DEF CreateSubnet, Addresses
<1>6. CASE ReclaimRouter \/ AddressTaken
    BY <1>6 DEF ReclaimRouter, AddressTaken, Addresses
<1>7. CASE PersistRefused
    <2>1. ~again
        BY <1>7 DEF PersistRefused, TypeInv, ReclaimInv, OnceInv
    <2>2. UNCHANGED <<tracked, cfg, again>> /\ released' = cfg.released \cup {cfg.previous} /\ pc' = "router"
        BY <1>7 DEF PersistRefused
    <2> QED
        BY <1>7, <2>1, <2>2 DEF PersistRefused
<1>8. CASE CreateRouter
    BY <1>8 DEF CreateRouter, Addresses
<1>9. CASE Attach
    BY <1>9 DEF Attach, Onwards, Addresses
<1>10. CASE ListRouters
    BY <1>10 DEF ListRouters
<1>11. CASE PersistSnapshot
    BY <1>11 DEF PersistSnapshot
<1>12. CASE PersistReleased
    <2>1. released' \cap Active \subseteq {cfg.previous}
        BY <1>12, AuditDisjoint DEF PersistReleased
    <2>2. tracked' = listed
        BY <1>12 DEF PersistReleased
    <2> QED
        BY <1>12, <2>1, <2>2 DEF PersistReleased, Active
<1>13. CASE PreallocNetwork
    BY <1>13 DEF PreallocNetwork, Addresses
<1>14. CASE Raise
    BY <1>14 DEF Raise
<1>15. CASE World
    BY <1>15 DEF World, Addresses
<1>16. CASE UNCHANGED vars
    BY <1>16 DEF vars, Addresses
<1> QED
    BY <1>1, <1>2, <1>3, <1>4, <1>5, <1>6, <1>7, <1>8, <1>9, <1>10, <1>11, <1>12, <1>13,
       <1>14, <1>15, <1>16 DEF Next, Step

\* Both hold.
LEMMA ListsHold ==
    ASSUME Undisturbed
    PROVE  Spec => [](TypeInv /\ OnceInv /\ ListsInv)
<1>1. Init => OnceInv /\ ListsInv
    BY DEF Init, OnceInv, ListsInv, Unwritten
<1>2. TypeInv /\ OnceInv /\ ListsInv /\ [Next]_vars => OnceInv' /\ ListsInv'
    BY OnceStep, ListsStep
<1> QED
    BY <1>1, <1>2, InitType, NextType, PTL DEF Spec

\* A run that ends leaves no address on both lists but the one it was refused,
\* whatever failed or crashed before it; where nothing is reclaimed also
\* whatever users do during it (track_router_ips).
THEOREM ActiveIsNotReleased ==
    ASSUME ~Reclaim \/ "midrun" \notin Faults
    PROVE  Spec => []ActiveNotReleased
<1>1. ListsInv => ActiveNotReleased
    BY DEF ListsInv, Disjoint, ActiveNotReleased
<1>2. Undisturbed
    BY DEF Undisturbed
<1> QED
    BY <1>1, <1>2, ListsHold, PTL

-----------------------------------------------------------------------------
(* The history.                                                            *)

\* What router_ips ever named is accounted for at every point of a run by the
\* file, but between the two writes: there by the loaded copies and what was
\* listed.
HistoryInv ==
    /\ pc # "audit" => seen \subseteq Addresses(tracked) \cup released
    /\ pc = "audit" =>
           seen \subseteq Addresses(cfg.tracked) \cup cfg.released \cup Addresses(listed)

\* Writing the second list loses nothing: what is neither loaded as released
\* nor active any more is a new release.
LEMMA AuditComplete ==
    ASSUME Recorded
    PROVE  Addresses(cfg.tracked) \cup cfg.released \cup Addresses(listed)
               \subseteq Addresses(listed) \cup AllReleased
<1>1. Addresses(cfg.tracked) \subseteq Addresses(listed) \cup NewReleases
    BY DEF Addresses, NewReleases
<1> QED
    BY <1>1 DEF AllReleased, ReleasedChanged, Active, Recorded

\* Every step keeps the account.
LEMMA HistoryStep ==
    ASSUME TypeInv, OnceInv, ListsInv, HistoryInv, [Next]_vars
    PROVE  HistoryInv'
<1> USE DEF HistoryInv, ListsInv, Unwritten, cloudVars, stackVars, routerVars, fileVars, runVars, history
<1>1. CASE Load
    BY <1>1 DEF Load, Rest, Addresses
<1>2. CASE FindNetwork \/ OtherNetworks
    BY <1>2 DEF FindNetwork, OtherNetworks, Onwards, Addresses
<1>3. CASE CreateNetwork \/ CreateSubnet
    BY <1>3 DEF CreateNetwork, CreateSubnet, Addresses
<1>4. CASE ReclaimRouter \/ AddressTaken
    BY <1>4 DEF ReclaimRouter, AddressTaken, Addresses
<1>5. CASE PersistRefused
    <2>1. ~again
        BY <1>5 DEF PersistRefused, TypeInv, ReclaimInv, OnceInv
    <2>2. UNCHANGED <<tracked, seen>> /\ released \subseteq released' /\ pc' = "router"
        BY <1>5, <2>1 DEF PersistRefused, Recorded
    <2> QED
        BY <1>5, <2>2 DEF PersistRefused, Addresses
<1>6. CASE CreateRouter \/ Attach
    BY <1>6 DEF CreateRouter, Attach, Onwards, Addresses
<1>7. CASE ListRouters
    BY <1>7 DEF ListRouters, Addresses
<1>8. CASE PersistSnapshot
    <2>1. seen' = seen \cup Addresses(listed) /\ UNCHANGED <<cfg, listed>>
        BY <1>8 DEF PersistSnapshot
    <2>2. seen \subseteq Addresses(cfg.tracked) \cup cfg.released \cup {cfg.previous}
        BY <1>8 DEF PersistSnapshot, Recorded
    <2>3. seen \subseteq Address
        BY DEF TypeInv, TypeOK
    <2>4. seen \subseteq Addresses(cfg.tracked) \cup cfg.released
        BY <2>2, <2>3
    <2>5. pc' = "audit"
        BY <1>8 DEF PersistSnapshot
    <2> QED
        BY <2>1, <2>4, <2>5 DEF Addresses
<1>9. CASE PersistReleased
    <2>1. released' = AllReleased /\ tracked' = listed /\ seen' = seen
        BY <1>9 DEF PersistReleased
    <2>2. seen \subseteq Addresses(listed) \cup AllReleased
        BY <1>9, AuditComplete DEF PersistReleased
    <2> QED
        BY <1>9, <2>1, <2>2 DEF PersistReleased
<1>10. CASE PreallocNetwork
    BY <1>10 DEF PreallocNetwork, Addresses
<1>11. CASE Raise
    <2>1. pc = "audit" => seen' \subseteq Addresses(tracked) \cup released
        BY <1>11 DEF Raise
    <2>2. pc # "audit" => seen' = seen
        BY <1>11 DEF Raise
    <2>3. UNCHANGED <<tracked, released>> /\ pc' = "idle"
        BY <1>11 DEF Raise
    <2> QED
        BY <2>1, <2>2, <2>3 DEF Addresses
<1>12. CASE World
    BY <1>12 DEF World, Addresses
<1>13. CASE UNCHANGED vars
    BY <1>13 DEF vars, Addresses
<1> QED
    BY <1>1, <1>2, <1>3, <1>4, <1>5, <1>6, <1>7, <1>8, <1>9, <1>10, <1>11, <1>12, <1>13 DEF Next, Step

\* No address that router_ips ever named drops out of both lists, but for what
\* a run drops that fails between its two writes (track_router_ips), under the
\* same condition.
THEOREM HistoryHasNoGap ==
    ASSUME ~Reclaim \/ "midrun" \notin Faults
    PROVE  Spec => []NothingForgotten
<1>1. Init => HistoryInv
    BY DEF Init, HistoryInv
<1>2. TypeInv /\ OnceInv /\ ListsInv /\ HistoryInv /\ [Next]_vars => HistoryInv'
    BY HistoryStep
<1>3. HistoryInv => NothingForgotten
    BY DEF HistoryInv, NothingForgotten, Rest
<1>4. Undisturbed
    BY DEF Undisturbed
<1> QED
    BY <1>1, <1>2, <1>3, <1>4, ListsHold, PTL DEF Spec

-----------------------------------------------------------------------------
(* The audited list.                                                       *)

\* What the second save leaves on the released list: the tail write of the
\* abstract list, and what the run has noted if it is active and nothing else
\* made the run write the list.
LEMMA AuditRetires ==
    ASSUME TypeInv, ListsInv, pc = "audit"
    PROVE  \E kept \in SUBSET (released \ cfg.released) :
               AllReleased = ((released \cup (NewReleases \ Active)) \ Active) \cup kept
<1>1. Recorded /\ (cfg.previous # None => cfg.previous \in Addresses(cfg.tracked))
    BY DEF ListsInv
<1>2. Addresses(cfg.tracked) \subseteq NewReleases \cup Active
    BY DEF Addresses, NewReleases, Active
<1>3. released \subseteq cfg.released \cup NewReleases \cup Active
    BY <1>1, <1>2 DEF Recorded, TypeInv, TypeOK
<1>4. CASE ReleasedChanged
    <2>1. AllReleased = ((released \cup (NewReleases \ Active)) \ Active) \cup {}
        BY <1>1, <1>3, <1>4 DEF AllReleased, Recorded
    <2> QED
        BY <2>1
<1>5. CASE ~ReleasedChanged
    <2>1. released \cap Active \subseteq released \ cfg.released
        BY <1>5 DEF ReleasedChanged
    <2>2. AllReleased = ((released \cup (NewReleases \ Active)) \ Active) \cup (released \cap Active)
        BY <1>5 DEF AllReleased, ReleasedChanged
    <2> QED
        BY <2>1, <2>2
<1> QED
    BY <1>4, <1>5

\* A step that writes neither list and ends no run early is none of the audited
\* list's: in particular a new copy is the list itself.
LEMMA OtherStepsStutter ==
    ASSUME TypeInv, OnceInv, ListsInv, [Next]_vars,
           ~PersistRefused, ~PersistSnapshot, ~PersistReleased, ~Raise
    PROVE  UNCHANGED Lists!vars
<1> USE DEF cloudVars, fileVars, runVars, history, Addresses, NewReleases, Active, Underway, Rest, Lists!vars
<1>1. CASE Load
    <2>1. cfg'.released = released /\ UNCHANGED <<tracked, released>> /\ pc \in Rest /\ pc' = "find"
        BY <1>1 DEF Load
    <2> QED
        BY <2>1
<1>2. CASE FindNetwork
    <2>1. UNCHANGED <<tracked, released, cfg, again, listed>> /\ pc = "find"
        BY <1>2 DEF FindNetwork
    <2>2. again \/ pc' \in {"list", "others"}
        BY <1>2 DEF FindNetwork, Onwards
    <2>3. pc' \in {"done", "list", "others"}
        BY <1>2 DEF FindNetwork, Onwards
    <2> QED
        BY <2>1, <2>2, <2>3
<1>3. CASE OtherNetworks
    <2>1. UNCHANGED <<tracked, released, cfg, again, listed>> /\ pc = "others"
        BY <1>3 DEF OtherNetworks
    <2>2. pc' = Onwards \/ pc' = "network"
        BY <1>3, Zenon DEF OtherNetworks
    <2>3. (again \/ pc' \in {"list", "network"}) /\ pc' \in {"done", "list", "network"}
        BY <2>2 DEF Onwards
    <2> QED
        BY <2>1, <2>3
<1>4. CASE CreateNetwork \/ CreateSubnet
    <2>1. UNCHANGED <<tracked, released, cfg, again, listed>> /\ pc \in {"network", "subnet"}
        BY <1>4 DEF CreateNetwork, CreateSubnet
    <2>2. pc' \in {"subnet", "reclaim", "router"}
        BY <1>4 DEF CreateNetwork, CreateSubnet
    <2> QED
        BY <2>1, <2>2
<1>5. CASE ReclaimRouter \/ AddressTaken \/ CreateRouter
    <2>1. UNCHANGED <<tracked, released, cfg, again, listed>> /\ pc \in {"reclaim", "router"}
        BY <1>5 DEF ReclaimRouter, AddressTaken, CreateRouter
    <2>2. pc' \in {"attach", "refused"}
        BY <1>5 DEF ReclaimRouter, AddressTaken, CreateRouter
    <2> QED
        BY <2>1, <2>2
<1>6. CASE Attach
    <2>1. UNCHANGED <<tracked, released, cfg, again, listed>> /\ pc = "attach"
        BY <1>6 DEF Attach
    <2>2. (again \/ pc' = "list") /\ pc' \in {"done", "list"}
        BY <1>6 DEF Attach, Onwards
    <2> QED
        BY <2>1, <2>2
<1>7. CASE ListRouters
    <2>1. UNCHANGED <<tracked, released, cfg, again>> /\ pc = "list" /\ pc' = "snapshot"
        BY <1>7 DEF ListRouters
    <2> QED
        BY <2>1
<1>8. CASE PreallocNetwork
    <2>1. UNCHANGED <<tracked, released, cfg, listed>> /\ pc = "prealloc"
        BY <1>8 DEF PreallocNetwork
    <2>2. pc' = "done" \/ (pc' = "find" /\ again')
        BY <1>8, Zenon DEF PreallocNetwork
    <2> QED
        BY <2>1, <2>2
<1>9. CASE World \/ UNCHANGED vars
    <2>1. UNCHANGED <<tracked, released, pc, cfg, again, listed>>
        BY <1>9 DEF World, vars
    <2> QED
        BY <2>1
<1> QED
    BY <1>1, <1>2, <1>3, <1>4, <1>5, <1>6, <1>7, <1>8, <1>9 DEF Next, Step

\* A step is a step of the audited list, or touches neither list.
LEMMA StepMaps ==
    ASSUME TypeInv, OnceInv, ListsInv, [Next]_vars
    PROVE  [Lists!Next]_(Lists!vars)
<1>1. CASE PersistRefused
    <2>1. /\ pc = "refused" /\ pc' = "router" /\ ~again /\ ~again'
          /\ released' = cfg.released \cup {cfg.previous}
          /\ UNCHANGED <<tracked, cfg, listed>>
        BY <1>1 DEF PersistRefused, runVars, TypeInv, ReclaimInv, OnceInv, ListsInv
    <2>2. tracked = cfg.tracked /\ Recorded /\ cfg.previous \in Addresses(cfg.tracked)
          /\ cfg.previous \in Address
        BY <2>1 DEF ListsInv, Unwritten, TypeInv, ReclaimInv
    <2>3. Underway /\ Underway'
        BY <2>1 DEF Underway, Rest
    <2>4. PICK S \in SUBSET Address : S = {cfg.previous}
        BY <2>2
    <2>5. released' = released \cup S
        BY <2>1, <2>2, <2>4 DEF Recorded
    <2>6. (released \ cfg.released)' = (released \ cfg.released) \cup (S \ released)
        BY <2>1, <2>2, <2>4 DEF Recorded
    <2>7. S \subseteq Addresses(tracked) /\ Addresses(tracked)' = Addresses(tracked)
        BY <2>1, <2>2, <2>4 DEF Addresses
    <2>8. Lists!Note(S)
        BY <2>1, <2>3, <2>5, <2>6, <2>7 DEF Lists!Note
    <2> QED
        BY <2>8 DEF Lists!Next
<1>2. CASE PersistSnapshot
    <2>1. /\ pc = "snapshot" /\ pc' = "audit" /\ ~again
          /\ UNCHANGED <<cfg, listed, released, again>>
        BY <1>2 DEF PersistSnapshot, runVars, ListsInv
    <2>2. tracked = cfg.tracked /\ tracked' = listed
        BY <1>2, <2>1 DEF PersistSnapshot, ListsInv, Unwritten
    <2>3. Active \in SUBSET Address
        BY DEF Active, Addresses, Entry, TypeInv, TypeOK
    <2>4. Addresses(tracked)' = Active /\ Active' = Active /\ NewReleases' = Addresses(tracked \ listed)
        BY <2>1, <2>2 DEF Active, NewReleases, Addresses
    <2>5. NewReleases' \ Active' = Addresses(tracked) \ Active
        BY <2>4 DEF Active, Addresses
    <2>6. Underway /\ Underway'
        BY <2>1 DEF Underway, Rest
    <2>7. PICK S \in SUBSET Address : S = Active
        BY <2>3
    <2>8. Lists!Replace(S)
        BY <2>1, <2>4, <2>5, <2>6, <2>7 DEF Lists!Replace
    <2> QED
        BY <2>8 DEF Lists!Next
<1>3. CASE PersistReleased
    <2>1. /\ pc = "audit" /\ pc' \in {"prealloc", "done"}
          /\ released' = AllReleased /\ tracked' = tracked /\ tracked = listed
        BY <1>3 DEF PersistReleased, ListsInv
    <2>2. Underway /\ ~Underway'
        BY <2>1 DEF Underway, Rest, ListsInv
    <2>3. Addresses(tracked) = Active /\ Addresses(tracked)' = Active
        BY <2>1 DEF Active, Addresses
    <2>4. \E kept \in SUBSET (released \ cfg.released) :
              released' = ((released \cup (NewReleases \ Active)) \ Active) \cup kept
        BY <2>1, AuditRetires
    <2>5. Lists!Retire
        BY <2>1, <2>2, <2>3, <2>4 DEF Lists!Retire
    <2> QED
        BY <2>5 DEF Lists!Next
<1>4. CASE Raise
    <2>1. pc' = "idle" /\ UNCHANGED <<tracked, released>>
        BY <1>4 DEF Raise, fileVars
    <2>2. Addresses(tracked)' = Addresses(tracked) /\ ~Underway'
        BY <2>1 DEF Addresses, Underway, Rest
    <2>3. Lists!Die
        BY <2>1, <2>2 DEF Lists!Die
    <2> QED
        BY <2>3 DEF Lists!Next
<1> QED
    BY <1>1, <1>2, <1>3, <1>4, OtherStepsStutter

\* The two lists implement the audited list, for any routers and addresses,
\* whatever fails; where nothing is reclaimed also whatever users do during a
\* run (ensure_network_stack, track_router_ips).  Otherwise the stack may be
\* created again late in a run, which writes an older copy of the list.
THEOREM Refinement ==
    ASSUME ~Reclaim \/ "midrun" \notin Faults
    PROVE  Spec => ImplementsAuditedList
<1>1. Init => Lists!Init
    BY DEF Init, Addresses, Underway, Rest, Lists!Init
<1>2. TypeInv /\ OnceInv /\ ListsInv /\ [Next]_vars => [Lists!Next]_(Lists!vars)
    BY StepMaps
<1>3. Undisturbed
    BY DEF Undisturbed
<1> QED
    BY <1>1, <1>2, <1>3, ListsHold, PTL DEF Spec, ImplementsAuditedList, Lists!Spec

-----------------------------------------------------------------------------
(* One network.                                                            *)

\* Between the SAFETY check and the creation another network comes from users
\* only.
CheckedInv == pc = "network" /\ other => meanwhile

\* A project that owns a network is not given a second one, unless users made
\* theirs while the run was at work (ensure_network_stack).
THEOREM OneNetwork == Spec => NeverASecondNetwork
<1>1. Init => CheckedInv
    BY DEF Init, CheckedInv
<1>2. TypeInv /\ CheckedInv /\ [Next]_vars => CheckedInv'
    <2> SUFFICES ASSUME TypeInv, CheckedInv, [Next]_vars PROVE CheckedInv'
        OBVIOUS
    <2> USE DEF CheckedInv, cloudVars, stackVars, history
    <2>1. CASE OtherNetworks
        <3>1. other' = other
            BY <2>1 DEF OtherNetworks
        <3>2. Onwards # "network"
            BY DEF Onwards
        <3>3. pc' = "network" => ~other
            BY <2>1, <3>2, Zenon DEF OtherNetworks
        <3> QED
            BY <3>1, <3>3, Zenon
    <2>2. CASE FindNetwork \/ Attach
        BY <2>2 DEF FindNetwork, Attach, Onwards
    <2>3. CASE Load \/ CreateNetwork \/ CreateSubnet \/ ReclaimRouter \/ AddressTaken
        BY <2>3 DEF Load, CreateNetwork, CreateSubnet, ReclaimRouter, AddressTaken
    <2>4. CASE PersistRefused \/ CreateRouter \/ ListRouters \/ PersistSnapshot
        BY <2>4 DEF PersistRefused, CreateRouter, ListRouters, PersistSnapshot
    <2>5. CASE PersistReleased \/ PreallocNetwork \/ Raise
        BY <2>5 DEF PersistReleased, PreallocNetwork, Raise
    <2>6. CASE World
        <3>1. pc' = pc /\ meanwhile' = (meanwhile \/ other' # other)
            BY <2>6, Zenon DEF World
        <3> QED
            BY <3>1, Zenon
    <2>7. CASE UNCHANGED vars
        BY <2>7 DEF vars
    <2> QED
        BY <2>1, <2>2, <2>3, <2>4, <2>5, <2>6, <2>7 DEF Next, Step
<1>3. TypeInv /\ CheckedInv /\ [Next]_vars => (stack = "none" /\ stack' # "none" => ~other \/ meanwhile)
    <2> SUFFICES ASSUME TypeInv, CheckedInv, [Next]_vars, stack = "none", stack' # "none"
                 PROVE  ~other \/ meanwhile
        OBVIOUS
    <2> USE DEF cloudVars, stackVars, vars, history
    <2>1. CASE CreateNetwork
        BY <2>1 DEF CreateNetwork, CheckedInv
    <2>2. CASE CreateSubnet
        BY <2>2 DEF CreateSubnet
    <2>3. CASE FindNetwork \/ OtherNetworks \/ Attach \/ Load \/ ReclaimRouter \/ AddressTaken
        BY <2>3 DEF FindNetwork, OtherNetworks, Attach, Load, ReclaimRouter, AddressTaken
    <2>4. CASE PersistRefused \/ CreateRouter \/ ListRouters \/ PersistSnapshot
        BY <2>4 DEF PersistRefused, CreateRouter, ListRouters, PersistSnapshot
    <2>5. CASE PersistReleased \/ PreallocNetwork \/ Raise
        BY <2>5 DEF PersistReleased, PreallocNetwork, Raise
    <2>6. CASE World
        BY <2>6 DEF World, WipeStack, DropNetwork, ToggleNetwork, UserRouter, AddRouter, Others
    <2> QED
        BY <2>1, <2>2, <2>3, <2>4, <2>5, <2>6 DEF Next, Step
<1> QED
    BY <1>1, <1>2, <1>3, InitType, NextType, PTL DEF Spec, NeverASecondNetwork

=============================================================================
