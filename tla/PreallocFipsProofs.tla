--------------------------- MODULE PreallocFipsProofs ---------------------------
(***************************************************************************)
(* Proofs about PreallocFips, for any addresses, counts, options and       *)
(* faults: the two lists account for every address the first one named,    *)
(* and what a run carried over is not recorded as released; list, count    *)
(* and quota are right; and what is in use stays.                          *)
(***************************************************************************)
EXTENDS PreallocFips, FiniteSetTheorems, TLAPS

USE AddressAssumption, WantAssumption, SwitchAssumption, FaultsAssumption, MaxEventsAssumption

-----------------------------------------------------------------------------
(* Types.  The lists stay finite, so that they can be counted.             *)

FiniteInv ==
    /\ IsFiniteSet(tracked) /\ IsFiniteSet(cfg.tracked)
    /\ IsFiniteSet(existing) /\ IsFiniteSet(fresh)

\* What the cloud has of a set of addresses are entries, finitely many.
LEMMA EntriesFinite ==
    ASSUME TypeOK, NEW A \in SUBSET Address
    PROVE  Entries(A) \subseteq Entry /\ IsFiniteSet(Entries(A))
<1>1. IsFiniteSet(A)
    BY FS_Subset DEF Address
<1> DEFINE f == [a \in A |-> <<a, id[a]>>]
<1>2. f \in Surjection(A, Entries(A))
    BY DEF Surjection, Entries
<1>3. IsFiniteSet(Entries(A))
    BY <1>1, <1>2, FS_Surjection
<1>4. Entries(A) \subseteq Entry
    BY DEF Entries, Entry, TypeOK
<1> QED
    BY <1>3, <1>4

\* Usage is a number.
LEMMA UsageType == Usage \in Nat
<1>1. Ours \in SUBSET Address
    BY DEF Ours
<1> QED
    BY <1>1, FS_Subset, FS_CardinalityType DEF Usage, Address

\* The counts are numbers.
LEMMA CountType ==
    ASSUME FiniteInv
    PROVE  Count \in Nat /\ Cardinality(Missing) \in Nat
<1>1. Missing \in SUBSET cfg.tracked
    BY DEF Missing
<1>2. IsFiniteSet(Missing)
    BY <1>1, FS_Subset DEF FiniteInv
<1> QED
    BY <1>2, FS_CardinalityType DEF Count, FiniteInv

\* An allocation keeps the types of the cloud, and so does its end.
LEMMA CloudType ==
    ASSUME TypeOK, NEW a \in Address, Allocate(a) \/ Free(a)
    PROVE  /\ owner' \in [Address -> {"free", "ours", "other"}]
           /\ id' \in [Address -> Nat]
           /\ port' \subseteq Address /\ quota' \in Nat
BY DEF TypeOK, Allocate, Free

\* So does the quota that fits.
LEMMA FittingType ==
    ASSUME NEW n \in Int, FittingQuota(n)
    PROVE  quota' \in Nat
BY UsageType DEF FittingQuota, Larger

\* The addresses of entries are addresses.
LEMMA AddressesType ==
    ASSUME NEW E \in SUBSET Entry
    PROVE  Addresses(E) \subseteq Address
BY DEF Addresses, Entry

\* What is missing, untracked and reconciled are entries, finitely many.
LEMMA DriftType ==
    ASSUME TypeOK, FiniteInv
    PROVE  /\ Missing \subseteq Entry /\ Untracked \subseteq Entry /\ Reconciled \subseteq Entry
           /\ IsFiniteSet(cfg.tracked \cup Untracked) /\ IsFiniteSet(Reconciled)
<1>1. Missing \subseteq Entry /\ Untracked \subseteq Entry /\ Reconciled \subseteq Entry
    BY DEF TypeOK, Config, Missing, Untracked, Reconciled
<1>2. Untracked \in SUBSET existing /\ cfg.tracked \ Missing \in SUBSET cfg.tracked
    BY DEF Untracked
<1>3. IsFiniteSet(Untracked) /\ IsFiniteSet(cfg.tracked \ Missing)
    BY <1>2, FS_Subset DEF FiniteInv
<1>4. IsFiniteSet(cfg.tracked \cup Untracked) /\ IsFiniteSet((cfg.tracked \ Missing) \cup fresh)
    BY <1>3, FS_Union DEF FiniteInv
<1>5. IsFiniteSet(Reconciled)
    BY <1>3, <1>4, FS_Union DEF Reconciled
<1> QED
    BY <1>1, <1>4, <1>5

\* A write of entries keeps the types of what it writes.
LEMMA TrackType ==
    ASSUME TypeOK, NEW E \in SUBSET Entry, Track(E)
    PROVE  tracked' \subseteq Entry /\ known' \subseteq Address
<1>1. Addresses({e \in E : Live(e)}) \subseteq Address
    BY AddressesType
<1> QED
    BY <1>1 DEF Track, TypeOK

\* The steps of a run up to the second listing keep the types.
LEMMA DriftStepType ==
    ASSUME TypeOK, FiniteInv,
           Skip \/ Load \/ List \/ Drift \/ RaiseForReclaim \/ ReclaimElsewhere \/ Reclaimed
              \/ (\E e \in todo : ReclaimEntry(e)) \/ PersistDrift \/ ReconcileReleased
    PROVE  TypeOK' /\ FiniteInv'
<1> USE DEF TypeOK, FiniteInv, cloudVars, fileVars, runVars, histVars, PC, Rest, Counts
<1>1. CASE Skip
    BY <1>1 DEF Skip, vars
<1>2. CASE Load
    <2>1. cfg' \in Config /\ cfg'.tracked = tracked
        BY <1>2 DEF Load, Config
    <2> QED
        BY <1>2, <2>1, FS_EmptySet DEF Load
<1>3. CASE List
    <2>1. Ours \cap cfg.pool \in SUBSET Address
        BY DEF Ours
    <2>2. existing' \subseteq Entry /\ IsFiniteSet(existing')
        BY <1>3, <2>1, EntriesFinite DEF List
    <2>3. portless' \subseteq Entry
        <3>1. (Ours \cap cfg.pool) \ port \in SUBSET Address
            BY <2>1
        <3> QED
            BY <1>3, <3>1, EntriesFinite DEF List
    <2> QED
        BY <1>3, <2>2, <2>3 DEF List
<1>4. CASE Drift
    <2>1. cfg.tracked \cup Untracked \in SUBSET Entry
        BY DriftType DEF Config
    <2>2. Track(cfg.tracked \cup Untracked) \/ UNCHANGED <<tracked, known>>
        BY <1>4 DEF Drift
    <2>3. tracked' \subseteq Entry /\ known' \subseteq Address
        BY <2>1, <2>2, TrackType
    <2>4. IsFiniteSet(tracked')
        BY <2>2, DriftType DEF Track
    <2>5. todo' \subseteq Entry /\ lost' \subseteq Address
        <3>1. Addresses(Missing) \subseteq Address /\ Missing \subseteq Entry
            BY DriftType, AddressesType
        <3> QED
            BY <1>4, <3>1 DEF Drift
    <2> QED
        BY <1>4, <2>3, <2>4, <2>5 DEF Drift
<1>5. CASE RaiseForReclaim
    <2>1. cfg.want + Cardinality(Missing) \in Int /\ Usage \in Nat
        BY CountType, UsageType DEF Config
    <2>2. quota' \in Nat
        BY <1>5, <2>1 DEF RaiseForReclaim
    <2> QED
        BY <1>5, <2>2 DEF RaiseForReclaim
<1>6. CASE ReclaimElsewhere \/ Reclaimed
    BY <1>6 DEF ReclaimElsewhere, Reclaimed
<1>7. ASSUME NEW e \in todo, ReclaimEntry(e) PROVE TypeOK' /\ FiniteInv'
    <2>1. e[1] \in Address /\ <<e[1], id[e[1]] + 1>> \in Entry
        BY DEF Entry
    <2>2. CASE Allocate(e[1]) /\ fresh' = fresh \cup {<<e[1], id[e[1]] + 1>>} /\ UNCHANGED <<lost, echoed, events>>
        <3>1. IsFiniteSet(fresh')
            BY <2>2, FS_AddElement
        <3> QED
            BY <1>7, <2>1, <2>2, <3>1, CloudType DEF ReclaimEntry
    <2>3. CASE lost' = lost \cup {e[1]} /\ UNCHANGED <<cloudVars, fresh, echoed, events>>
        BY <1>7, <2>1, <2>3 DEF ReclaimEntry
    <2>4. CASE /\ events > 0 /\ events' = events - 1 /\ Allocate(e[1])
               /\ echoed' = echoed \cup {<<e[1], id[e[1]] + 1>>} /\ lost' = lost \cup {e[1]} /\ UNCHANGED fresh
        <3>1. events' \in 0..MaxEvents
            BY <2>4
        <3> QED
            BY <1>7, <2>1, <2>4, <3>1, CloudType DEF ReclaimEntry
    <2> QED
        BY <1>7, <2>2, <2>3, <2>4 DEF ReclaimEntry
<1>8. CASE PersistDrift
    BY <1>8, DriftType, TrackType DEF PersistDrift, Track
<1>9. CASE ReconcileReleased
    <2>1. released' \subseteq Address
        BY <1>9 DEF ReconcileReleased, AllReleased, Config
    <2> QED
        BY <1>9, <2>1, FS_EmptySet DEF ReconcileReleased
<1> QED
    BY <1>1, <1>2, <1>3, <1>4, <1>5, <1>6, <1>7, <1>8, <1>9

\* So do the steps that bring the count to what is configured.
LEMMA CountStepType ==
    ASSUME TypeOK, FiniteInv,
           MatchExactly \/ PersistMatch \/ ChooseExcess \/ (\E e \in todo : DeleteFip(e)) \/ Shrunk
              \/ RaiseForGrowth \/ (\E a \in Address : Grow(a) \/ GrowUnheard(a))
              \/ GrowFails \/ Grown \/ Record \/ SetQuota
    PROVE  TypeOK' /\ FiniteInv'
<1> USE DEF TypeOK, FiniteInv, cloudVars, fileVars, runVars, histVars, PC, Rest, Counts
<1>1. cfg.want \in Int /\ Larger(cfg.want, Count) \in Int /\ Usage \in Nat
    BY CountType, UsageType DEF Config, Larger
<1>2. CASE MatchExactly
    BY <1>1, <1>2, FittingType DEF MatchExactly
<1>3. CASE PersistMatch
    BY <1>3, TrackType DEF PersistMatch, Track
<1>4. CASE ChooseExcess
    <2>1. todo' \subseteq existing
        BY <1>4 DEF ChooseExcess, Unused
    <2> QED
        BY <1>4, <2>1 DEF ChooseExcess
<1>5. ASSUME NEW e \in todo, DeleteFip(e) PROVE TypeOK' /\ FiniteInv'
    <2>1. e[1] \in Address
        BY DEF Entry
    <2>2. IsFiniteSet(existing') /\ existing' \subseteq existing
        BY <1>5, FS_RemoveElement DEF DeleteFip
    <2>3. Free(e[1]) \/ UNCHANGED cloudVars
        BY <1>5 DEF DeleteFip
    <2>4. /\ owner' \in [Address -> {"free", "ours", "other"}] /\ id' \in [Address -> Nat]
          /\ port' \subseteq Address /\ quota' \in Nat
        BY <2>1, <2>3, CloudType
    <2> QED
        BY <1>5, <2>2, <2>4 DEF DeleteFip
<1>6. CASE Shrunk \/ GrowFails
    BY <1>6 DEF Shrunk, GrowFails
<1>7. CASE RaiseForGrowth
    BY <1>1, <1>7 DEF RaiseForGrowth
<1>8. ASSUME NEW a \in Address, Grow(a) PROVE TypeOK' /\ FiniteInv'
    <2>1. <<a, id[a] + 1>> \in Entry
        BY DEF Entry
    <2>2. IsFiniteSet(fresh') /\ fresh' \subseteq Entry
        BY <1>8, <2>1, FS_AddElement DEF Grow
    <2>3. /\ owner' \in [Address -> {"free", "ours", "other"}] /\ id' \in [Address -> Nat]
          /\ port' \subseteq Address /\ quota' \in Nat
        BY <1>8, CloudType DEF Grow
    <2> QED
        BY <1>8, <2>2, <2>3 DEF Grow
<1>9. CASE Grown
    <2>1. IsFiniteSet(existing') /\ existing' \subseteq Entry
        BY <1>9, FS_Union DEF Grown
    <2> QED
        BY <1>9, <2>1 DEF Grown
<1>10. CASE Record
    BY <1>10, TrackType DEF Record, Track
<1>11. CASE SetQuota
    BY <1>1, <1>11, FittingType DEF SetQuota
<1>12. ASSUME NEW a \in Address, GrowUnheard(a) PROVE TypeOK' /\ FiniteInv'
    <2>1. /\ owner' \in [Address -> {"free", "ours", "other"}] /\ id' \in [Address -> Nat]
          /\ port' \subseteq Address /\ quota' \in Nat
        BY <1>12, CloudType DEF GrowUnheard
    <2>2. events' \in 0..MaxEvents
        BY <1>12 DEF GrowUnheard
    <2> QED
        BY <1>12, <2>1, <2>2 DEF GrowUnheard
<1> QED
    BY <1>2, <1>3, <1>4, <1>5, <1>6, <1>7, <1>8, <1>9, <1>10, <1>11, <1>12

\* Every step keeps the types.
LEMMA NextType == TypeOK /\ FiniteInv /\ [Next]_vars => TypeOK' /\ FiniteInv'
<1> SUFFICES ASSUME TypeOK, FiniteInv, [Next]_vars PROVE TypeOK' /\ FiniteInv'
    OBVIOUS
<1> USE DEF cloudVars, fileVars, runVars, histVars
<1>1. CASE Step
    BY <1>1, DriftStepType, CountStepType DEF Step
<1>2. CASE Crash
    BY <1>2 DEF Crash, TypeOK, FiniteInv, PC, Rest
<1>3. CASE UserActs
    <2>1. /\ owner' \in [Address -> {"free", "ours", "other"}] /\ id' \in [Address -> Nat]
          /\ port' \subseteq Address /\ quota' \in Nat
        BY <1>3, CloudType DEF UserActs, TypeOK
    <2>2. known' \subseteq Address /\ joined' \subseteq Address
        BY <1>3 DEF UserActs, TypeOK
    <2>3. pc' \in PC /\ events' \in 0..MaxEvents
        BY <1>3 DEF UserActs, Happens, TypeOK, PC, Rest
    <2>4. UNCHANGED <<want, pool, fileVars, runVars, echoed>>
        BY <1>3 DEF UserActs
    <2> QED
        BY <2>1, <2>2, <2>3, <2>4 DEF TypeOK, FiniteInv
<1>4. CASE OthersAct
    <2>1. owner' \in [Address -> {"free", "ours", "other"}]
        BY <1>4 DEF OthersAct, TypeOK
    <2>2. pc' \in PC /\ events' \in 0..MaxEvents
        BY <1>4 DEF OthersAct, Happens, TypeOK, PC, Rest
    <2> QED
        BY <1>4, <2>1, <2>2 DEF OthersAct, TypeOK, FiniteInv
<1>5. CASE Edit
    <2>1. want' \in Counts /\ pool' \in {Here, There}
        BY <1>5 DEF Edit, TypeOK, Counts
    <2>2. pc' \in PC /\ events' \in 0..MaxEvents
        BY <1>5 DEF Edit, Happens, TypeOK, PC, Rest
    <2> QED
        BY <1>5, <2>1, <2>2 DEF Edit, TypeOK, FiniteInv
<1>6. CASE UNCHANGED vars
    BY <1>6 DEF vars, TypeOK, FiniteInv
<1> QED
    BY <1>1, <1>2, <1>3, <1>4, <1>5, <1>6 DEF Next

\* The lists are finite, too.
LEMMA TypesHold == Spec => [](TypeOK /\ FiniteInv)
<1>1. Init => TypeOK /\ FiniteInv
    <2> SUFFICES ASSUME Init PROVE TypeOK /\ FiniteInv
        OBVIOUS
    <2>1. Cardinality(Address) \in Nat
        BY FS_CardinalityType DEF Address
    <2>2. cfg \in Config
        BY DEF Init, Config, Counts
    <2>3. want \in Counts /\ events \in 0..MaxEvents
        BY DEF Init, Counts
    <2>4. FiniteInv
        BY FS_EmptySet DEF Init, FiniteInv
    <2> QED
        BY <2>1, <2>2, <2>3, <2>4 DEF Init, TypeOK, PC, Rest
<1> QED
    BY <1>1, NextType, PTL DEF Spec

\* The handler keeps the declared types for any addresses, counts and options
\* (resources/prealloc/fip.py, ensure_preallocated_fips).
THEOREM TypeCorrect == Spec => []TypeOK
BY TypesHold, PTL

-----------------------------------------------------------------------------
(* Where a run stands: what it loaded, what the file says since, and what  *)
(* became of the entries that were missing.                                *)

Before == {"list", "drift", "raise", "reclaim", "persist", "released"}

PlaceInv ==
    /\ pc \in {"list", "drift"} => tracked = cfg.tracked /\ lost = {} /\ fresh = {}
    /\ pc \in {"list", "drift", "raise"} => echoed = {}
    /\ pc \in Before => released = cfg.released
    /\ pc = "raise" => todo = Missing /\ lost = {} /\ fresh = {}
    /\ pc \in {"raise", "reclaim", "persist"} => tracked \subseteq cfg.tracked \cup Untracked /\ Missing # {}
    /\ pc = "reclaim" => Addresses(Missing) \subseteq Addresses(todo) \cup Addresses(fresh) \cup lost
    /\ pc = "persist" => Addresses(Missing) \subseteq Addresses(fresh) \cup lost
    /\ pc = "released" => tracked = Reconciled /\ (Missing = {} => fresh = {} /\ echoed = {})
    /\ pc \in {"relist", "count"} => fresh = {}

\* Every step keeps PlaceInv.
LEMMA PlaceStep == TypeOK /\ PlaceInv /\ [Next]_vars => PlaceInv'
<1> SUFFICES ASSUME TypeOK, PlaceInv, [Next]_vars PROVE PlaceInv'
    OBVIOUS
<1> USE DEF PlaceInv, Before, cloudVars, fileVars, runVars, histVars
<1>1. CASE Load
    BY <1>1 DEF Load
<1>2. CASE List
    BY <1>2 DEF List
<1>3. CASE Drift
    <2>1. UNCHANGED <<released, cfg, existing, fresh, echoed>> /\ pc = "drift"
        BY <1>3 DEF Drift
    <2>2. Missing' = Missing /\ Untracked' = Untracked /\ tracked = cfg.tracked /\ fresh = {} /\ released = cfg.released
        BY <1>3, <2>1 DEF Missing, Untracked, Drift
    <2>3. tracked' = cfg.tracked \cup Untracked
        BY <1>3, <2>2 DEF Drift, Track
    <2>4. CASE Missing = {}
        <3>1. pc' = "released"
            BY <1>3, <2>4 DEF Drift
        <3>2. tracked' = Reconciled'
            BY <2>1, <2>2, <2>3, <2>4 DEF Reconciled
        <3> QED
            BY <2>1, <2>2, <3>1, <3>2
    <2>5. CASE Missing # {} /\ Reclaim
        <3>1. pc' = "raise" /\ todo' = Missing /\ lost' = {}
            BY <1>3, <2>5 DEF Drift
        <3> QED
            BY <2>1, <2>2, <2>3, <2>5, <3>1
    <2>6. CASE Missing # {} /\ ~Reclaim
        <3>1. pc' = "persist" /\ lost' = Addresses(Missing)
            BY <1>3, <2>6 DEF Drift
        <3> QED
            BY <2>1, <2>2, <2>3, <2>6, <3>1
    <2> QED
        BY <2>4, <2>5, <2>6
<1>4. CASE RaiseForReclaim \/ ReclaimElsewhere
    BY <1>4 DEF RaiseForReclaim, ReclaimElsewhere, Missing, Untracked
<1>5. CASE Reclaimed
    <2>1. Addresses(todo) = {}
        BY <1>5 DEF Reclaimed, Addresses
    <2> QED
        BY <1>5, <2>1 DEF Reclaimed, Missing, Untracked
<1>6. ASSUME NEW e \in todo, ReclaimEntry(e) PROVE PlaceInv'
    <2>1. UNCHANGED <<fileVars, pc, cfg, existing>> /\ todo' = todo \ {e} /\ pc = "reclaim"
        BY <1>6 DEF ReclaimEntry
    <2>2. Missing' = Missing /\ Untracked' = Untracked
        BY <2>1 DEF Missing, Untracked
    <2>3. Addresses(todo) \subseteq Addresses(todo') \cup {e[1]}
        BY <2>1 DEF Addresses
    <2>4. lost \subseteq lost' /\ fresh \subseteq fresh' /\ e[1] \in Addresses(fresh') \cup lost'
        BY <1>6 DEF ReclaimEntry, Addresses
    <2>5. Addresses(fresh) \subseteq Addresses(fresh')
        BY <2>4 DEF Addresses
    <2>6. Addresses(Missing) \subseteq Addresses(todo') \cup Addresses(fresh') \cup lost'
        BY <2>1, <2>3, <2>4, <2>5
    <2>7. Addresses(Missing)' = Addresses(Missing)
        BY <2>2 DEF Addresses
    <2> QED
        BY <2>1, <2>2, <2>6, <2>7 DEF Addresses
<1>7. CASE PersistDrift
    BY <1>7 DEF PersistDrift, Track, Reconciled, Missing, Untracked
<1>8. CASE ReconcileReleased
    BY <1>8 DEF ReconcileReleased
<1>9. CASE MatchExactly \/ PersistMatch \/ ChooseExcess \/ Shrunk \/ RaiseForGrowth \/ GrowFails \/ Grown
              \/ Record \/ SetQuota \/ Crash
    BY <1>9 DEF MatchExactly, PersistMatch, ChooseExcess, Shrunk, RaiseForGrowth, GrowFails, Grown, Record,
                SetQuota, Crash, Rest
<1>10. ASSUME NEW e \in todo, DeleteFip(e) PROVE PlaceInv'
    BY <1>10 DEF DeleteFip
<1>11. ASSUME NEW a \in Address, Grow(a) \/ GrowUnheard(a) PROVE PlaceInv'
    BY <1>11 DEF Grow, GrowUnheard
<1>12. CASE UserActs \/ OthersAct \/ Edit
    <2>1. UNCHANGED <<fileVars, runVars, echoed>> /\ pc' = (IF pc = "done" THEN "idle" ELSE pc)
        BY <1>12 DEF UserActs, OthersAct, Edit, Happens
    <2> QED
        BY <2>1 DEF Missing, Untracked, Reconciled
<1>13. CASE UNCHANGED vars \/ Skip
    BY <1>13 DEF vars, Skip, Missing, Untracked, Reconciled
<1> QED
    BY <1>1, <1>2, <1>3, <1>4, <1>5, <1>6, <1>7, <1>8, <1>9, <1>10, <1>11, <1>12, <1>13 DEF Next, Step

\* PlaceInv holds.
LEMMA PlaceHolds == Spec => []PlaceInv
<1>1. Init => PlaceInv
    BY DEF Init, PlaceInv, Before
<1> QED
    BY <1>1, PlaceStep, TypeCorrect, PTL DEF Spec

-----------------------------------------------------------------------------
(* No address falls between the two lists.  Until the second write of the  *)
(* drift handler the run holds in lost what the first one dropped; after   *)
(* it, what is known and not released is listed again, and stays listed.   *)

HeldInv ==
    /\ pc \in {"drift", "raise", "reclaim", "persist", "released"} =>
           \A e \in existing \cup fresh : e[1] \in cfg.pool /\ (e[1] \in known => e[1] \in Ours)
    /\ pc = "relist" => known \ released \subseteq Ours \cap cfg.pool
    /\ pc \in {"count", "match", "shrink", "grow", "record"} => known \subseteq Addresses(existing) \cup released

AccountInv ==
    /\ pc # "released" => known \subseteq Active \cup released
    /\ pc = "released" => known \subseteq Active \cup released \cup lost

\* The addresses of a union, and of what is alive.
LEMMA AddressesUnion ==
    /\ \A E, F : Addresses(E \cup F) = Addresses(E) \cup Addresses(F)
    /\ \A E, F : E \subseteq F => Addresses(E) \subseteq Addresses(F)
    /\ \A A : Addresses(Entries(A)) = A
<1>1. \A E, F : Addresses(E \cup F) = Addresses(E) \cup Addresses(F)
    BY DEF Addresses
<1>2. \A E, F : E \subseteq F => Addresses(E) \subseteq Addresses(F)
    BY DEF Addresses
<1>3. ASSUME NEW A PROVE Addresses(Entries(A)) = A
    <2>1. ASSUME NEW a \in A PROVE a \in Addresses(Entries(A))
        <3>1. <<a, id[a]>> \in Entries(A) /\ <<a, id[a]>>[1] = a
            BY DEF Entries
        <3> QED
            BY <3>1 DEF Addresses
    <2>2. ASSUME NEW a \in Addresses(Entries(A)) PROVE a \in A
        BY DEF Addresses, Entries
    <2> QED
        BY <2>1, <2>2
<1> QED
    BY <1>1, <1>2, <1>3

\* A write adds to what is known only addresses on the list that the project
\* holds.
LEMMA TrackKnows ==
    ASSUME TypeOK, NEW E \in SUBSET Entry, Track(E)
    PROVE  /\ tracked' = E /\ known \subseteq known'
           /\ \A a \in known' \ known : a \in Ours /\ a \in Addresses(E)
<1>1. \A a \in Addresses({e \in E : Live(e)}) : a \in Ours /\ a \in Addresses(E)
    BY DEF Addresses, Live, Ours, Entry
<1> QED
    BY <1>1 DEF Track

\* The steps of the drift handler keep both.
LEMMA AccountDrift ==
    ASSUME TypeOK, FiniteInv, PlaceInv, HeldInv, AccountInv,
           Skip \/ Load \/ List \/ Drift \/ RaiseForReclaim \/ ReclaimElsewhere \/ Reclaimed
              \/ (\E e \in todo : ReclaimEntry(e)) \/ PersistDrift \/ ReconcileReleased
    PROVE  HeldInv' /\ AccountInv'
<1> USE DEF HeldInv, AccountInv, Active, cloudVars, fileVars, runVars, histVars
<1>1. CASE Skip
    BY <1>1 DEF Skip, vars, Ours
<1>2. CASE Load
    BY <1>2 DEF Load, Rest
<1>3. CASE List
    <2>1. UNCHANGED <<owner, known, tracked, released, cfg, fresh, lost>> /\ pc \in {"list", "relist"}
        BY <1>3 DEF List
    <2>2. existing' = Entries(Ours \cap cfg.pool) /\ Addresses(existing') = Ours \cap cfg.pool
        BY <1>3, AddressesUnion DEF List
    <2>3. CASE pc = "list" /\ cfg.tracked # {}
        <3>1. pc' = "drift" /\ fresh = {}
            BY <1>3, <2>3 DEF List, PlaceInv
        <3>2. \A e \in existing' : e[1] \in Ours \cap cfg.pool
            BY <2>2 DEF Entries
        <3> QED
            BY <2>1, <2>3, <3>1, <3>2 DEF Ours
    <2>4. CASE pc = "list" /\ cfg.tracked = {}
        <3>1. pc' = "count" /\ tracked = {}
            BY <1>3, <2>4 DEF List, PlaceInv
        <3>2. known \subseteq released
            BY <2>4, <3>1 DEF Addresses
        <3> QED
            BY <2>1, <3>1, <3>2 DEF Addresses
    <2>5. CASE pc = "relist"
        <3>1. pc' = "count"
            BY <1>3, <2>5 DEF List
        <3> QED
            BY <2>1, <2>2, <2>5, <3>1
    <2> QED
        BY <2>1, <2>3, <2>4, <2>5
<1>4. CASE Drift
    <2>1. /\ UNCHANGED <<owner, released, cfg, existing, fresh>>
          /\ pc = "drift" /\ pc' \in {"released", "raise", "persist"}
        BY <1>4 DEF Drift
    <2>2. tracked = cfg.tracked /\ cfg.tracked \cup Untracked \in SUBSET Entry
        BY <2>1, DriftType DEF PlaceInv, TypeOK, Config
    <2>3. /\ tracked \subseteq tracked' /\ known \subseteq known'
          /\ \A a \in known' \ known : a \in Ours /\ a \in Addresses(tracked')
        BY <1>4, <2>2, TrackKnows DEF Drift
    <2>4. Addresses(tracked) \subseteq Addresses(tracked')
        BY <2>3, AddressesUnion
    <2> QED
        BY <2>1, <2>3, <2>4 DEF Ours
<1>5. CASE RaiseForReclaim \/ ReclaimElsewhere \/ Reclaimed
    BY <1>5 DEF RaiseForReclaim, ReclaimElsewhere, Reclaimed, Ours
<1>6. ASSUME NEW e \in todo, ReclaimEntry(e) PROVE HeldInv' /\ AccountInv'
    <2>1. UNCHANGED <<fileVars, pc, cfg, existing, known>> /\ pc = "reclaim" /\ e[1] \in cfg.pool /\ e[1] \in Address
        BY <1>6 DEF ReclaimEntry, TypeOK, Entry
    <2>2. \/ /\ owner' = [owner EXCEPT ![e[1]] = "ours"]
             /\ fresh' \in {fresh, fresh \cup {<<e[1], id[e[1]] + 1>>}}
          \/ UNCHANGED <<owner, fresh>>
        BY <1>6 DEF ReclaimEntry, Allocate
    <2>3. Ours \subseteq Ours' /\ \A n \in fresh' \ fresh : n[1] = e[1] /\ e[1] \in Ours'
        BY <2>1, <2>2 DEF Ours, TypeOK
    <2> QED
        BY <2>1, <2>3
<1>7. CASE PersistDrift
    <2>1. UNCHANGED <<owner, released, cfg, existing, fresh, lost>> /\ pc = "persist" /\ pc' = "released"
        BY <1>7 DEF PersistDrift
    <2>2. Reconciled \in SUBSET Entry
        BY DriftType
    <2>3. /\ tracked' = Reconciled /\ known \subseteq known'
          /\ \A a \in known' \ known : a \in Ours /\ a \in Addresses(Reconciled)
        BY <1>7, <2>2, TrackKnows DEF PersistDrift
    <2>4. Addresses(tracked) \subseteq Addresses(Reconciled) \cup lost
        <3>1. tracked \subseteq Reconciled \cup Missing
            BY <2>1 DEF PlaceInv, Reconciled
        <3>2. Addresses(tracked) \subseteq Addresses(Reconciled) \cup Addresses(Missing)
            BY <3>1 DEF Addresses
        <3>3. Addresses(fresh) \subseteq Addresses(Reconciled)
            BY AddressesUnion DEF Reconciled
        <3> QED
            BY <2>1, <3>2, <3>3 DEF PlaceInv
    <2> QED
        BY <2>1, <2>3, <2>4 DEF Ours
<1>8. CASE ReconcileReleased
    <2>1. UNCHANGED <<owner, tracked, cfg, existing, known>> /\ pc = "released" /\ tracked = Reconciled
        BY <1>8 DEF ReconcileReleased, PlaceInv
    <2>2. released' = (released \cup lost) \ Active
        BY <1>8, <2>1 DEF ReconcileReleased, AllReleased, PlaceInv, Before
    <2>3. known \subseteq Active \cup released'
        BY <2>1, <2>2
    <2>4. Reconciled \subseteq existing \cup fresh
        BY DEF Reconciled, Missing, Untracked
    <2>5. \A a \in known \ released' : a \in Ours \cap cfg.pool
        <3>1. \A a \in Active : \E e \in existing \cup fresh : a = e[1]
            BY <2>1, <2>4 DEF Addresses
        <3> QED
            BY <2>1, <2>3, <3>1
    <2>6. CASE pc' = "count" /\ Missing = {} /\ Untracked = {}
        <3>1. Reconciled \subseteq existing
            BY <2>1, <2>6 DEF Reconciled, PlaceInv, Missing
        <3>2. Active \subseteq Addresses(existing)
            <4>1. Addresses(Reconciled) \subseteq Addresses(existing)
                BY <3>1, AddressesUnion
            <4> QED
                BY <2>1, <4>1
        <3> QED
            BY <2>1, <2>3, <2>6, <3>2
    <2>7. CASE pc' = "relist"
        BY <2>1, <2>3, <2>5, <2>7 DEF Ours
    <2> QED
        BY <1>8, <2>6, <2>7 DEF ReconcileReleased
<1> QED
    BY <1>1, <1>2, <1>3, <1>4, <1>5, <1>6, <1>7, <1>8

\* So do the steps that bring the count to what is configured.
LEMMA AccountCount ==
    ASSUME TypeOK, FiniteInv, HeldInv, AccountInv,
           MatchExactly \/ PersistMatch \/ ChooseExcess \/ (\E e \in todo : DeleteFip(e)) \/ Shrunk
              \/ RaiseForGrowth \/ (\E a \in Address : Grow(a) \/ GrowUnheard(a))
              \/ GrowFails \/ Grown \/ Record \/ SetQuota
    PROVE  HeldInv' /\ AccountInv'
<1> USE DEF HeldInv, AccountInv, Active, cloudVars, fileVars, runVars, histVars
<1>1. CASE MatchExactly \/ ChooseExcess \/ Shrunk \/ RaiseForGrowth \/ GrowFails \/ SetQuota
    BY <1>1 DEF MatchExactly, ChooseExcess, Shrunk, RaiseForGrowth, GrowFails, SetQuota
<1>2. CASE PersistMatch \/ Record
    <2>1. existing \in SUBSET Entry /\ Track(existing) /\ UNCHANGED <<existing, released>>
        BY <1>2 DEF PersistMatch, Record, TypeOK
    <2>2. known \subseteq Addresses(existing) \cup released
        BY <1>2 DEF PersistMatch, Record
    <2>3. tracked' = existing /\ known' \subseteq Addresses(existing) \cup released
        BY <2>1, <2>2, TrackKnows
    <2>4. pc' \in {"done", "quota"}
        BY <1>2 DEF PersistMatch, Record
    <2> QED
        BY <2>1, <2>3, <2>4
<1>3. ASSUME NEW e \in todo, DeleteFip(e) PROVE HeldInv' /\ AccountInv'
    <2>1. UNCHANGED <<fileVars, pc>> /\ pc = "shrink" /\ known' = known \ {e[1]} /\ existing' = existing \ {e}
        BY <1>3 DEF DeleteFip
    <2>2. Addresses(existing) \subseteq Addresses(existing') \cup {e[1]}
        BY <2>1 DEF Addresses
    <2> QED
        BY <2>1, <2>2
<1>4. ASSUME NEW a \in Address, Grow(a) \/ GrowUnheard(a) PROVE HeldInv' /\ AccountInv'
    BY <1>4 DEF Grow, GrowUnheard
<1>5. CASE Grown
    <2>1. Addresses(existing) \subseteq Addresses(existing')
        BY <1>5, AddressesUnion DEF Grown
    <2> QED
        BY <1>5, <2>1 DEF Grown
<1> QED
    BY <1>1, <1>2, <1>3, <1>4, <1>5

\* Every step keeps both.
LEMMA AccountStep ==
    TypeOK /\ FiniteInv /\ PlaceInv /\ HeldInv /\ AccountInv /\ [Next]_vars => HeldInv' /\ AccountInv'
<1> SUFFICES ASSUME TypeOK, FiniteInv, PlaceInv, HeldInv, AccountInv, [Next]_vars
             PROVE  HeldInv' /\ AccountInv'
    OBVIOUS
<1> USE DEF cloudVars, fileVars, runVars, histVars
<1>1. CASE Step
    BY <1>1, AccountDrift, AccountCount DEF Step
<1>2. CASE Crash
    <2>1. pc' = "idle" /\ UNCHANGED fileVars
        BY <1>2 DEF Crash
    <2>2. known' \subseteq Active \cup released
        BY <1>2 DEF Crash, AccountInv, Active
    <2> QED
        BY <2>1, <2>2 DEF HeldInv, AccountInv, Active
<1>3. CASE UserActs
    <2>1. UNCHANGED <<fileVars, runVars>> /\ pc' = (IF pc = "done" THEN "idle" ELSE pc)
        BY <1>3 DEF UserActs, Happens
    <2>2. known' \subseteq known /\ (pc \notin Rest => \A a \in known' : a \in Ours => a \in Ours')
        BY <1>3 DEF UserActs, Free, Allocate, Ours, TypeOK
    <2> QED
        BY <2>1, <2>2 DEF HeldInv, AccountInv, Active, Rest
<1>4. CASE OthersAct
    <2>1. UNCHANGED <<fileVars, runVars, known>> /\ pc' = (IF pc = "done" THEN "idle" ELSE pc)
        BY <1>4 DEF OthersAct, Happens
    <2>2. Ours \subseteq Ours'
        BY <1>4 DEF OthersAct, Ours, TypeOK
    <2> QED
        BY <2>1, <2>2 DEF HeldInv, AccountInv, Active
<1>5. CASE Edit
    <2>1. UNCHANGED <<owner, fileVars, runVars, known>> /\ pc' = (IF pc = "done" THEN "idle" ELSE pc)
        BY <1>5 DEF Edit, Happens
    <2> QED
        BY <2>1 DEF HeldInv, AccountInv, Active, Ours
<1>6. CASE UNCHANGED vars
    BY <1>6 DEF vars, HeldInv, AccountInv, Active, Ours
<1> QED
    BY <1>1, <1>2, <1>3, <1>4, <1>5, <1>6 DEF Next

\* Both hold.
LEMMA AccountHolds == Spec => []AccountInv
<1>1. Init => HeldInv /\ AccountInv
    BY DEF Init, HeldInv, AccountInv
<1> QED
    BY <1>1, AccountStep, PlaceHolds, TypesHold, PTL DEF Spec

-----------------------------------------------------------------------------
(* What a run finds missing stays missing: an address that is allocated    *)
(* again has another id.  So an entry that a run has carried over is not   *)
(* one whose address it released.                                          *)

After == {"relist", "count", "match", "shrink", "grow", "record", "quota", "done"}

Listed == tracked \cup cfg.tracked \cup existing \cup fresh \cup portless
Born(e) == e[2] <= id[e[1]]
Dead(e) == ~Live(e) \/ e[1] \notin cfg.pool

BornInv == \A e \in Listed : Born(e)

DeadInv ==
    /\ pc \in Before \ {"list"} => \A e \in Missing : Dead(e)
    /\ pc \in After => \A e \in cfg.tracked : e[1] \in released => Dead(e)

CarriedInv ==
    /\ pc \in After \ {"relist"} => \A e \in existing \cap cfg.tracked : e[1] \notin released
    /\ pc = "grow" => fresh \cap cfg.tracked = {}
    /\ pc \in After => \A e \in tracked \cap cfg.tracked : e[1] \notin released
    /\ echoed \cap cfg.tracked = {}

LivesInv == BornInv /\ DeadInv /\ CarriedInv

\* Every step of the cloud: ids only grow, and an address the project gets
\* has a new one.
LEMMA CloudSteps ==
    ASSUME TypeOK, [Next]_vars, NEW a \in Address
    PROVE  id'[a] >= id[a] /\ (owner'[a] = "ours" /\ owner[a] # "ours" => id'[a] > id[a])
<1> USE DEF TypeOK, cloudVars
<1>1. CASE \E b \in Address : Allocate(b) \/ Free(b)
    BY <1>1 DEF Allocate, Free
<1>2. CASE UNCHANGED <<owner, id>>
    BY <1>2
<1>3. CASE OthersAct
    BY <1>3 DEF OthersAct, Ours
<1>4. \A e \in todo : e[1] \in Address
    BY DEF Entry
<1>5. CASE Step
    BY <1>1, <1>2, <1>4, <1>5
    DEF Step, Skip, vars, Load, List, Drift, RaiseForReclaim, ReclaimElsewhere, Reclaimed, ReclaimEntry,
        DeleteFip, PersistDrift, ReconcileReleased, MatchExactly, PersistMatch, ChooseExcess, Shrunk,
        RaiseForGrowth, GrowFails, Grown, Grow, GrowUnheard, Record, SetQuota
<1> QED
    BY <1>1, <1>2, <1>3, <1>5 DEF Next, Crash, UserActs, Edit, vars

\* An entry that is dead stays dead, whatever happens.
LEMMA DeadStays ==
    ASSUME TypeOK, FiniteInv, [Next]_vars, NEW e \in Entry, Born(e)
    PROVE  Born(e)' /\ (~Live(e) => ~Live(e)')
<1>1. e[1] \in Address /\ e[2] \in Nat
    BY DEF Entry
<1>2. TypeOK'
    BY NextType
<1>3. id[e[1]] \in Nat /\ id'[e[1]] \in Nat
    BY <1>1, <1>2 DEF TypeOK
<1> QED
    BY <1>1, <1>3, CloudSteps DEF Born, Live

\* What a step lists was listed before, or has just been born.
LEMMA BornStep == TypeOK /\ FiniteInv /\ BornInv /\ [Next]_vars => BornInv'
<1> SUFFICES ASSUME TypeOK, FiniteInv, BornInv, [Next]_vars PROVE BornInv'
    OBVIOUS
<1> USE DEF cloudVars, fileVars, runVars, histVars
<1>1. Listed \subseteq Entry
    BY DEF Listed, TypeOK, Config
<1>2. \A e \in Listed : Born(e)'
    BY <1>1, DeadStays DEF BornInv
<1>3. CASE List
    <2>1. ASSUME NEW e \in existing' PROVE Born(e)'
        <3>1. e[1] \in Address /\ e[2] = id[e[1]] /\ id' = id
            BY <1>3, <2>1 DEF List, Entries, Ours
        <3> QED
            BY <3>1 DEF Born, TypeOK
    <2>2. portless' \subseteq existing'
        BY <1>3 DEF List, Entries
    <2> QED
        BY <1>2, <1>3, <2>1, <2>2 DEF List, BornInv, Listed
<1>4. ASSUME NEW e, e \in todo /\ ReclaimEntry(e) PROVE BornInv'
    <2>1. e[1] \in Address
        BY <1>4 DEF TypeOK, Entry
    <2>2. ASSUME NEW n \in fresh' \ fresh PROVE Born(n)'
        BY <1>4, <2>1, <2>2 DEF ReclaimEntry, Allocate, Born, TypeOK
    <2> QED
        BY <1>2, <1>4, <2>2 DEF ReclaimEntry, BornInv, Listed
<1>5. ASSUME NEW a \in Address, Grow(a) PROVE BornInv'
    <2>1. ASSUME NEW n \in fresh' \ fresh PROVE Born(n)'
        BY <1>5, <2>1 DEF Grow, Allocate, Born, TypeOK
    <2> QED
        BY <1>2, <1>5, <2>1 DEF Grow, BornInv, Listed
<1>6. CASE Listed' \subseteq Listed
    BY <1>2, <1>6 DEF BornInv
<1>7. CASE Skip \/ Load \/ Drift \/ RaiseForReclaim \/ ReclaimElsewhere \/ Reclaimed \/ PersistDrift
              \/ ReconcileReleased
    <2>1. Listed' \subseteq Listed
        BY <1>7
        DEF Skip, vars, Load, Drift, RaiseForReclaim, ReclaimElsewhere, Reclaimed, PersistDrift,
            ReconcileReleased, Track, Reconciled, Untracked, Listed
    <2> QED
        BY <1>6, <2>1
<1>8. CASE MatchExactly \/ PersistMatch \/ ChooseExcess \/ (\E e \in todo : DeleteFip(e)) \/ Shrunk
              \/ RaiseForGrowth \/ (\E a \in Address : GrowUnheard(a)) \/ GrowFails \/ Grown \/ Record \/ SetQuota
    <2>1. Listed' \subseteq Listed
        BY <1>8
        DEF MatchExactly, PersistMatch, ChooseExcess, DeleteFip, Shrunk, RaiseForGrowth, GrowUnheard, GrowFails,
            Grown, Record, SetQuota, Track, Listed
    <2> QED
        BY <1>6, <2>1
<1>9. CASE Crash \/ UserActs \/ OthersAct \/ Edit \/ UNCHANGED vars
    <2>1. Listed' \subseteq Listed
        BY <1>9 DEF Crash, UserActs, OthersAct, Edit, vars, Listed
    <2> QED
        BY <1>6, <2>1
<1> QED
    BY <1>3, <1>4, <1>5, <1>7, <1>8, <1>9 DEF Next, Step

\* Every step keeps LivesInv.
LEMMA LivesStep == TypeOK /\ FiniteInv /\ PlaceInv /\ LivesInv /\ [Next]_vars => LivesInv'
<1> SUFFICES ASSUME TypeOK, FiniteInv, PlaceInv, LivesInv, [Next]_vars PROVE DeadInv' /\ CarriedInv'
    BY BornStep DEF LivesInv
<1> USE DEF DeadInv, CarriedInv, LivesInv, Before, After, cloudVars, fileVars, runVars, histVars
<1>1. \A e \in cfg.tracked : e \in Entry /\ Born(e)
    BY DEF BornInv, Listed, TypeOK, Config
<1>2. cfg' = cfg => \A e \in cfg.tracked : Dead(e) => Dead(e)'
    BY <1>1, DeadStays DEF Dead
<1>3. Missing \subseteq cfg.tracked
    BY DEF Missing
<1>4. CASE Load \/ Crash
    BY <1>4 DEF Load, Crash
<1>5. CASE List
    <2>1. UNCHANGED <<owner, id, tracked, released, cfg, fresh, echoed>> /\ existing' = Entries(Ours \cap cfg.pool)
        BY <1>5 DEF List
    <2>2. ASSUME NEW e \in cfg.tracked PROVE e \in existing' <=> ~Dead(e)
        BY <1>1, <2>1, <2>2 DEF Dead, Live, Entries, Ours, Entry
    <2>3. \A e \in cfg.tracked : Dead(e)' <=> Dead(e)
        BY <2>1 DEF Dead, Live
    <2>4. \/ pc = "list" /\ pc' = "drift"
          \/ pc = "list" /\ pc' = "count" /\ cfg.tracked = {}
          \/ pc = "relist" /\ pc' = "count"
        BY <1>5 DEF List
    <2> QED
        BY <2>1, <2>2, <2>3, <2>4 DEF Missing
<1>6. CASE Drift \/ RaiseForReclaim \/ ReclaimElsewhere \/ Reclaimed \/ PersistDrift
    <2>1. UNCHANGED <<cfg, existing, echoed>> /\ pc \in Before \ {"list"} /\ pc' \in Before \cup {"idle"}
        BY <1>6 DEF Drift, RaiseForReclaim, ReclaimElsewhere, Reclaimed, PersistDrift
    <2> QED
        BY <1>2, <1>3, <2>1 DEF Missing
<1>7. ASSUME NEW e \in todo, ReclaimEntry(e) PROVE DeadInv' /\ CarriedInv'
    <2>1. /\ UNCHANGED <<cfg, existing, pc>> /\ pc = "reclaim"
          /\ echoed' \in {echoed, echoed \cup {<<e[1], id[e[1]] + 1>>}}
        BY <1>7 DEF ReclaimEntry
    <2>2. <<e[1], id[e[1]] + 1>> \notin cfg.tracked
        <3>1. id[e[1]] \in Nat
            BY DEF TypeOK, Entry
        <3> QED
            BY <1>1, <3>1 DEF Born
    <2> QED
        BY <1>2, <1>3, <2>1, <2>2 DEF Missing
<1>8. CASE ReconcileReleased
    <2>1. /\ UNCHANGED <<tracked, cfg, existing, echoed>> /\ pc = "released" /\ tracked = Reconciled
          /\ released' = (cfg.released \cup lost) \ Addresses(Reconciled)
          /\ fresh' = {} /\ pc' \in {"relist", "count"}
        BY <1>8 DEF ReconcileReleased, AllReleased, PlaceInv
    <2>2. \A e \in Reconciled : e[1] \notin released'
        BY <2>1 DEF Addresses
    <2>3. ASSUME NEW e \in cfg.tracked, e[1] \in released' PROVE Dead(e)'
        <3>1. e \in Missing
            BY <2>2, <2>3 DEF Reconciled
        <3> QED
            BY <1>2, <2>1, <3>1
    <2>4. pc' = "count" => existing \subseteq Reconciled
        BY <1>8 DEF ReconcileReleased, Reconciled, Missing, Untracked
    <2> QED
        BY <2>1, <2>2, <2>3, <2>4
<1>9. CASE MatchExactly \/ ChooseExcess \/ Shrunk \/ RaiseForGrowth \/ GrowFails \/ SetQuota
    <2>1. /\ UNCHANGED <<tracked, released, cfg, existing, fresh, echoed>>
          /\ pc \in {"count", "shrink", "grow", "quota"}
          /\ pc' \in {"match", "shrink", "grow", "record", "done", "idle"}
          /\ pc' = "grow" => pc = "count"
        BY <1>9 DEF MatchExactly, ChooseExcess, Shrunk, RaiseForGrowth, GrowFails, SetQuota
    <2> QED
        BY <1>2, <2>1 DEF PlaceInv
<1>10. CASE PersistMatch \/ Record
    <2>1. /\ UNCHANGED <<released, cfg, existing, echoed>> /\ tracked' = existing
          /\ pc \in {"match", "record"} /\ pc' \in {"quota", "done"}
        BY <1>10 DEF PersistMatch, Record, Track
    <2> QED
        BY <1>2, <2>1
<1>11. ASSUME NEW e \in todo, DeleteFip(e) PROVE DeadInv' /\ CarriedInv'
    <2>1. UNCHANGED <<tracked, released, cfg, pc, echoed>> /\ existing' \subseteq existing /\ pc = "shrink"
        BY <1>11 DEF DeleteFip
    <2> QED
        BY <1>2, <2>1
<1>12. ASSUME NEW a \in Address, Grow(a) PROVE DeadInv' /\ CarriedInv'
    <2>1. /\ UNCHANGED <<tracked, released, cfg, existing, pc, echoed>> /\ pc = "grow"
          /\ fresh' = fresh \cup {<<a, id[a] + 1>>}
        BY <1>12 DEF Grow
    <2>2. <<a, id[a] + 1>> \notin cfg.tracked
        <3>1. id[a] \in Nat
            BY DEF TypeOK
        <3> QED
            BY <1>1, <3>1 DEF Born
    <2> QED
        BY <1>2, <2>1, <2>2
<1>13. CASE Grown
    <2>1. /\ UNCHANGED <<tracked, released, cfg, echoed>> /\ pc = "grow" /\ pc' = "record"
          /\ existing' = existing \cup fresh
        BY <1>13 DEF Grown
    <2> QED
        BY <1>2, <2>1
<1>14. CASE UserActs \/ OthersAct \/ Edit \/ Skip \/ UNCHANGED vars
    <2>1. UNCHANGED <<fileVars, runVars, echoed>> /\ pc' \in {pc, "idle"}
        BY <1>14 DEF UserActs, OthersAct, Edit, Happens, Skip, vars
    <2> QED
        BY <1>2, <1>3, <2>1 DEF Missing
<1>15. ASSUME NEW a \in Address, GrowUnheard(a) PROVE DeadInv' /\ CarriedInv'
    <2>1. UNCHANGED <<tracked, released, cfg, existing, pc, fresh, echoed>> /\ pc = "grow"
        BY <1>15 DEF GrowUnheard
    <2> QED
        BY <1>2, <2>1
<1> QED
    BY <1>4, <1>5, <1>6, <1>7, <1>8, <1>9, <1>10, <1>11, <1>12, <1>13, <1>14, <1>15
    DEF Next, Step

\* LivesInv holds.
LEMMA LivesHold == Spec => []LivesInv
<1>1. Init => LivesInv
    BY DEF Init, LivesInv, BornInv, Listed, DeadInv, CarriedInv, Before, After
<1> QED
    BY <1>1, LivesStep, PlaceHolds, TypesHold, PTL DEF Spec

\* After a completed run no entry it carried over is also released, and every
\* address that was ever on the list is on one of the two, but for what was
\* given up or a run dropped that died (resources/prealloc/fip.py,
\* _reconcile_fip_drift and _reconcile_released_fips).
THEOREM ListsAreComplete == Spec => []ListsAccount
<1>1. AccountInv /\ LivesInv => ListsAccount
    BY DEF AccountInv, LivesInv, CarriedInv, After, ListsAccount
<1> QED
    BY <1>1, AccountHolds, LivesHold, PTL

-----------------------------------------------------------------------------
(* While the project stays on one network, all that is listed is there.    *)

HomeInv ==
    /\ pool = Here /\ cfg.pool = Here
    /\ \A e \in Listed : e[1] \in Here

\* A project that is not moved keeps its network.
LEMMA HomeStep ==
    ASSUME "move" \notin Faults
    PROVE  TypeOK /\ HomeInv /\ [Next]_vars => HomeInv'
<1> SUFFICES ASSUME TypeOK, HomeInv, [Next]_vars PROVE HomeInv'
    OBVIOUS
<1> USE DEF HomeInv, Listed, cloudVars, fileVars, runVars, histVars
<1>1. CASE Load \/ Skip \/ UNCHANGED vars
    BY <1>1 DEF Load, Skip, vars
<1>2. CASE List
    <2>1. \A e \in existing' \cup portless' : e[1] \in Here
        BY <1>2 DEF List, Entries
    <2> QED
        BY <1>2, <2>1 DEF List
<1>3. CASE Drift \/ RaiseForReclaim \/ ReclaimElsewhere \/ Reclaimed \/ PersistDrift \/ ReconcileReleased
    BY <1>3 DEF Drift, RaiseForReclaim, ReclaimElsewhere, Reclaimed, PersistDrift, ReconcileReleased, Track,
                Reconciled, Untracked
<1>4. ASSUME NEW e \in todo, ReclaimEntry(e) PROVE HomeInv'
    BY <1>4 DEF ReclaimEntry
<1>5. CASE MatchExactly \/ PersistMatch \/ ChooseExcess \/ (\E e \in todo : DeleteFip(e)) \/ Shrunk
              \/ RaiseForGrowth \/ GrowFails \/ Grown \/ Record \/ SetQuota
    BY <1>5 DEF MatchExactly, PersistMatch, ChooseExcess, DeleteFip, Shrunk, RaiseForGrowth, GrowFails, Grown,
                Record, SetQuota, Track
<1>6. ASSUME NEW a \in Address, Grow(a) \/ GrowUnheard(a) PROVE HomeInv'
    BY <1>6 DEF Grow, GrowUnheard
<1>7. CASE Crash \/ UserActs \/ OthersAct \/ Edit
    BY <1>7 DEF Crash, UserActs, OthersAct, Edit
<1> QED
    BY <1>1, <1>2, <1>3, <1>4, <1>5, <1>6, <1>7 DEF Next, Step

\* While the project is not moved to another external network, a floating IP
\* that a completed run found on its list and that still exists is not
\* recorded as released (resources/prealloc/fip.py, _reconcile_released_fips).
THEOREM ReleasedAreGone ==
    ASSUME "move" \notin Faults
    PROVE  Spec => []ReleasedIsGone
<1>1. Init => HomeInv
    BY DEF Init, HomeInv, Listed
<1>2. LivesInv /\ HomeInv => ReleasedIsGone
    BY DEF LivesInv, DeadInv, HomeInv, Listed, Dead, After, ReleasedIsGone
<1> QED
    BY <1>1, <1>2, HomeStep, LivesHold, TypeCorrect, PTL DEF Spec

-----------------------------------------------------------------------------
(* Runs that users do not disturb.  What a run believes to exist is what   *)
(* does, step by step: what it listed, less what it deleted, and with what *)
(* it allocated.  So its counting counts the project's floating IPs.       *)

Present == Entries(Ours \cap cfg.pool)

TruthInv ==
    /\ pc \in {"drift", "raise", "count", "match", "shrink", "record", "quota"} => existing = Present
    /\ pc \in {"reclaim", "persist", "released"} =>
           Present = existing \cup fresh \cup echoed /\ (existing \cup fresh) \cap echoed = {}
    /\ pc = "relist" => tracked = Present \ echoed
    /\ pc = "count" => tracked = existing \ echoed \/ (tracked = {} /\ cfg.tracked = {})
    /\ pc = "grow" => existing \cup fresh \subseteq Present /\ existing \cap fresh = {}
    /\ pc = "quota" => tracked = Present
    /\ pc = "done" => tracked = Present \/ (~TrackChanges /\ tracked \in {{}, Present \ echoed})

\* n of the addresses are E: as many as wanted, and more only if they are in use.
Enough(n, E) == n >= cfg.want /\ (n > cfg.want => \A e \in E : e[1] \in port)

\* What a run lists and no port uses.
Idle == {e \in existing : e[1] \notin port}

CountInv ==
    /\ pc \in (Before \ {"list"}) \cup {"count"} => Unused = Idle
    /\ pc \in {"match", "done"} => quota = Larger(cfg.want, Usage)
    /\ pc = "match" => Count = cfg.want
    /\ pc = "shrink" => todo \subseteq Idle /\ Enough(Count - Cardinality(todo), existing \ todo)
    /\ pc = "grow" => Count + Cardinality(fresh) <= cfg.want /\ Usage <= quota /\ quota = cfg.want
    /\ pc \in {"record", "quota"} => Enough(Count, existing)
    /\ pc = "done" => Enough(Cardinality(Present), Present)

\* There are as many entries as addresses.
LEMMA EntriesCount ==
    ASSUME TypeOK, NEW A \in SUBSET Address
    PROVE  Cardinality(Entries(A)) = Cardinality(A)
<1>1. IsFiniteSet(A)
    BY FS_Subset DEF Address
<1> DEFINE f == [a \in A |-> <<a, id[a]>>]
<1>2. f \in Surjection(A, Entries(A)) /\ f \in Injection(A, Entries(A))
    <2>1. f \in Surjection(A, Entries(A))
        BY DEF Surjection, Entries
    <2>2. \A a, b \in A : f[a] = f[b] => a = b
        OBVIOUS
    <2> QED
        BY <2>1, <2>2 DEF Surjection, Injection, IsInjective
<1> QED
    BY <1>1, <1>2, FS_Surjection

\* The project's addresses on one network are no more than all it has.
LEMMA PresentCount ==
    ASSUME TypeOK
    PROVE  /\ Present \subseteq Entry /\ IsFiniteSet(Present)
           /\ Cardinality(Present) = Cardinality(Ours \cap cfg.pool)
           /\ Cardinality(Present) \in Nat /\ Cardinality(Present) <= Usage
<1>1. Ours \in SUBSET Address /\ Ours \cap cfg.pool \in SUBSET Address /\ Ours \cap cfg.pool \in SUBSET Ours
    BY DEF Ours
<1>2. IsFiniteSet(Ours)
    BY <1>1, FS_Subset DEF Address
<1>3. Cardinality(Ours \cap cfg.pool) <= Cardinality(Ours)
    BY <1>1, <1>2, FS_Subset
<1>4. Cardinality(Present) = Cardinality(Ours \cap cfg.pool) /\ Present \subseteq Entry /\ IsFiniteSet(Present)
    BY <1>1, EntriesCount, EntriesFinite DEF Present
<1> QED
    BY <1>3, <1>4, FS_CardinalityType DEF Usage

\* An address the project gets is one more entry, and one it gives back is one
\* less.
LEMMA PresentGrows ==
    ASSUME TypeOK, NEW a \in Address, a \in cfg.pool, Allocatable(a), Allocate(a), UNCHANGED cfg
    PROVE  Present' = Present \cup {<<a, id[a] + 1>>} /\ <<a, id[a] + 1>> \notin Present
<1>1. a \notin Ours
    BY DEF Allocatable, Ours
<1>2. id' = [id EXCEPT ![a] = id[a] + 1] /\ Ours' = Ours \cup {a}
    BY DEF Allocate, Ours, TypeOK
<1>3. \A b \in Ours : id'[b] = id[b]
    BY <1>1, <1>2 DEF TypeOK, Ours
<1>4. id'[a] = id[a] + 1
    BY <1>2 DEF TypeOK
<1>5. (Ours \cap cfg.pool)' = (Ours \cap cfg.pool) \cup {a}
    BY <1>2
<1>6. Present' = {<<b, id'[b]>> : b \in (Ours \cap cfg.pool) \cup {a}}
    BY <1>5 DEF Present, Entries
<1> QED
    BY <1>1, <1>3, <1>4, <1>6 DEF Present, Entries

\* The quota still holds what the project has when it gets one more.
LEMMA UsageGrows ==
    ASSUME TypeOK, NEW a \in Address, Allocatable(a), Allocate(a)
    PROVE  Usage' <= quota'
<1>1. a \notin Ours /\ Ours' = Ours \cup {a} /\ quota' = quota
    BY DEF Allocatable, Allocate, Ours, TypeOK
<1>2. Ours \in SUBSET Address
    BY DEF Ours
<1>3. IsFiniteSet(Ours)
    BY <1>2, FS_Subset DEF Address
<1>4. Cardinality(Ours') = Cardinality(Ours) + 1
    BY <1>1, <1>3, FS_AddElement
<1> QED
    BY <1>1, <1>4, UsageType DEF Usage, Allocatable, TypeOK

LEMMA PresentShrinks ==
    ASSUME TypeOK, NEW a \in Address, Free(a), UNCHANGED cfg
    PROVE  Present' = Present \ {<<a, id[a]>>} /\ Ours' = Ours \ {a}
<1>1. Ours' = Ours \ {a} /\ id' = id
    BY DEF Free, Ours, TypeOK
<1>2. Present' = {<<b, id[b]>> : b \in (Ours \ {a}) \cap cfg.pool}
    BY <1>1 DEF Present, Entries
<1> QED
    BY <1>1, <1>2 DEF Present, Entries

\* Nothing else moves what is there.
LEMMA PresentStays ==
    ASSUME UNCHANGED <<owner, id, cfg>>
    PROVE  Present' = Present /\ Ours' = Ours /\ Usage' = Usage
BY DEF Present, Entries, Ours, Usage

\* What the drift handler writes is what it believes to exist.
LEMMA ReconciledIs == Reconciled = existing \cup fresh
BY DEF Reconciled, Missing, Untracked

\* The steps up to the second listing keep what a run believes true.
LEMMA TruthDrift ==
    ASSUME TypeOK, PlaceInv, TruthInv,
           Skip \/ Load \/ List \/ Drift \/ RaiseForReclaim \/ ReclaimElsewhere \/ Reclaimed
              \/ (\E e \in todo : ReclaimEntry(e)) \/ PersistDrift \/ ReconcileReleased
    PROVE  TruthInv'
<1> USE DEF TruthInv, cloudVars, fileVars, runVars, histVars
<1>1. CASE Skip
    BY <1>1 DEF Skip, vars, Present, Entries, Ours
<1>2. CASE Load
    BY <1>2 DEF Load
<1>3. CASE List
    <2>1. UNCHANGED <<owner, id, cfg, tracked, fresh, echoed>> /\ existing' = Present
        BY <1>3 DEF List, Present
    <2>2. Present' = Present
        BY <2>1, PresentStays
    <2>3. \/ pc' = "drift"
          \/ pc = "list" /\ pc' = "count" /\ cfg.tracked = {}
          \/ pc = "relist" /\ pc' = "count"
        BY <1>3 DEF List
    <2> QED
        BY <2>1, <2>2, <2>3 DEF PlaceInv
<1>4. CASE Drift
    <2>1. UNCHANGED <<owner, id, cfg, existing, fresh, echoed>> /\ pc = "drift" /\ pc' \in {"released", "raise", "persist"}
        BY <1>4 DEF Drift
    <2>2. Present' = Present
        BY <2>1, PresentStays
    <2> QED
        BY <2>1, <2>2 DEF PlaceInv
<1>5. CASE RaiseForReclaim \/ ReclaimElsewhere \/ Reclaimed
    <2>1. /\ UNCHANGED <<owner, id, cfg, existing, fresh, echoed>>
          /\ \/ pc = "raise" /\ pc' = "reclaim"
             \/ pc = "reclaim" /\ pc' = "persist"
             \/ pc' = "idle"
        BY <1>5 DEF RaiseForReclaim, ReclaimElsewhere, Reclaimed
    <2>2. Present' = Present
        BY <2>1, PresentStays
    <2> QED
        BY <2>1, <2>2 DEF PlaceInv
<1>6. ASSUME NEW e \in todo, ReclaimEntry(e) PROVE TruthInv'
    <2>1. UNCHANGED <<cfg, existing, pc>> /\ pc = "reclaim" /\ e[1] \in cfg.pool /\ e[1] \in Address
        BY <1>6 DEF ReclaimEntry, TypeOK, Entry
    <2>2. CASE /\ Allocatable(e[1]) /\ Allocate(e[1])
               /\ \/ fresh' = fresh \cup {<<e[1], id[e[1]] + 1>>} /\ UNCHANGED echoed
                  \/ echoed' = echoed \cup {<<e[1], id[e[1]] + 1>>} /\ UNCHANGED fresh
        <3>1. Present' = Present \cup {<<e[1], id[e[1]] + 1>>} /\ <<e[1], id[e[1]] + 1>> \notin Present
            BY <2>1, <2>2, PresentGrows
        <3> QED
            BY <2>1, <2>2, <3>1
    <2>3. CASE UNCHANGED <<owner, id, fresh, echoed>>
        <3>1. Present' = Present
            BY <2>1, <2>3, PresentStays
        <3> QED
            BY <2>1, <2>3, <3>1
    <2> QED
        BY <1>6, <2>2, <2>3 DEF ReclaimEntry
<1>7. CASE PersistDrift
    <2>1. UNCHANGED <<owner, id, cfg, existing, fresh, echoed>> /\ pc = "persist" /\ pc' = "released"
        BY <1>7 DEF PersistDrift
    <2>2. Present' = Present
        BY <2>1, PresentStays
    <2> QED
        BY <2>1, <2>2
<1>8. CASE ReconcileReleased
    <2>1. UNCHANGED <<owner, id, cfg, existing, tracked, echoed>> /\ pc = "released" /\ tracked = Reconciled
        BY <1>8 DEF ReconcileReleased, PlaceInv
    <2>2. Present' = Present /\ tracked = Present \ echoed
        BY <2>1, PresentStays, ReconciledIs
    <2>3. CASE pc' = "relist"
        BY <2>1, <2>2, <2>3
    <2>4. CASE pc' = "count" /\ Missing = {}
        <3>1. fresh = {} /\ echoed = {}
            BY <2>1, <2>4 DEF PlaceInv
        <3> QED
            BY <2>1, <2>2, <2>4, <3>1
    <2> QED
        BY <1>8, <2>3, <2>4 DEF ReconcileReleased
<1> QED
    BY <1>1, <1>2, <1>3, <1>4, <1>5, <1>6, <1>7, <1>8

\* So do the steps that bring the count to what is configured.
LEMMA TruthCount ==
    ASSUME TypeOK, FiniteInv, PlaceInv, LivesInv, TruthInv, CountInv,
           MatchExactly \/ PersistMatch \/ ChooseExcess \/ (\E e \in todo : DeleteFip(e)) \/ Shrunk
              \/ RaiseForGrowth \/ (\E a \in Address : Grow(a) \/ GrowUnheard(a))
              \/ GrowFails \/ Grown \/ Record \/ SetQuota
    PROVE  TruthInv'
<1> USE DEF TruthInv, cloudVars, fileVars, runVars, histVars
<1>1. CASE MatchExactly \/ ChooseExcess \/ Shrunk \/ RaiseForGrowth \/ GrowFails \/ SetQuota
    <2>1. UNCHANGED <<owner, id, cfg, tracked, existing, fresh, echoed>>
        BY <1>1 DEF MatchExactly, ChooseExcess, Shrunk, RaiseForGrowth, GrowFails, SetQuota, FittingQuota
    <2>2. Present' = Present
        BY <2>1, PresentStays
    <2>3. \/ pc = "count" /\ pc' \in {"match", "shrink"}
          \/ pc = "count" /\ pc' = "done" /\ ~(TrackChanges /\ cfg.tracked # existing)
          \/ pc = "count" /\ pc' = "grow"
          \/ pc = "shrink" /\ pc' = "record"
          \/ pc = "quota" /\ pc' = "done"
          \/ pc' = "idle"
        BY <1>1 DEF MatchExactly, ChooseExcess, Shrunk, RaiseForGrowth, GrowFails, SetQuota
    <2>4. echoed \cap cfg.tracked = {}
        BY DEF LivesInv, CarriedInv
    <2> QED
        BY <2>1, <2>2, <2>3, <2>4 DEF PlaceInv
<1>2. CASE PersistMatch \/ Record
    <2>1. /\ UNCHANGED <<owner, id, cfg, existing>> /\ tracked' = existing
          /\ pc \in {"match", "record"} /\ pc' \in {"done", "quota"}
        BY <1>2 DEF PersistMatch, Record, Track
    <2>2. Present' = Present
        BY <2>1, PresentStays
    <2> QED
        BY <2>1, <2>2
<1>3. ASSUME NEW e \in todo, DeleteFip(e) PROVE TruthInv'
    <2>1. UNCHANGED <<pc, cfg>> /\ pc = "shrink" /\ existing' = existing \ {e} /\ e \in Present
        BY <1>3 DEF DeleteFip, CountInv, Idle
    <2>2. e[1] \in Address /\ e = <<e[1], id[e[1]]>> /\ Live(e)
        BY <2>1 DEF Present, Entries, Ours, Live
    <2>3. Present' = Present \ {e}
        BY <1>3, <2>1, <2>2, PresentShrinks DEF DeleteFip
    <2> QED
        BY <2>1, <2>3
<1>4. ASSUME NEW a \in Address, Grow(a) PROVE TruthInv'
    <2>1. /\ UNCHANGED <<pc, cfg, existing>> /\ pc = "grow" /\ fresh' = fresh \cup {<<a, id[a] + 1>>}
          /\ Allocatable(a) /\ Allocate(a) /\ a \in cfg.pool
        BY <1>4 DEF Grow
    <2>2. Present' = Present \cup {<<a, id[a] + 1>>} /\ <<a, id[a] + 1>> \notin Present
        BY <2>1, PresentGrows
    <2> QED
        BY <2>1, <2>2
<1>5. ASSUME NEW a \in Address, GrowUnheard(a) PROVE TruthInv'
    <2>1. /\ UNCHANGED <<pc, cfg, existing, fresh>> /\ pc = "grow"
          /\ Allocatable(a) /\ Allocate(a) /\ a \in cfg.pool
        BY <1>5 DEF GrowUnheard
    <2>2. Present \subseteq Present'
        BY <2>1, PresentGrows
    <2> QED
        BY <2>1, <2>2
<1>6. CASE Grown
    <2>1. UNCHANGED <<owner, id, cfg>> /\ pc = "grow" /\ pc' = "record" /\ existing' = existing \cup fresh
        BY <1>6 DEF Grown
    <2>2. Present' = Present
        BY <2>1, PresentStays
    <2>3. IsFiniteSet(existing \cup fresh) /\ Cardinality(existing \cup fresh) = Count + Cardinality(fresh)
        <3>1. Cardinality(existing \cap fresh) = 0
            BY <2>1, FS_EmptySet
        <3>2. Count \in Nat /\ Cardinality(fresh) \in Nat
            BY CountType, FS_CardinalityType DEF FiniteInv
        <3>3. /\ IsFiniteSet(existing \cup fresh)
              /\ Cardinality(existing \cup fresh) = Count + Cardinality(fresh) - Cardinality(existing \cap fresh)
            BY FS_Union DEF FiniteInv, Count
        <3> QED
            BY <3>1, <3>2, <3>3
    <2>4. /\ existing \cup fresh \in SUBSET Present /\ IsFiniteSet(Present)
          /\ Cardinality(Present) \in Nat /\ Cardinality(Present) <= Usage
        BY <2>1, PresentCount
    <2>5. Cardinality(existing \cup fresh) >= Usage
        <3>1. Count + Cardinality(fresh) >= cfg.want /\ Usage <= cfg.want
            BY <1>6, <2>1 DEF Grown, CountInv
        <3>2. cfg.want \in Int /\ Count + Cardinality(fresh) \in Nat
            BY <2>3, FS_CardinalityType DEF TypeOK, Config, Counts
        <3> QED
            BY <2>3, <3>1, <3>2, UsageType
    <2>6. Cardinality(existing \cup fresh) <= Cardinality(Present) /\ Cardinality(existing \cup fresh) \in Nat
        BY <2>4, FS_Subset, <2>3, FS_CardinalityType
    <2>7. Cardinality(existing \cup fresh) = Cardinality(Present)
        BY <2>4, <2>5, <2>6, UsageType
    <2>8. existing \cup fresh = Present
        BY <2>4, <2>7, FS_Subset
    <2> QED
        BY <2>1, <2>2, <2>8
<1> QED
    BY <1>1, <1>2, <1>3, <1>4, <1>5, <1>6

\* Taking away all there is in excess, or all that may go, leaves enough.
LEMMA ExcessIsEnough ==
    ASSUME FiniteInv, Unused = Idle, NEW E \in SUBSET Unused, cfg.want \in Int, Count > cfg.want,
           Cardinality(E) = (IF Cardinality(Unused) < Count - cfg.want
                             THEN Cardinality(Unused) ELSE Count - cfg.want)
    PROVE  Enough(Count - Cardinality(E), existing \ E)
<1>1. Unused \in SUBSET existing
    BY DEF Unused
<1>2. IsFiniteSet(Unused) /\ Cardinality(Unused) \in Nat /\ Count \in Nat
    BY <1>1, FS_Subset, FS_CardinalityType DEF FiniteInv, Count
<1>3. CASE Cardinality(Unused) < Count - cfg.want
    <2>1. E = Unused
        BY <1>2, <1>3, FS_Subset
    <2>2. \A e \in existing \ E : e[1] \in port
        BY <2>1 DEF Idle
    <2> QED
        BY <1>2, <1>3, <2>1, <2>2 DEF Enough
<1>4. CASE ~(Cardinality(Unused) < Count - cfg.want)
    BY <1>2, <1>4 DEF Enough
<1> QED
    BY <1>3, <1>4

\* What a run counts and chooses stays right while it brings the count to what
\* is configured.
LEMMA CountStep ==
    ASSUME TypeOK, FiniteInv, PlaceInv, TruthInv, CountInv,
           MatchExactly \/ PersistMatch \/ ChooseExcess \/ (\E e \in todo : DeleteFip(e)) \/ Shrunk
              \/ RaiseForGrowth \/ (\E a \in Address : Grow(a) \/ GrowUnheard(a))
              \/ GrowFails \/ Grown \/ Record \/ SetQuota
    PROVE  CountInv'
<1> USE DEF CountInv, cloudVars, fileVars, runVars, histVars
<1>1. cfg.want \in Int /\ Count \in Nat /\ Usage \in Nat
    BY CountType, UsageType DEF TypeOK, Config, Counts
<1>2. CASE MatchExactly
    <2>1. /\ UNCHANGED <<owner, id, port, cfg, existing>> /\ pc = "count" /\ pc' \in {"match", "done"}
          /\ Count = cfg.want /\ quota' = Larger(cfg.want, Usage)
        BY <1>2 DEF MatchExactly, FittingQuota
    <2>2. Present' = existing /\ Usage' = Usage /\ Count' = Count
        BY <2>1, PresentStays DEF TruthInv, Count
    <2> QED
        BY <1>1, <2>1, <2>2 DEF Enough, Count, Before
<1>3. CASE PersistMatch
    <2>1. UNCHANGED <<owner, id, port, quota, cfg, existing>> /\ pc = "match" /\ pc' = "done"
        BY <1>3 DEF PersistMatch
    <2>2. Present' = existing /\ Usage' = Usage
        BY <2>1, PresentStays DEF TruthInv
    <2> QED
        BY <1>1, <2>1, <2>2 DEF Enough, Count, Before
<1>4. CASE ChooseExcess
    <2>1. UNCHANGED <<port, cfg, existing>> /\ pc = "count" /\ pc' = "shrink" /\ Unused = Idle
        BY <1>4 DEF ChooseExcess
    <2>2. todo' \subseteq Unused /\ Enough(Count - Cardinality(todo'), existing \ todo')
        BY <1>1, <1>4, <2>1, ExcessIsEnough DEF ChooseExcess
    <2> QED
        BY <2>1, <2>2 DEF Enough, Count, Idle, Before
<1>5. ASSUME NEW e \in todo, DeleteFip(e) PROVE CountInv'
    <2>1. /\ UNCHANGED <<cfg, pc>> /\ pc = "shrink" /\ todo' = todo \ {e} /\ existing' = existing \ {e}
          /\ e \in existing /\ e[1] \notin port
        BY <1>5 DEF DeleteFip, Idle
    <2>2. port' = port
        BY <1>5, <2>1 DEF DeleteFip, Free
    <2>3. IsFiniteSet(todo)
        BY <2>1, FS_Subset DEF Idle, FiniteInv
    <2>4. Count' = Count - 1 /\ Cardinality(todo') = Cardinality(todo) - 1
        BY <2>1, <2>3, FS_RemoveElement DEF Count, FiniteInv
    <2>5. Cardinality(todo) \in Nat
        BY <2>3, FS_CardinalityType
    <2>6. Count' - Cardinality(todo') = Count - Cardinality(todo) /\ (existing \ todo)' = existing \ todo
        BY <1>1, <2>1, <2>4, <2>5
    <2>7. todo' \subseteq Idle'
        BY <2>1, <2>2 DEF Idle
    <2>8. Enough(Count - Cardinality(todo), existing \ todo)'
        BY <2>1, <2>2, <2>6 DEF Enough
    <2> QED
        BY <2>1, <2>7, <2>8 DEF Before
<1>6. CASE Shrunk
    <2>1. UNCHANGED <<port, cfg, existing>> /\ pc = "shrink" /\ todo = {} /\ pc' = "record"
        BY <1>6 DEF Shrunk
    <2>2. Count - Cardinality(todo) = Count /\ existing \ todo = existing
        BY <1>1, <2>1, FS_EmptySet
    <2> QED
        BY <2>1, <2>2 DEF Enough, Count, Before
<1>7. CASE RaiseForGrowth
    <2>1. /\ UNCHANGED <<owner, cfg, existing, fresh>> /\ pc = "count" /\ Count < cfg.want
          /\ pc' = "idle" \/ (pc' = "grow" /\ cfg.want >= Usage /\ quota' = cfg.want)
        BY <1>7 DEF RaiseForGrowth
    <2>2. fresh = {} /\ Cardinality(fresh) = 0
        BY <2>1, FS_EmptySet DEF PlaceInv
    <2>3. Usage' = Usage
        BY <2>1, PresentStays DEF Usage, Ours
    <2> QED
        BY <1>1, <2>1, <2>2, <2>3 DEF Count, Before
<1>8. ASSUME NEW a \in Address, Grow(a) PROVE CountInv'
    <2>1. /\ UNCHANGED <<cfg, existing, pc>> /\ pc = "grow" /\ fresh' = fresh \cup {<<a, id[a] + 1>>}
          /\ Count + Cardinality(fresh) < cfg.want
        BY <1>8 DEF Grow
    <2>2. Cardinality(fresh) \in Nat /\ Cardinality(fresh') \in {Cardinality(fresh), Cardinality(fresh) + 1}
        BY <2>1, FS_AddElement, FS_CardinalityType DEF FiniteInv
    <2>3. Usage' <= quota' /\ quota' = quota
        BY <1>8, UsageGrows DEF Grow, Allocate
    <2> QED
        BY <1>1, <2>1, <2>2, <2>3 DEF Count, Before
<1>9. CASE GrowFails
    BY <1>9 DEF GrowFails, Before
<1>10. CASE Grown
    <2>1. /\ UNCHANGED <<port, cfg>> /\ pc = "grow" /\ pc' = "record" /\ existing' = existing \cup fresh
          /\ Count + Cardinality(fresh) >= cfg.want
        BY <1>10 DEF Grown
    <2>2. Count' = Count + Cardinality(fresh) - Cardinality(existing \cap fresh)
        BY <2>1, FS_Union DEF Count, FiniteInv
    <2>3. Cardinality(existing \cap fresh) = 0 /\ Cardinality(fresh) \in Nat
        BY <2>1, FS_EmptySet, FS_CardinalityType DEF TruthInv, FiniteInv
    <2>4. Count' = cfg.want
        BY <1>1, <2>1, <2>2, <2>3
    <2> QED
        BY <1>1, <2>1, <2>4 DEF Enough, Before
<1>11. CASE Record
    <2>1. UNCHANGED <<port, cfg, existing>> /\ pc = "record" /\ pc' = "quota"
        BY <1>11 DEF Record
    <2> QED
        BY <2>1 DEF Enough, Count, Before
<1>12. CASE SetQuota
    <2>1. /\ UNCHANGED <<owner, id, port, cfg, existing>> /\ pc = "quota" /\ pc' = "done"
          /\ quota' = Larger(Larger(cfg.want, Count), Usage)
        BY <1>12 DEF SetQuota, FittingQuota
    <2>2. Present' = existing /\ Usage' = Usage /\ Present = existing /\ Count <= Usage
        BY <2>1, PresentStays, PresentCount DEF TruthInv, Count
    <2>3. quota' = Larger(cfg.want, Usage)
        BY <1>1, <2>1, <2>2 DEF Larger
    <2> QED
        BY <2>1, <2>2, <2>3 DEF Enough, Count, Before
<1>13. ASSUME NEW a \in Address, GrowUnheard(a) PROVE CountInv'
    <2>1. UNCHANGED <<cfg, existing, pc, fresh>> /\ pc = "grow"
        BY <1>13 DEF GrowUnheard
    <2>2. Usage' <= quota' /\ quota' = quota
        BY <1>13, UsageGrows DEF GrowUnheard, Allocate
    <2> QED
        BY <2>1, <2>2 DEF Count, Before
<1> QED
    BY <1>2, <1>3, <1>4, <1>5, <1>6, <1>7, <1>8, <1>9, <1>10, <1>11, <1>12, <1>13

\* What it listed without a port stays what no port uses, up to the choice.
LEMMA IdleStep ==
    ASSUME TypeOK, CountInv,
           Load \/ List \/ Drift \/ RaiseForReclaim \/ ReclaimElsewhere \/ Reclaimed
              \/ (\E e \in todo : ReclaimEntry(e)) \/ PersistDrift \/ ReconcileReleased
    PROVE  CountInv'
<1> USE DEF Before, cloudVars, fileVars, runVars, histVars
<1>1. pc' \in {"idle", "list", "drift", "raise", "reclaim", "persist", "released", "relist", "count"}
    BY DEF Load, List, Drift, RaiseForReclaim, ReclaimElsewhere, Reclaimed, ReclaimEntry, PersistDrift,
           ReconcileReleased
<1>2. CASE Load
    BY <1>2 DEF Load, CountInv
<1>3. CASE List
    <2>1. /\ existing' = Entries(Ours \cap cfg.pool) /\ portless' = Entries((Ours \cap cfg.pool) \ port)
          /\ port' = port
        BY <1>3 DEF List
    <2>2. Unused' = Idle'
        BY <2>1 DEF Unused, Idle, Entries
    <2> QED
        BY <1>1, <2>2 DEF CountInv
<1>4. CASE Drift \/ RaiseForReclaim \/ ReclaimElsewhere \/ Reclaimed \/ (\E e \in todo : ReclaimEntry(e))
              \/ PersistDrift \/ ReconcileReleased
    <2>1. UNCHANGED <<port, existing, portless>> /\ pc \in Before \ {"list"}
        BY <1>4 DEF Drift, RaiseForReclaim, ReclaimElsewhere, Reclaimed, ReclaimEntry, Allocate, PersistDrift,
                    ReconcileReleased
    <2>2. Unused' = Idle'
        BY <2>1 DEF CountInv, Unused, Idle
    <2> QED
        BY <1>1, <2>2 DEF CountInv
<1> QED
    BY <1>2, <1>3, <1>4

\* Every step keeps both, if users act between runs only.
LEMMA TruthStep ==
    ASSUME "users" \notin Faults
    PROVE  TypeOK /\ FiniteInv /\ PlaceInv /\ LivesInv /\ TruthInv /\ CountInv /\ [Next]_vars
               => TruthInv' /\ CountInv'
<1> SUFFICES ASSUME TypeOK, FiniteInv, PlaceInv, LivesInv, TruthInv, CountInv, [Next]_vars
             PROVE  TruthInv' /\ CountInv'
    OBVIOUS
<1> USE DEF cloudVars, fileVars, runVars, histVars
<1>1. CASE Skip \/ Load \/ List \/ Drift \/ RaiseForReclaim \/ ReclaimElsewhere \/ Reclaimed
              \/ (\E e \in todo : ReclaimEntry(e)) \/ PersistDrift \/ ReconcileReleased
    <2>1. TruthInv'
        BY <1>1, TruthDrift
    <2>2. CASE Skip
        <3>1. UNCHANGED vars
            BY <2>2 DEF Skip
        <3>2. Present' = Present /\ Usage' = Usage
            BY <3>1, PresentStays DEF vars
        <3> QED
            BY <2>1, <3>1, <3>2 DEF vars, CountInv, Enough, Count, Unused, Idle
    <2>3. CASE ~Skip
        BY <1>1, <2>1, <2>3, IdleStep
    <2> QED
        BY <2>1, <2>2, <2>3
<1>2. CASE MatchExactly \/ PersistMatch \/ ChooseExcess \/ (\E e \in todo : DeleteFip(e)) \/ Shrunk
              \/ RaiseForGrowth \/ (\E a \in Address : Grow(a) \/ GrowUnheard(a))
              \/ GrowFails \/ Grown \/ Record \/ SetQuota
    BY <1>2, TruthCount, CountStep
<1>3. CASE Crash \/ UserActs
    <2>1. pc' = "idle"
        BY <1>3 DEF Crash, UserActs, Happens, Rest
    <2> QED
        BY <2>1 DEF TruthInv, CountInv, Before
<1>4. CASE OthersAct \/ Edit \/ UNCHANGED vars
    <2>1. Ours' = Ours /\ UNCHANGED <<id, port, quota, tracked, runVars, echoed>>
        BY <1>4 DEF OthersAct, Edit, vars, Ours, TypeOK
    <2>2. Present' = Present /\ Usage' = Usage /\ Count' = Count /\ Unused' = Unused /\ Idle' = Idle
        BY <2>1 DEF Present, Entries, Usage, Count, Unused, Idle
    <2>3. pc' = pc \/ pc' = "idle"
        BY <1>4 DEF OthersAct, Edit, Happens, vars
    <2>4. TruthInv'
        BY <2>1, <2>2, <2>3 DEF TruthInv
    <2>5. CountInv'
        BY <2>1, <2>2, <2>3 DEF CountInv, Enough, Before
    <2> QED
        BY <2>4, <2>5
<1> QED
    BY <1>1, <1>2, <1>3, <1>4 DEF Next, Step

\* Both hold.
LEMMA TruthHolds ==
    ASSUME "users" \notin Faults
    PROVE  Spec => [](TruthInv /\ CountInv)
<1>1. Init => TruthInv /\ CountInv
    BY DEF Init, TruthInv, CountInv, Before
<1> QED
    BY <1>1, TruthStep, PlaceHolds, LivesHold, TypesHold, PTL DEF Spec

\* While users leave its runs alone, a completed run leaves a list that says
\* what exists on the project's network.  If the count was right from the start
\* and changes are not tracked, the list may be empty, or lack what a reclaim
\* got without hearing of it (resources/prealloc/fip.py,
\* ensure_preallocated_fips, _reclaim_floating_ip).
THEOREM ListIsRight ==
    ASSUME "users" \notin Faults
    PROVE  Spec => []ListIsTrue
<1>1. TruthInv => ListIsTrue
    BY DEF TruthInv, Present, ListIsTrue
<1> QED
    BY <1>1, TruthHolds, PTL

\* It leaves the project as many floating IPs as are wanted, more only if all
\* are in use, and the quota that just holds what the project has; of -1 it
\* makes that only what is in use stays (ensure_preallocated_fips).
THEOREM CountIsKept ==
    ASSUME "users" \notin Faults
    PROVE  Spec => []CountIsRight
<1>1. TypeOK /\ CountInv => CountIsRight
    <2> SUFFICES ASSUME TypeOK, CountInv, pc = "done" PROVE CountIsRight
        BY DEF CountIsRight
    <2>1. Cardinality(Present) = Cardinality(Ours \cap cfg.pool)
        BY PresentCount
    <2>2. ASSUME NEW a \in Ours \cap cfg.pool, \A e \in Present : e[1] \in port PROVE a \in port
        <3>1. <<a, id[a]>> \in Present
            BY DEF Present, Entries
        <3> QED
            BY <2>2, <3>1
    <2> QED
        BY <2>1, <2>2 DEF CountInv, Enough, CountIsRight
<1> QED
    BY <1>1, TruthHolds, TypeCorrect, PTL

-----------------------------------------------------------------------------
(* Runs that users do disturb.  A floating IP that was listed without a    *)
(* port, is still the same and has one now was given it by users since.    *)

JoinedInv ==
    /\ pc \notin Rest \cup {"list"} => \A e \in portless : Live(e) /\ e[1] \in port => e[1] \in joined
    /\ pc = "shrink" => todo \subseteq portless

\* A port that appears during a run is one that users made.
LEMMA PortsAreJoined ==
    ASSUME TypeOK, [Next]_vars, pc \notin Rest \cup {"list"}, ~List
    PROVE  joined \subseteq joined' /\ port' \subseteq port \cup joined'
<1> USE DEF cloudVars, fileVars, runVars, histVars, Rest
<1>1. CASE \E e \in todo : ReclaimEntry(e) \/ DeleteFip(e)
    BY <1>1 DEF ReclaimEntry, DeleteFip, Allocate, Free
<1>2. CASE \E a \in Address : Grow(a) \/ GrowUnheard(a)
    BY <1>2 DEF Grow, GrowUnheard, Allocate
<1>3. CASE UserActs
    BY <1>3 DEF UserActs, Free, Allocate
<1>4. CASE Crash \/ OthersAct \/ Edit \/ UNCHANGED vars
    BY <1>4 DEF Crash, OthersAct, Edit, vars
<1>5. CASE Skip \/ Load \/ Drift \/ RaiseForReclaim \/ ReclaimElsewhere \/ Reclaimed \/ PersistDrift
              \/ ReconcileReleased \/ MatchExactly \/ PersistMatch \/ ChooseExcess \/ Shrunk
              \/ RaiseForGrowth \/ GrowFails \/ Grown \/ Record \/ SetQuota
    BY <1>5
    DEF Skip, Load, Drift, RaiseForReclaim, ReclaimElsewhere, Reclaimed, PersistDrift, ReconcileReleased,
        MatchExactly, PersistMatch, ChooseExcess, Shrunk, RaiseForGrowth, GrowFails, Grown, Record, SetQuota
<1> QED
    BY <1>1, <1>2, <1>3, <1>4, <1>5 DEF Next, Step

\* During a run only a listing changes what was listed without a port, and what
\* is to be deleted was chosen from it.
LEMMA ChosenStep ==
    ASSUME TypeOK, JoinedInv, [Next]_vars
    PROVE  /\ pc' \notin Rest \cup {"list"} /\ ~List => pc \notin Rest \cup {"list"} /\ portless' = portless
           /\ pc' = "shrink" => todo' \subseteq portless'
<1> USE DEF JoinedInv, cloudVars, fileVars, runVars, histVars, Rest
<1>1. CASE \E e \in todo : ReclaimEntry(e) \/ DeleteFip(e)
    BY <1>1 DEF ReclaimEntry, DeleteFip
<1>2. CASE \E a \in Address : Grow(a) \/ GrowUnheard(a)
    BY <1>2 DEF Grow, GrowUnheard
<1>3. CASE UserActs \/ OthersAct \/ Edit
    BY <1>3 DEF UserActs, OthersAct, Edit, Happens
<1>4. CASE Crash \/ Skip \/ UNCHANGED vars
    BY <1>4 DEF Crash, Skip, vars
<1>5. CASE Load \/ List \/ Drift \/ RaiseForReclaim \/ ReclaimElsewhere \/ Reclaimed \/ PersistDrift
              \/ ReconcileReleased
    BY <1>5
    DEF Load, List, Drift, RaiseForReclaim, ReclaimElsewhere, Reclaimed, PersistDrift, ReconcileReleased
<1>6. CASE MatchExactly \/ PersistMatch \/ ChooseExcess \/ Shrunk \/ RaiseForGrowth \/ GrowFails \/ Grown
              \/ Record \/ SetQuota
    BY <1>6
    DEF MatchExactly, PersistMatch, ChooseExcess, Unused, Shrunk, RaiseForGrowth, GrowFails, Grown, Record,
        SetQuota
<1> QED
    BY <1>1, <1>2, <1>3, <1>4, <1>5, <1>6 DEF Next, Step

\* Every step keeps JoinedInv.
LEMMA JoinedStep == TypeOK /\ FiniteInv /\ LivesInv /\ JoinedInv /\ [Next]_vars => JoinedInv'
<1> SUFFICES ASSUME TypeOK, FiniteInv, LivesInv, JoinedInv, [Next]_vars PROVE JoinedInv'
    OBVIOUS
<1>1. ASSUME pc' \notin Rest \cup {"list"}, NEW e \in portless', Live(e)', e[1] \in port' PROVE e[1] \in joined'
    <2>1. CASE List
        BY <1>1, <2>1 DEF List, Entries, cloudVars
    <2>2. CASE ~List
        <3>1. pc \notin Rest \cup {"list"} /\ e \in portless
            BY <1>1, <2>2, ChosenStep
        <3>2. e \in Entry /\ Born(e)
            BY <3>1 DEF TypeOK, LivesInv, BornInv, Listed
        <3>3. Live(e)
            BY <1>1, <3>2, DeadStays
        <3>4. joined \subseteq joined' /\ port' \subseteq port \cup joined'
            BY <2>2, <3>1, PortsAreJoined
        <3> QED
            BY <1>1, <3>1, <3>3, <3>4 DEF JoinedInv
    <2> QED
        BY <2>1, <2>2
<1> QED
    BY <1>1, ChosenStep DEF JoinedInv

\* Whatever fails and whoever acts, a run takes away an address in use only if
\* users put it to use after the run had listed it (resources/prealloc/fip.py,
\* _scale_down_fips): it goes by the port of the listing, and deletes by id.
THEOREM UsedStay == Spec => InUseStays
<1>1. Init => JoinedInv
    BY DEF Init, JoinedInv, Rest
<1>2. TypeOK /\ JoinedInv /\ [Next]_vars =>
          [pc = "shrink" /\ todo' # todo => port \cap Ours \subseteq Ours' \cup joined]_vars
    <2> SUFFICES ASSUME TypeOK, JoinedInv, Next, pc = "shrink", todo' # todo
                 PROVE  port \cap Ours \subseteq Ours' \cup joined
        BY DEF vars, runVars
    <2>1. PICK e \in todo : DeleteFip(e)
        BY DEF Next, Step, Skip, vars, runVars, Load, List, Drift, RaiseForReclaim, ReclaimElsewhere, Reclaimed,
               ReclaimEntry, PersistDrift, ReconcileReleased, MatchExactly, PersistMatch, ChooseExcess, Shrunk,
               RaiseForGrowth, Grow, GrowUnheard, GrowFails, Grown, Record, SetQuota, Crash, UserActs, OthersAct,
               Edit, Rest
    <2>2. CASE Live(e)
        <3>1. Ours \subseteq Ours' \cup {e[1]}
            BY <2>1, <2>2 DEF DeleteFip, Free, Ours, TypeOK
        <3>2. e[1] \in port => e[1] \in joined
            BY <2>2 DEF JoinedInv, Rest
        <3> QED
            BY <3>1, <3>2
    <2>3. CASE ~Live(e)
        BY <2>1, <2>3 DEF DeleteFip, Ours, cloudVars
    <2> QED
        BY <2>2, <2>3
<1> QED
    BY <1>1, <1>2, JoinedStep, LivesHold, TypesHold, PTL DEF Spec, InUseStays

=============================================================================
