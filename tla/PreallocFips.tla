------------------------------ MODULE PreallocFips ------------------------------
(***************************************************************************)
(* The floating IPs a project is given in advance                          *)
(* (resources/prealloc/fip.py, ensure_preallocated_fips): what the state   *)
(* file tracks is compared with what exists, what drifted is adopted,      *)
(* reclaimed or recorded as released, and the count is brought to the      *)
(* configured one, with the quota around it.                               *)
(*                                                                         *)
(* Every API call and every write of the state file is a step.  A floating *)
(* IP is its address and its id: an address that is allocated again has    *)
(* another id, a number here.  An entry of the tracked list is such a      *)
(* pair; an entry of the released list is the address, its reason and time *)
(* decide nothing.                                                         *)
(***************************************************************************)
EXTENDS Integers, FiniteSets

CONSTANTS
    Here, There,    \* the addresses of two external networks
    MinWant,        \* the smallest and
    MaxWant,        \* the largest count the operator configures; -1 is "unlimited"
    Reclaim,        \* reclaim_floating_ips
    TrackChanges,   \* track_fip_changes
    Faults,         \* what may go wrong, see below
    MaxEvents       \* bound on the steps of the world outside and on faults

(* "crash"  a run dies, or a call fails after its retries, between two steps *)
(* "echo"   the answer to a creation is lost, and the call repeated         *)
(* "users"  users act during a run too, not only between runs               *)
(* "others" other projects take addresses and give them back                *)
(* "move"   the project is resolved to the other external network           *)
Fault == {"crash", "echo", "users", "others", "move"}

ASSUME AddressAssumption   == IsFiniteSet(Here \cup There)
ASSUME WantAssumption      == MinWant \in Nat \cup {-1} /\ MaxWant \in Nat
ASSUME SwitchAssumption    == Reclaim \in BOOLEAN /\ TrackChanges \in BOOLEAN
ASSUME FaultsAssumption    == Faults \subseteq Fault
ASSUME MaxEventsAssumption == MaxEvents \in Nat

Address == Here \cup There

VARIABLES
    (* the cloud *)
    owner,      \* who holds each address: "ours", "other" or nobody ("free")
    id,         \* the id of the project's latest floating IP on each address
    port,       \* addresses associated with a port of the project
    quota,      \* the project's quota of floating IPs
    (* the configuration *)
    want,       \* quotas.network.floating_ips
    pool,       \* addresses of the external network the project resolves to
    (* the state file *)
    tracked,    \* preallocated_fips
    released,   \* released_fips
    (* the run *)
    pc,
    cfg,        \* its load-time copy of the configuration and of both lists
    existing,   \* existing_fips: what it listed on that network
    portless,   \* what it listed without a port
    todo,       \* entries the current loop has still to visit
    fresh,      \* entries it reclaimed, or created
    lost,       \* newly_released
    (* history and bounds *)
    known,      \* addresses the list named while the project held them, but for those
                \* given up, or dropped by a run that died
    joined,     \* addresses users associated since the run last listed
    echoed,     \* entries the project got from a reclaim whose answer was lost
    events      \* events still allowed

cloudVars == <<owner, id, port, quota>>
fileVars  == <<tracked, released>>
runVars   == <<cfg, existing, portless, todo, fresh, lost>>
histVars  == <<joined, echoed>>
vars      == <<cloudVars, want, pool, fileVars, pc, runVars, histVars, known, events>>

Rest == {"idle", "done"}
PC   == Rest \cup {"list", "drift", "raise", "reclaim", "persist", "released", "relist",
                   "count", "match", "shrink", "grow", "record", "quota"}
Entry  == Address \X Nat
Counts == Nat \cup {-1}
Config == [want : Counts, pool : {Here, There}, tracked : SUBSET Entry, released : SUBSET Address]

TypeOK ==
    /\ owner \in [Address -> {"free", "ours", "other"}]
    /\ id \in [Address -> Nat]
    /\ port \subseteq Address
    /\ quota \in Nat /\ want \in Counts
    /\ pool \in {Here, There}
    /\ tracked \subseteq Entry
    /\ released \subseteq Address
    /\ pc \in PC
    /\ cfg \in Config
    /\ existing \subseteq Entry /\ portless \subseteq Entry /\ todo \subseteq Entry /\ fresh \subseteq Entry
    /\ lost \subseteq Address
    /\ known \subseteq Address /\ joined \subseteq Address /\ echoed \subseteq Entry
    /\ events \in 0..MaxEvents

Init ==
    /\ owner = [a \in Address |-> "free"]
    /\ id = [a \in Address |-> 0]
    /\ port = {}
    /\ quota = Cardinality(Address)
    /\ want \in MinWant..MaxWant
    /\ pool = Here
    /\ tracked = {} /\ released = {}
    /\ pc = "idle"
    /\ cfg = [want |-> 0, pool |-> Here, tracked |-> {}, released |-> {}]
    /\ existing = {} /\ portless = {} /\ todo = {} /\ fresh = {} /\ lost = {}
    /\ known = {} /\ joined = {} /\ echoed = {}
    /\ events = MaxEvents

-----------------------------------------------------------------------------
(* The cloud.                                                              *)

Ours         == {a \in Address : owner[a] = "ours"}
Usage        == Cardinality(Ours)
Entries(A)   == {<<a, id[a]>> : a \in A}
Addresses(E) == {e[1] : e \in E}
Live(e)      == owner[e[1]] = "ours" /\ id[e[1]] = e[2]
Larger(m, n) == IF m > n THEN m ELSE n

\* The project gets a free address, if its quota allows.
Allocatable(a) == owner[a] = "free" /\ Usage < quota

Allocate(a) ==
    /\ owner' = [owner EXCEPT ![a] = "ours"]
    /\ id'    = [id EXCEPT ![a] = @ + 1]
    /\ UNCHANGED <<port, quota>>

Free(a) ==
    /\ owner' = [owner EXCEPT ![a] = "free"]
    /\ port'  = port \ {a}
    /\ UNCHANGED <<id, quota>>

\* Slips of FittingQuota: the difference is set; a refusal is ignored.
QuotaByDifference(n) == quota' = n - Usage
QuotaIfAccepted(n)   == quota' = IF n >= Usage THEN n ELSE quota

\* Neutron refuses a quota below what is in use; the last quota call of a run
\* then falls back to that, an earlier one raises.
FittingQuota(n) == quota' = Larger(n, Usage)

-----------------------------------------------------------------------------
(* The run: what exists, and what drifted.                                 *)

\* Nothing is done for a project that wants no floating IPs.
Skip ==
    /\ pc \in Rest
    /\ want = 0
    /\ UNCHANGED vars

Load ==
    /\ pc \in Rest
    /\ want # 0
    /\ cfg' = [want |-> want, pool |-> pool, tracked |-> tracked, released |-> released]
    /\ existing' = {} /\ portless' = {} /\ todo' = {} /\ fresh' = {} /\ lost' = {}
    /\ joined' = {} /\ echoed' = {}
    /\ pc' = "list"
    /\ UNCHANGED <<cloudVars, want, pool, fileVars, known, events>>

\* Only what is on the project's own external network is managed.
List ==
    /\ pc \in {"list", "relist"}
    /\ existing' = Entries(Ours \cap cfg.pool)
    /\ portless' = Entries((Ours \cap cfg.pool) \ port)
    /\ joined' = {}
    /\ pc' = IF pc = "list" /\ cfg.tracked # {} THEN "drift" ELSE "count"
    /\ UNCHANGED <<cloudVars, want, pool, fileVars, cfg, todo, fresh, lost, echoed, known, events>>

\* _detect_fip_drift.
Missing   == cfg.tracked \ existing
Untracked == existing \ cfg.tracked

\* A write of the tracked list.
Track(E) == tracked' = E /\ known' = known \cup Addresses({e \in E : Live(e)})

\* What is untracked is adopted and persisted at once.
Drift ==
    /\ pc = "drift"
    /\ IF Untracked # {} THEN Track(cfg.tracked \cup Untracked) ELSE UNCHANGED <<tracked, known>>
    /\ todo' = IF Reclaim THEN Missing ELSE {}
    /\ lost' = IF Reclaim THEN {} ELSE Addresses(Missing)
    /\ pc' = CASE Missing = {} -> "released"
               [] Missing # {} /\ Reclaim -> "raise"
               [] OTHER -> "persist"
    /\ UNCHANGED <<cloudVars, want, pool, released, cfg, existing, portless, fresh, histVars, events>>

RaiseForReclaim ==
    /\ pc = "raise"
    /\ LET n == cfg.want + Cardinality(Missing) IN
          IF n >= Usage THEN quota' = n /\ pc' = "reclaim"
                        ELSE pc' = "idle" /\ UNCHANGED quota
    /\ UNCHANGED <<owner, id, port, want, pool, fileVars, runVars, histVars, known, events>>

\* The same address under a new id; a conflict, whatever it is about, is taken
\* for the address being somebody else's.  When the answer is lost the repeated
\* call meets the conflict that the first one made.
ReclaimEntry(e) ==
    /\ pc = "reclaim"
    /\ e \in todo
    /\ e[1] \in cfg.pool
    /\ todo' = todo \ {e}
    /\ \/ /\ Allocatable(e[1])
          /\ Allocate(e[1])
          /\ fresh' = fresh \cup {<<e[1], id[e[1]] + 1>>}
          /\ UNCHANGED <<lost, echoed, events>>
       \/ /\ ~Allocatable(e[1])
          /\ lost' = lost \cup {e[1]}
          /\ UNCHANGED <<cloudVars, fresh, echoed, events>>
       \/ /\ "echo" \in Faults /\ events > 0 /\ events' = events - 1
          /\ Allocatable(e[1])
          /\ Allocate(e[1])
          /\ echoed' = echoed \cup {<<e[1], id[e[1]] + 1>>}
          /\ lost' = lost \cup {e[1]}
          /\ UNCHANGED fresh
    /\ UNCHANGED <<want, pool, fileVars, pc, cfg, existing, portless, joined, known>>

\* An address the network does not have is a bad request, and raises.
ReclaimElsewhere ==
    /\ pc = "reclaim"
    /\ \E e \in todo : e[1] \notin cfg.pool
    /\ pc' = "idle"
    /\ UNCHANGED <<cloudVars, want, pool, fileVars, runVars, histVars, known, events>>

Reclaimed ==
    /\ pc = "reclaim"
    /\ todo = {}
    /\ pc' = "persist"
    /\ UNCHANGED <<cloudVars, want, pool, fileVars, runVars, histVars, known, events>>

\* updated_locked: what survived, what was reclaimed and what was adopted.
Reconciled == (cfg.tracked \ Missing) \cup fresh \cup Untracked

PersistDrift ==
    /\ pc = "persist"
    /\ Track(Reconciled)
    /\ pc' = "released"
    /\ UNCHANGED <<cloudVars, want, pool, released, runVars, histVars, events>>

\* A slip of AllReleased: the list only grows.
AppendedReleased(active) == cfg.released \cup lost

\* A slip of AllReleased: the new releases replace the list.
ReleasedAnew(active) == lost \ Addresses(active)

\* The load-time list and the new releases, without what is active.
AllReleased(active) == (cfg.released \cup lost) \ Addresses(active)

\* _reconcile_released_fips, then a second listing if anything drifted.
ReconcileReleased ==
    /\ pc = "released"
    /\ released' = AllReleased(Reconciled)
    /\ pc' = IF Missing = {} /\ Untracked = {} THEN "count" ELSE "relist"
    /\ fresh' = {} /\ lost' = {}
    /\ UNCHANGED <<cloudVars, want, pool, tracked, cfg, existing, portless, todo, histVars, known, events>>

-----------------------------------------------------------------------------
(* The run: the count.                                                     *)

Count == Cardinality(existing)

\* A slip of MatchExactly: the list is never written.
MatchSilently ==
    /\ pc = "count"
    /\ Count = cfg.want
    /\ FittingQuota(cfg.want)
    /\ pc' = "done"
    /\ UNCHANGED <<owner, id, port, want, pool, fileVars, runVars, histVars, known, events>>

\* The count is right: the quota is set, and the list is written only when
\* changes are tracked.
MatchExactly ==
    /\ pc = "count"
    /\ Count = cfg.want
    /\ FittingQuota(cfg.want)
    /\ pc' = IF TrackChanges /\ cfg.tracked # existing THEN "match" ELSE "done"
    /\ UNCHANGED <<owner, id, port, want, pool, fileVars, runVars, histVars, known, events>>

PersistMatch ==
    /\ pc = "match"
    /\ Track(existing)
    /\ pc' = "done"
    /\ UNCHANGED <<cloudVars, want, pool, released, runVars, histVars, events>>

\* A slip of Unused: an association does not protect.
AnyListed == existing

\* What was listed without a port, whatever users have done with it since.
Unused == existing \cap portless

\* Too many: as many of the unused ones as are in excess are to go.
ChooseExcess ==
    /\ pc = "count"
    /\ Count > cfg.want
    /\ \E E \in SUBSET Unused :
          /\ Cardinality(E) = (IF Cardinality(Unused) < Count - cfg.want
                               THEN Cardinality(Unused) ELSE Count - cfg.want)
          /\ todo' = E
    /\ pc' = "shrink"
    /\ UNCHANGED <<cloudVars, want, pool, fileVars, cfg, existing, portless, fresh, lost, histVars, known,
                   events>>

\* The floating IP is deleted by its id, whatever became of it since; one that
\* is gone is no error.
DeleteFip(e) ==
    /\ pc = "shrink"
    /\ e \in todo
    /\ todo' = todo \ {e}
    /\ existing' = existing \ {e}
    /\ IF Live(e) THEN Free(e[1]) ELSE UNCHANGED cloudVars
    /\ known' = known \ {e[1]}
    /\ UNCHANGED <<want, pool, fileVars, pc, cfg, portless, fresh, lost, histVars, events>>

Shrunk ==
    /\ pc = "shrink"
    /\ todo = {}
    /\ pc' = "record"
    /\ UNCHANGED <<cloudVars, want, pool, fileVars, runVars, histVars, known, events>>

\* A slip of RaiseForGrowth: the quota is left to the end.
GrowAtOnce ==
    /\ pc = "count"
    /\ Count < cfg.want
    /\ pc' = "grow"
    /\ UNCHANGED <<cloudVars, want, pool, fileVars, runVars, histVars, known, events>>

\* Too few: the quota makes room.
RaiseForGrowth ==
    /\ pc = "count"
    /\ Count < cfg.want
    /\ IF cfg.want >= Usage THEN quota' = cfg.want /\ pc' = "grow"
                            ELSE pc' = "idle" /\ UNCHANGED quota
    /\ UNCHANGED <<owner, id, port, want, pool, fileVars, runVars, histVars, known, events>>

Grow(a) ==
    /\ pc = "grow"
    /\ Count + Cardinality(fresh) < cfg.want
    /\ a \in cfg.pool
    /\ Allocatable(a)
    /\ Allocate(a)
    /\ fresh' = fresh \cup {<<a, id[a] + 1>>}
    /\ UNCHANGED <<want, pool, fileVars, pc, cfg, existing, portless, todo, lost, histVars, known, events>>

\* The answer is lost: the project keeps an address the run does not know of,
\* and the repeated call asks for another one.
GrowUnheard(a) ==
    /\ "echo" \in Faults /\ events > 0 /\ events' = events - 1
    /\ pc = "grow"
    /\ Count + Cardinality(fresh) < cfg.want
    /\ a \in cfg.pool
    /\ Allocatable(a)
    /\ Allocate(a)
    /\ UNCHANGED <<want, pool, fileVars, pc, runVars, histVars, known>>

\* No address or no quota left: the creation raises.
GrowFails ==
    /\ pc = "grow"
    /\ Count + Cardinality(fresh) < cfg.want
    /\ \A a \in cfg.pool : ~Allocatable(a)
    /\ pc' = "idle"
    /\ UNCHANGED <<cloudVars, want, pool, fileVars, runVars, histVars, known, events>>

Grown ==
    /\ pc = "grow"
    /\ Count + Cardinality(fresh) >= cfg.want
    /\ existing' = existing \cup fresh
    /\ pc' = "record"
    /\ UNCHANGED <<cloudVars, want, pool, fileVars, cfg, portless, todo, fresh, lost, histVars, known, events>>

\* A slip of Record: the list is written before the loop that changes it.
RecordLoaded ==
    /\ pc = "record"
    /\ Track(existing \ fresh)
    /\ pc' = "quota"
    /\ UNCHANGED <<cloudVars, want, pool, released, runVars, histVars, events>>

\* Only now is the list written.
Record ==
    /\ pc = "record"
    /\ Track(existing)
    /\ pc' = "quota"
    /\ UNCHANGED <<cloudVars, want, pool, released, runVars, histVars, events>>

SetQuota ==
    /\ pc = "quota"
    /\ FittingQuota(Larger(cfg.want, Count))
    /\ pc' = "done"
    /\ UNCHANGED <<owner, id, port, want, pool, fileVars, runVars, histVars, known, events>>

Step ==
    \/ Skip \/ Load \/ List
    \/ Drift \/ RaiseForReclaim \/ ReclaimElsewhere \/ Reclaimed
    \/ \E e \in todo : ReclaimEntry(e) \/ DeleteFip(e)
    \/ PersistDrift \/ ReconcileReleased
    \/ MatchExactly \/ PersistMatch
    \/ ChooseExcess \/ Shrunk
    \/ RaiseForGrowth \/ GrowFails \/ Grown
    \/ \E a \in Address : Grow(a) \/ GrowUnheard(a)
    \/ Record \/ SetQuota

-----------------------------------------------------------------------------
(* The world outside.                                                      *)

\* An event happens: it is counted, and ends the rest after a completed run.
Happens ==
    /\ events > 0
    /\ events' = events - 1
    /\ pc' = IF pc = "done" THEN "idle" ELSE pc

\* A run dies, or an exception ends it.  Between the two writes of the drift
\* handler that drops what was missing from both lists.
Crash ==
    /\ "crash" \in Faults
    /\ pc \notin Rest
    /\ events > 0 /\ events' = events - 1
    /\ pc' = "idle"
    /\ known' = IF pc = "released" THEN known \ (lost \ Addresses(tracked)) ELSE known
    /\ UNCHANGED <<cloudVars, want, pool, fileVars, runVars, histVars>>

\* Users delete, create, associate and disassociate floating IPs.
UserActs ==
    /\ pc \in Rest \/ "users" \in Faults
    /\ Happens
    /\ \E a \in Address :
          \/ /\ a \in Ours /\ Free(a)
             /\ known' = IF pc \in Rest THEN known ELSE known \ {a}
             /\ UNCHANGED joined
          \/ /\ Allocatable(a) /\ Allocate(a)
             /\ UNCHANGED <<known, joined>>
          \/ /\ a \in Ours \ port /\ port' = port \cup {a}
             /\ joined' = IF pc \in Rest THEN joined ELSE joined \cup {a}
             /\ UNCHANGED <<owner, id, quota, known>>
          \/ /\ a \in Ours \cap port /\ port' = port \ {a}
             /\ UNCHANGED <<owner, id, quota, known, joined>>
    /\ UNCHANGED <<want, pool, fileVars, runVars, echoed>>

OthersAct ==
    /\ "others" \in Faults
    /\ Happens
    /\ \E a \in Address \ Ours :
          owner' = [owner EXCEPT ![a] = IF @ = "free" THEN "other" ELSE "free"]
    /\ UNCHANGED <<id, port, quota, want, pool, fileVars, runVars, histVars, known>>

\* The operator edits the count, or moves the project to another network.
Edit ==
    /\ Happens
    /\ \/ want' \in MinWant..MaxWant \ {want} /\ UNCHANGED pool
       \/ "move" \in Faults /\ pool' \in {Here, There} \ {pool} /\ UNCHANGED want
    /\ UNCHANGED <<cloudVars, fileVars, runVars, histVars, known>>

Next == Step \/ Crash \/ UserActs \/ OthersAct \/ Edit

Spec == Init /\ [][Next]_vars

\* The tool runs on a cadence.
FairSpec == Spec /\ WF_vars(Step)

-----------------------------------------------------------------------------
(* Properties.                                                             *)

Active == Addresses(tracked)

\* An entry that a whole run has carried over is not also released, and an
\* address the list named while the project held it is active or released,
\* unless the tool gave it up, users did under the hands of a run, or a run
\* died between the two writes.
ListsAccount ==
    pc = "done" => /\ \A e \in tracked \cap cfg.tracked : e[1] \notin released
                   /\ known \subseteq Active \cup released

\* After a completed run the list says what exists, unless the count was right
\* and changes are not tracked: then what a reclaim got without hearing of it is
\* not listed, or nothing ever was.
ListIsTrue ==
    pc = "done" => LET E == Entries(Ours \cap cfg.pool) IN
                      \/ tracked = E
                      \/ ~TrackChanges /\ tracked \in {{}, E \ echoed}

\* An address in use is taken away only if users put it to use after the run
\* had listed it.
InUseStays ==
    [][pc = "shrink" /\ todo' # todo => port \cap Ours \subseteq Ours' \cup joined]_vars

\* A completed run leaves the project at least what it wants, no more than
\* that unless the rest is in use, and a quota of just what it has.  A project
\* that wants -1 so keeps what is in use, and may get no more.
CountIsRight ==
    pc = "done" =>
        LET A == Ours \cap cfg.pool IN
        /\ Cardinality(A) >= cfg.want
        /\ Cardinality(A) > cfg.want => A \subseteq port
        /\ quota = Larger(cfg.want, Usage)

\* Once nothing changes any more the project has what it wants.
EventuallyAllocated ==
    <>[](want > 0 => Cardinality(Ours \cap pool) >= want \/ \E a \in pool : owner[a] = "other")

\* Once nothing changes any more the list says what exists.
EventuallyTracked == <>[](want # 0 => tracked = Entries(Ours \cap pool))

\* A floating IP that a completed run had on its list when it began, and that
\* still exists, is not recorded as released.
ReleasedIsGone == pc = "done" => \A e \in cfg.tracked : Live(e) => e[1] \notin released

=============================================================================
