------------------------------ MODULE Reservations ------------------------------
(***************************************************************************)
(* Time-limited access of ONE project to private flavors                   *)
(* (resources/reservations.py).  A run loads its configuration, which      *)
(* carries a snapshot of the two observed lists of the state file, then    *)
(* grants what the active reservations cover, verifies what is already     *)
(* tracked, revokes what is tracked and no longer covered, and writes both *)
(* lists back.  Every API call and every write of the state file is a step *)
(* of its own, so that an operator, a second run, an exception or a crash  *)
(* can come between any two of them.                                       *)
(*                                                                         *)
(* A list of entries is abstracted to the set of flavors it names: the     *)
(* names, timestamps and reasons of an entry decide nothing.               *)
(***************************************************************************)
EXTENDS Naturals, FiniteSets

CONSTANTS
    Flavor,         \* ids of the private flavors the cloud may hold
    Run,            \* invocations of the tool that may be active
    Overlap,        \* may two invocations be active at the same time?
    MaxEvents       \* bound on events outside a run: operator, crash, API failure

ASSUME OverlapAssumption == Overlap \in BOOLEAN
ASSUME MaxEventsAssumption == MaxEvents \in Nat

VARIABLES
    (* the cloud *)
    private,    \* private flavors that exist
    access,     \* flavor -> who created the project's access entry, or "none"
    (* the configuration and the clock *)
    state,      \* effective state of the project
    plan,       \* flavors matched by the entries whose period is active now
    (* the state file *)
    tracked,    \* granted_flavor_access
    revoked,    \* revoked_flavor_access
    (* the runs *)
    pc,         \* where each run stands
    snapT,      \* its load-time copy of granted_flavor_access
    snapR,      \* its load-time copy of revoked_flavor_access
    cache,      \* the run-wide private flavor list, when already fetched
    want,       \* desired: the flavors this run wants granted
    todo,       \* flavors the current loop has still to visit
    cur,        \* the flavor whose access list was just read, or none
    newG,       \* new_grants
    (* history and bounds *)
    contested,  \* manual grants made on a flavor that was already claimed
    orphans,    \* grants of a run that ended before it could record them
    events      \* events still allowed

cloud    == <<private, access>>
config   == <<state, plan>>
file     == <<tracked, revoked>>
local    == <<snapT, snapR, cache, want, todo, cur, newG>>
history  == <<contested, orphans, events>>
vars     == <<cloud, config, file, pc, local, history>>

Owner  == {"none", "manual", "tool"}
Phase  == {"idle", "loaded", "cached", "grant", "asked", "verify", "missing",
           "revoke", "audit", "done", "failed"}
Ended  == {"idle", "done", "failed"}
Active == {r \in Run : pc[r] \notin Ended}

TypeOK ==
    /\ private \subseteq Flavor
    /\ access \in [Flavor -> Owner]
    /\ state \in {"present", "locked", "absent"}
    /\ plan \subseteq Flavor
    /\ tracked \subseteq Flavor
    /\ revoked \subseteq Flavor
    /\ pc \in [Run -> Phase]
    /\ snapT \in [Run -> SUBSET Flavor]
    /\ snapR \in [Run -> SUBSET Flavor]
    /\ cache \in [Run -> SUBSET Flavor]
    /\ want \in [Run -> SUBSET Flavor]
    /\ todo \in [Run -> SUBSET Flavor]
    /\ cur \in [Run -> SUBSET Flavor]
    /\ newG \in [Run -> SUBSET Flavor]
    /\ contested \subseteq Flavor
    /\ orphans \subseteq Flavor
    /\ events \in 0..MaxEvents

Nothing == [r \in Run |-> {}]

Init ==
    /\ private = Flavor
    /\ access \in [Flavor -> {"none", "manual"}]
    /\ state = "present"
    /\ plan \in SUBSET Flavor
    /\ tracked = {}
    /\ revoked = {}
    /\ pc = [r \in Run |-> "idle"]
    /\ snapT = Nothing /\ snapR = Nothing /\ cache = Nothing /\ want = Nothing
    /\ todo = Nothing /\ cur = Nothing /\ newG = Nothing
    /\ contested = {}
    /\ orphans = {}
    /\ events = MaxEvents

-----------------------------------------------------------------------------
(* Loading.                                                                *)

\* The project's observed lists are merged into its frozen configuration
\* once, when the configuration is loaded: the run never reads them again.
Load(r) ==
    /\ pc[r] \in Ended
    /\ Overlap \/ Active = {}
    /\ pc'    = [pc EXCEPT ![r] = "loaded"]
    /\ snapT' = [snapT EXCEPT ![r] = tracked]
    /\ snapR' = [snapR EXCEPT ![r] = revoked]
    /\ UNCHANGED <<cloud, config, file, cache, want, todo, cur, newG, history>>

\* The private flavor list is fetched once per run: an earlier project of
\* the same run may already have filled it.
CacheFlavors(r) ==
    /\ pc[r] = "loaded"
    /\ pc'    = [pc EXCEPT ![r] = "cached"]
    /\ cache' = [cache EXCEPT ![r] = private]
    /\ UNCHANGED <<cloud, config, file, snapT, snapR, want, todo, cur, newG, history>>

-----------------------------------------------------------------------------
(* ensure_reservations: the diff.                                          *)

PrivateFlavors(r) == IF pc[r] = "cached" THEN cache[r] ELSE private

\* The clock is read now; a flavor is wanted when an active entry matches it
\* and the (possibly cached) list holds it.
DesiredGrants(r) == plan \cap PrivateFlavors(r)

Diff(r) ==
    /\ pc[r] \in {"loaded", "cached"}
    /\ state = "present"
    /\ want' = [want EXCEPT ![r] = DesiredGrants(r)]
    /\ todo' = [todo EXCEPT ![r] = DesiredGrants(r) \ snapT[r]]
    /\ pc'   = [pc EXCEPT ![r] = "grant"]
    /\ UNCHANGED <<cloud, config, file, snapT, snapR, cache, cur, newG, history>>

-----------------------------------------------------------------------------
(* ensure_reservations: grant missing access.                              *)

\* A slip of SkipManual: pre-existing access is tracked like a grant.
TrackManual(r, f) ==
    /\ pc[r] = "grant"
    /\ f \in todo[r] \cap private
    /\ access[f] # "none"
    /\ todo' = [todo EXCEPT ![r] = @ \ {f}]
    /\ newG' = [newG EXCEPT ![r] = @ \cup {f}]
    /\ UNCHANGED <<cloud, config, file, pc, snapT, snapR, cache, want, cur, history>>

\* Access that existed before the tool did anything is a manual grant: it is
\* left alone and not tracked.
SkipManual(r, f) ==
    /\ pc[r] = "grant"
    /\ f \in todo[r] \cap private
    /\ access[f] # "none"
    /\ todo' = [todo EXCEPT ![r] = @ \ {f}]
    /\ UNCHANGED <<cloud, config, file, pc, snapT, snapR, cache, want, cur, newG, history>>

CheckAccess(r, f) ==
    /\ pc[r] = "grant"
    /\ f \in todo[r] \cap private
    /\ access[f] = "none"
    /\ todo' = [todo EXCEPT ![r] = @ \ {f}]
    /\ cur'  = [cur EXCEPT ![r] = {f}]
    /\ pc'   = [pc EXCEPT ![r] = "asked"]
    /\ UNCHANGED <<cloud, config, file, snapT, snapR, cache, want, newG, history>>

\* A conflict after a clean pre-check is tracked like a grant of our own.
GrantAccess(r) ==
    /\ pc[r] = "asked"
    /\ cur[r] \subseteq private
    /\ access' = [f \in Flavor |-> IF f \in cur[r] /\ access[f] = "none"
                                   THEN "tool" ELSE access[f]]
    /\ newG'   = [newG EXCEPT ![r] = @ \cup cur[r]]
    /\ cur'    = [cur EXCEPT ![r] = {}]
    /\ pc'     = [pc EXCEPT ![r] = "grant"]
    /\ UNCHANGED <<private, config, file, snapT, snapR, cache, want, todo, history>>

\* A slip of PersistGrants: the write is left to the end of the run.
PersistGrantsLate(r) ==
    /\ pc[r] = "grant"
    /\ todo[r] = {}
    /\ todo'    = [todo EXCEPT ![r] = snapT[r] \cap want[r]]
    /\ pc'      = [pc EXCEPT ![r] = "verify"]
    /\ UNCHANGED <<cloud, config, file, snapT, snapR, cache, want, cur, newG, history>>

\* New grants are written before anything else is called.
PersistGrants(r) ==
    /\ pc[r] = "grant"
    /\ todo[r] = {}
    /\ tracked' = IF newG[r] # {} THEN snapT[r] \cup newG[r] ELSE tracked
    /\ todo'    = [todo EXCEPT ![r] = snapT[r] \cap want[r]]
    /\ pc'      = [pc EXCEPT ![r] = "verify"]
    /\ UNCHANGED <<cloud, config, revoked, snapT, snapR, cache, want, cur, newG, history>>

-----------------------------------------------------------------------------
(* ensure_reservations: verify covered grants.                             *)

VerifyHeld(r, f) ==
    /\ pc[r] = "verify"
    /\ f \in todo[r] \cap private
    /\ access[f] # "none"
    /\ todo' = [todo EXCEPT ![r] = @ \ {f}]
    /\ UNCHANGED <<cloud, config, file, pc, snapT, snapR, cache, want, cur, newG, history>>

\* A slip of VerifyMissing: drift is noticed and not healed.
VerifyIgnored(r, f) ==
    /\ pc[r] = "verify"
    /\ f \in todo[r] \cap private
    /\ access[f] = "none"
    /\ todo' = [todo EXCEPT ![r] = @ \ {f}]
    /\ UNCHANGED <<cloud, config, file, pc, snapT, snapR, cache, want, cur, newG, history>>

VerifyMissing(r, f) ==
    /\ pc[r] = "verify"
    /\ f \in todo[r] \cap private
    /\ access[f] = "none"
    /\ todo' = [todo EXCEPT ![r] = @ \ {f}]
    /\ cur'  = [cur EXCEPT ![r] = {f}]
    /\ pc'   = [pc EXCEPT ![r] = "missing"]
    /\ UNCHANGED <<cloud, config, file, snapT, snapR, cache, want, newG, history>>

\* Unlike GrantAccess this call does not tolerate a conflict.
Regrant(r) ==
    /\ pc[r] = "missing"
    /\ cur[r] \subseteq private
    /\ \A f \in cur[r] : access[f] = "none"
    /\ access' = [f \in Flavor |-> IF f \in cur[r] THEN "tool" ELSE access[f]]
    /\ cur'    = [cur EXCEPT ![r] = {}]
    /\ pc'     = [pc EXCEPT ![r] = "verify"]
    /\ UNCHANGED <<private, config, file, snapT, snapR, cache, want, todo, newG, history>>

VerifyDone(r) ==
    /\ pc[r] = "verify"
    /\ todo[r] = {}
    /\ todo' = [todo EXCEPT ![r] = snapT[r] \ want[r]]
    /\ pc'   = [pc EXCEPT ![r] = "revoke"]
    /\ UNCHANGED <<cloud, config, file, snapT, snapR, cache, want, cur, newG, history>>

-----------------------------------------------------------------------------
(* Revocation, shared by ensure_reservations and the teardown.             *)

\* Project teardown: every tracked grant goes, nothing is wanted.
RevokeAll(r) ==
    /\ pc[r] \in {"loaded", "cached"}
    /\ state = "absent"
    /\ snapT[r] # {}
    /\ todo' = [todo EXCEPT ![r] = snapT[r]]
    /\ pc'   = [pc EXCEPT ![r] = "revoke"]
    /\ UNCHANGED <<cloud, config, file, snapT, snapR, cache, want, cur, newG, history>>

\* An entry or a flavor that is already gone counts as revoked.
RevokeAccess(r, f) ==
    /\ pc[r] = "revoke"
    /\ f \in todo[r]
    /\ access' = [access EXCEPT ![f] = "none"]
    /\ todo'   = [todo EXCEPT ![r] = @ \ {f}]
    /\ contested' = contested \ {f}
    /\ orphans'   = orphans \ {f}
    /\ UNCHANGED <<private, config, file, pc, snapT, snapR, cache, want, cur, newG, events>>

FinalGrants(r)  == (snapT[r] \cap want[r]) \cup newG[r]
NewlyRevoked(r) == snapT[r] \ want[r]

PersistFinal(r) ==
    /\ pc[r] = "revoke"
    /\ todo[r] = {}
    /\ tracked' = IF FinalGrants(r) # snapT[r] THEN FinalGrants(r) ELSE tracked
    /\ pc'      = [pc EXCEPT ![r] = "audit"]
    /\ UNCHANGED <<cloud, config, revoked, local, history>>

\* A slip of AllRevoked: appended to, never pruned.
AppendedRevoked(r) == snapR[r] \cup NewlyRevoked(r)

\* A slip of AllRevoked: the list is written anew.
RevokedAnew(r) == NewlyRevoked(r) \ FinalGrants(r)

AllRevoked(r) == (snapR[r] \cup NewlyRevoked(r)) \ FinalGrants(r)

\* The run's local state is dropped with it.
Forget(r) ==
    /\ snapT' = [snapT EXCEPT ![r] = {}]
    /\ snapR' = [snapR EXCEPT ![r] = {}]
    /\ cache' = [cache EXCEPT ![r] = {}]
    /\ want'  = [want EXCEPT ![r] = {}]
    /\ todo'  = [todo EXCEPT ![r] = {}]
    /\ cur'   = [cur EXCEPT ![r] = {}]
    /\ newG'  = [newG EXCEPT ![r] = {}]

ReconcileRevoked(r) ==
    /\ pc[r] = "audit"
    /\ revoked' = IF AllRevoked(r) # snapR[r] THEN AllRevoked(r) ELSE revoked
    /\ pc'      = [pc EXCEPT ![r] = "done"]
    /\ Forget(r)
    /\ UNCHANGED <<cloud, config, tracked, history>>

\* A locked project is not reconciled, and a teardown with nothing tracked
\* has nothing to revoke.
Skip(r) ==
    /\ pc[r] \in {"loaded", "cached"}
    /\ state = "locked" \/ (state = "absent" /\ snapT[r] = {})
    /\ pc' = [pc EXCEPT ![r] = "idle"]
    /\ Forget(r)
    /\ UNCHANGED <<cloud, config, file, history>>

-----------------------------------------------------------------------------
(* Ways a run ends early.                                                  *)

\* Grants made and not yet written when the run ends.
Unrecorded(r) ==
    IF pc[r] \in {"grant", "asked"} THEN {f \in newG[r] : access[f] = "tool"} ELSE {}

EndEarly(r) ==
    /\ pc' = [pc EXCEPT ![r] = "failed"]
    /\ orphans' = orphans \cup Unrecorded(r)
    /\ Forget(r)
    /\ UNCHANGED <<cloud, config, file, contested>>

\* The flavor vanished since it was listed, or someone else restored the
\* access since it was found missing: the call raises.
CallRaises(r) ==
    /\ \/ pc[r] \in {"grant", "verify"} /\ ~ todo[r] \subseteq private
       \/ pc[r] \in {"asked", "missing"} /\ ~ cur[r] \subseteq private
       \/ pc[r] = "missing" /\ \E f \in cur[r] : access[f] # "none"
    /\ EndEarly(r)
    /\ UNCHANGED events

\* A crash, a killed job, or an API error that outlives its retries.
Crash(r) ==
    /\ pc[r] \notin Ended
    /\ events > 0
    /\ events' = events - 1
    /\ EndEarly(r)

-----------------------------------------------------------------------------
(* The world outside.                                                      *)

\* The flavors a run or the state file holds to be granted by the tool.
Claimed == tracked \cup UNION {snapT[r] \cup newG[r] \cup cur[r] : r \in Run}

AdminGrant(f) ==
    /\ f \in private
    /\ access[f] = "none"
    /\ access' = [access EXCEPT ![f] = "manual"]
    /\ contested' = IF f \in Claimed THEN contested \cup {f} ELSE contested
    /\ UNCHANGED <<private, config, orphans>>

AdminRevoke(f) ==
    /\ access[f] # "none"
    /\ access' = [access EXCEPT ![f] = "none"]
    /\ contested' = contested \ {f}
    /\ orphans'   = orphans \ {f}
    /\ UNCHANGED <<private, config>>

DeleteFlavor(f) ==
    /\ f \in private
    /\ private' = private \ {f}
    /\ access'  = [access EXCEPT ![f] = "none"]
    /\ contested' = contested \ {f}
    /\ orphans'   = orphans \ {f}
    /\ UNCHANGED config

\* A period starts or ends, or the entries are edited.
ChangePlan ==
    /\ plan' \in SUBSET Flavor \ {plan}
    /\ UNCHANGED <<cloud, state, contested, orphans>>

ChangeState ==
    /\ state' \in {"present", "locked", "absent"} \ {state}
    /\ UNCHANGED <<cloud, plan, contested, orphans>>

Environment ==
    /\ events > 0
    /\ events' = events - 1
    /\ \/ \E f \in Flavor : AdminGrant(f) \/ AdminRevoke(f) \/ DeleteFlavor(f)
       \/ ChangePlan
       \/ ChangeState
    /\ UNCHANGED <<file, pc, local>>

-----------------------------------------------------------------------------

\* What a run does by itself, once started.
Step(r) ==
    \/ Load(r) \/ Diff(r) \/ Skip(r) \/ RevokeAll(r)
    \/ GrantAccess(r) \/ PersistGrants(r)
    \/ Regrant(r) \/ VerifyDone(r)
    \/ PersistFinal(r) \/ ReconcileRevoked(r) \/ CallRaises(r)
    \/ \E f \in Flavor : \/ SkipManual(r, f) \/ CheckAccess(r, f)
                         \/ VerifyHeld(r, f) \/ VerifyMissing(r, f)
                         \/ RevokeAccess(r, f)

Next ==
    \/ \E r \in Run : Step(r) \/ CacheFlavors(r) \/ Crash(r)
    \/ Environment

Spec == Init /\ [][Next]_vars

\* The tool is invoked again and again, and a run that is not killed goes on.
FairSpec == Spec /\ \A r \in Run : WF_vars(Step(r))

-----------------------------------------------------------------------------
(* The inductive invariant behind the properties of runs that do not       *)
(* overlap: what a run knows of the state file in each of its phases.      *)

OneAtATime == \A r, s \in Active : r = s

PhaseOK(r) ==
    /\ pc[r] \in Ended => newG[r] = {} /\ want[r] = {}
    /\ pc[r] \notin {"asked", "missing"} => cur[r] = {}
    /\ pc[r] \in {"loaded", "cached"} =>
          newG[r] = {} /\ want[r] = {} /\ tracked = snapT[r]
    /\ pc[r] \in {"grant", "asked"} => tracked = snapT[r]
    /\ pc[r] \in {"verify", "missing"} =>
          /\ tracked = snapT[r] \cup newG[r]
          /\ todo[r] \cup cur[r] \subseteq snapT[r] \cap want[r]
    /\ pc[r] = "revoke" =>
          /\ tracked = snapT[r] \cup newG[r]
          /\ \A f \in (snapT[r] \ want[r]) \ todo[r] : access[f] # "tool"
    /\ pc[r] = "audit" => tracked = FinalGrants(r)
    /\ pc[r] \notin Ended => revoked = snapR[r]

\* Every grant of the tool is in the file, lost for good, or on the list of a
\* run that is still in its grant loop.
InHand == UNION {newG[r] : r \in {q \in Run : pc[q] \in {"grant", "asked"}}}

ToolGrantsKnown ==
    \A f \in Flavor : access[f] = "tool" => f \in tracked \cup orphans \cup InHand

RunInv == OneAtATime /\ (\A r \in Run : PhaseOK(r)) /\ ToolGrantsKnown

\* The inductive invariant behind ManualGrantsSurvive.
ClaimInv ==
    /\ \A f \in Claimed : access[f] = "manual" => f \in contested
    /\ \A r \in Run : pc[r] \in {"verify", "missing", "revoke"} => todo[r] \subseteq snapT[r]

\* The variables have their types, nothing is claimed that is not the tool's,
\* and, while runs do not overlap, what a run has in memory agrees with the
\* cloud and the state file in each of its phases: a record is never ahead of
\* the access it records, nor a grant behind its record.
Inv == TypeOK /\ ClaimInv /\ RunInv

-----------------------------------------------------------------------------
(* Properties.                                                             *)

\* A grant made by the tool is in the state file whenever no run is active,
\* so that it will be revoked when its reservation ends.  The one exception
\* is the window the code itself names: a run that dies after a grant and
\* before the write that follows the grant loop.  A run that dies anywhere
\* later (verify, revoke, between the two final writes) leaks nothing.
GrantsRecorded ==
    Active = {} => {f \in Flavor : access[f] = "tool"} \subseteq tracked \cup orphans

\* A step of a run never removes access that an operator granted, unless the
\* operator granted it on a flavor the tool already held to be its own
\* (tracked, or granted by a run in progress).  This holds across stale
\* snapshots, failed runs and overlapping invocations.
ManualGrantsSurvive ==
    [][\A f \in Flavor :
          (access[f] = "manual" /\ access'[f] # "manual" /\ todo' # todo)
              => f \in contested]_vars

\* When a run writes its last list, no flavor is left both recorded as granted
\* and recorded as revoked, whatever earlier runs left behind when they died.
ListsDisjoint ==
    [][\A r \in Run : (pc[r] = "audit" /\ pc'[r] = "done")
          => tracked' \cap revoked' = {}]_vars

\* What a run has dropped from the first list and is about to put on the second.
Pending == UNION {NewlyRevoked(r) : r \in {q \in Run : pc[q] = "audit"}}

\* The flavors the project ever held through the tool that the state file
\* still tells of, or that a run in progress is about to write there.
AccountedFor == tracked \cup revoked \cup Pending

\* Revocations move to the audit trail: a flavor leaves granted_flavor_access
\* or revoked_flavor_access only for the other list.  The one exception is a
\* run that dies between its two last writes.
RevocationsAudited ==
    [][\A f \in AccountedFor \ AccountedFor' :
          \E r \in Run : pc[r] = "audit" /\ pc'[r] = "failed" /\ f \in NewlyRevoked(r)]_vars

Lists == INSTANCE AuditedList
         WITH Item <- Flavor, active <- tracked, retired <- revoked,
              due <- Pending \ tracked, noted <- {}, writing <- \E r \in Run : pc[r] = "audit"

\* While runs do not overlap, the two lists are an audited list: every write
\* of either is one of its steps, whatever fails, so that nothing is dropped
\* from the first list that the second does not get, and nothing leaves the
\* second but for the first (ensure_reservations, _reconcile_revoked).
ImplementsAuditedList == Lists!Spec

\* What the cloud and the state file look like once the tool has caught up.
Converged ==
    /\ state = "present" =>
          /\ \A f \in plan \cap private : access[f] # "none"
          /\ \A f \in Flavor : access[f] = "tool" => f \in plan \cup orphans
          /\ tracked \subseteq plan \cap private
          /\ tracked \cap revoked = {}
    /\ state = "absent" => tracked = {}

\* Once periods, flavors and operators stop changing and runs stop failing,
\* repeated runs reach the desired grants and stay there: missing access is
\* restored, expired access is gone and the two lists agree.
EventuallyConverged == <>[]Converged

=============================================================================
