-------------------------------- MODULE Baseline --------------------------------
(***************************************************************************)
(* The part of a present run that bounds and guards a project, in the      *)
(* order of _reconcile_present (reconciler.py): the quotas (module Quotas),*)
(* then the security group (module SecurityGroup).  An exception of the    *)
(* first keeps the second from its turn.                                   *)
(***************************************************************************)
EXTENDS Integers, FiniteSets

CONSTANTS
    Key, ServiceOf, Configured, Floating, Default, Refusing, MaxLevel, Unlimited, Faults,
    Rule, Automatic, Egress, Baseline, Fingerprint, Names, SGFaults,
    MaxEvents

VARIABLES
    limit, used, want, pc, svc, cfg, current, desired, grown, touched,  \* Quotas
    name, groups, rules, step, todo, cut, changed, dropped,             \* SecurityGroup
    events

Q  == INSTANCE Quotas
SG == INSTANCE SecurityGroup WITH Size <- Cardinality

ASSUME QuotasAssumption == Q!ConstantsOK
ASSUME GroupAssumption  == IsFiniteSet(Rule) /\ SG!ConstantsOK

quotaVars == <<limit, used, want, pc, svc, cfg, current, desired, grown, touched>>
groupVars == <<name, groups, rules, step, todo, cut, changed, dropped>>
vars      == <<quotaVars, groupVars, events>>

Init == Q!Init /\ SG!Init

\* A new run starts where the last one ended.
SetQuotas == pc # "passed" /\ step \in SG!Rest /\ Q!Step /\ UNCHANGED groupVars

\* All quotas are done with: the group's turn, in the same run.
PassOn ==
    /\ pc = "passed"
    /\ SG!Begin
    /\ pc' = "idle"
    /\ UNCHANGED <<limit, used, want, svc, cfg, current, desired, grown, touched>>

Guard == SG!Fill /\ UNCHANGED quotaVars

Run == SetQuotas \/ PassOn \/ Guard

QuotasFail == (Q!CallFails \/ Q!Echo \/ Q!Crash) /\ UNCHANGED groupVars
GroupFails == SG!Dies /\ UNCHANGED quotaVars
World      == (Q!World /\ UNCHANGED groupVars) \/ (SG!Users /\ UNCHANGED quotaVars)

Next == Run \/ QuotasFail \/ GroupFails \/ World

Spec == Init /\ [][Next]_vars

\* The tool runs on a cadence.
FairSpec == Spec /\ WF_vars(Run)

-----------------------------------------------------------------------------
(* Properties.                                                             *)

TypeOK == Q!TypeOK /\ SG!TypeOK

\* Quotas!UsageIsRespected, OthersKeysStay and EventuallyAsked.
UsageIsRespected == Q!UsageIsRespected
OthersKeysStay   == Q!OthersKeysStay
EventuallyAsked  == Q!EventuallyAsked

\* SecurityGroup!BaselineComplete, TeamsDecide and EventuallyGuarded: the last
\* needs the quotas to let the run pass.
BaselineComplete  == SG!BaselineComplete
TeamsDecide       == SG!TeamsDecide
EventuallyGuarded == SG!EventuallyGuarded

=============================================================================
