----------------------------- MODULE BaselineProofs -----------------------------
(***************************************************************************)
(* Proofs about Baseline, for any keys, limits, rules and faults: what a   *)
(* run sends to the quotas of a project respects usage and other people's  *)
(* settings, and the security group gets its rules once and is then the    *)
(* team's.                                                                 *)
(***************************************************************************)
EXTENDS Baseline, FiniteSetTheorems, TLAPS

USE QuotasAssumption, GroupAssumption DEF Q!ConstantsOK, SG!ConstantsOK

-----------------------------------------------------------------------------
(* Types.                                                                  *)

\* A fault of either kind uses up one event.
LEMMA EventsType ==
    ASSUME NEW f, events \in 0..MaxEvents, Q!Strikes(f) \/ SG!Strikes(f) \/ Q!Happens
    PROVE  events' \in 0..MaxEvents
BY DEF Q!Strikes, SG!Strikes, Q!Happens

\* The next service is a service.
LEMMA GoesOnType ==
    ASSUME svc \in Q!Service, Q!GoesOn
    PROVE  pc' \in {"read", "passed"} /\ svc' \in Q!Service
BY DEF Q!GoesOn, Q!After, Q!Service

\* What is sent are levels.
LEMMA SentType ==
    ASSUME Q!TypeOK
    PROVE  \A k \in DOMAIN Q!Sent : k \in Key /\ Q!Sent[k] \in Q!Level
BY DEF Q!Sent, Q!TypeOK, Q!Keys, Q!Managed

\* An update leaves levels.
LEMMA LimitsType ==
    ASSUME Q!TypeOK, Q!SetLimits
    PROVE  limit' \in [Key -> Q!Level]
<1>1. Default \in Q!Level
    BY DEF Q!Level
<1> QED
    BY <1>1, SentType DEF Q!SetLimits, Q!TypeOK

\* Usage is a level, and so is what is clamped to it.
LEMMA ClampedType ==
    ASSUME Q!TypeOK
    PROVE  Q!Clamped \in [Key -> Q!Level]
<1>1. \A k \in Key : used[k] \in Q!Level
    BY DEF Q!TypeOK, Q!Level
<1> QED
    BY <1>1 DEF Q!Clamped, Q!TypeOK

\* The steps of the quotas keep their types.
LEMMA QuotasType ==
    ASSUME Q!TypeOK, Q!Step \/ Q!CallFails \/ Q!Echo \/ Q!Crash \/ Q!World
    PROVE  Q!TypeOK'
<1> USE DEF Q!TypeOK, Q!worldVars, Q!runVars, Q!PC, Q!Rest
<1>1. CASE Q!Start
    BY <1>1 DEF Q!Start, Q!Service
<1>2. CASE Q!ReadLimits
    <2>1. pc' \in Q!PC /\ svc' \in Q!Service
        BY <1>2, GoesOnType DEF Q!ReadLimits
    <2> QED
        BY <1>2, <2>1 DEF Q!ReadLimits
<1>3. CASE Q!ReadUsage
    <2>1. pc' \in Q!PC /\ svc' \in Q!Service
        BY <1>3, GoesOnType DEF Q!ReadUsage
    <2> QED
        BY <1>3, <2>1, ClampedType DEF Q!ReadUsage
<1>4. CASE Q!Update
    BY <1>4, GoesOnType, LimitsType DEF Q!Update
<1>5. CASE Q!UpdateRefused
    BY <1>5, GoesOnType DEF Q!UpdateRefused, Q!Raises
<1>6. CASE Q!CallFails
    BY <1>6, GoesOnType, EventsType DEF Q!CallFails, Q!Raises
<1>7. CASE Q!Echo
    BY <1>7, LimitsType, EventsType DEF Q!Echo
<1>8. CASE Q!Crash
    BY <1>8, EventsType DEF Q!Crash
<1>9. ASSUME NEW k \in Key, Q!Use(k) PROVE Q!TypeOK'
    <2>1. used' \in [Key -> 0..MaxLevel]
        BY <1>9 DEF Q!Use, Q!Below
    <2>2. events' \in 0..MaxEvents
        BY <1>9, EventsType DEF Q!Use
    <2> QED
        BY <1>9, <2>1, <2>2 DEF Q!Use
<1>10. ASSUME NEW k \in Key, Q!OthersSet(k) PROVE Q!TypeOK'
    BY <1>10, EventsType DEF Q!OthersSet
<1>11. ASSUME NEW k \in Key, Q!Edit(k) PROVE Q!TypeOK'
    BY <1>11, EventsType DEF Q!Edit
<1> QED
    BY <1>1, <1>2, <1>3, <1>4, <1>5, <1>6, <1>7, <1>8, <1>9, <1>10, <1>11 DEF Q!Step, Q!World

\* The steps of the security group keep its types.
LEMMA GroupType ==
    ASSUME SG!TypeOK, SG!Begin \/ SG!Fill \/ SG!Dies \/ SG!Users
    PROVE  SG!TypeOK'
<1> USE DEF SG!TypeOK, SG!groupVars, SG!historyVars, SG!Rest
<1>1. CASE SG!Begin
    BY <1>1 DEF SG!Begin
<1>2. CASE SG!Look
    <2>1. SG!Missing \subseteq Baseline
        BY DEF SG!Missing
    <2>2. todo' \subseteq Baseline
        BY <1>2, <2>1 DEF SG!Look
    <2>3. step' \in {"create", "seed", "done", "idle"}
        BY <1>2 DEF SG!Look
    <2> QED
        BY <1>2, <2>2, <2>3 DEF SG!Look
<1>3. CASE SG!Create
    <2>1. groups' \in 0..2 /\ events' \in 0..MaxEvents
        BY <1>3, EventsType DEF SG!Create
    <2>2. rules' \subseteq Rule /\ todo' \subseteq Baseline
        BY <1>3 DEF SG!Create
    <2> QED
        BY <1>3, <2>1, <2>2 DEF SG!Create
<1>4. ASSUME NEW r \in todo, SG!AddRule(r) PROVE SG!TypeOK'
    BY <1>4, EventsType DEF SG!AddRule, SG!Ends
<1>5. CASE SG!Filled \/ SG!GroupIsGone
    <2>1. step' \in {"done", "idle"} /\ cut' \in BOOLEAN
        BY <1>5 DEF SG!Filled, SG!GroupIsGone, SG!Ends
    <2> QED
        BY <1>5, <2>1 DEF SG!Filled, SG!GroupIsGone
<1>6. CASE SG!Dies
    BY <1>6, EventsType DEF SG!Dies, SG!Ends
<1>7. CASE SG!DeleteGroup
    <2>1. events' \in 0..MaxEvents
        BY <1>7, EventsType DEF SG!DeleteGroup
    <2>2. rules' \subseteq Rule /\ dropped' \subseteq Rule /\ groups' \in 0..2
        BY <1>7 DEF SG!DeleteGroup
    <2>3. cut' = FALSE /\ changed' = FALSE /\ name' = name /\ step' = step /\ todo' = todo
        BY <1>7 DEF SG!DeleteGroup
    <2> QED
        BY <2>1, <2>2, <2>3
<1>8. ASSUME NEW r \in Rule, SG!AddOwnRule(r) \/ SG!RemoveRule(r) PROVE SG!TypeOK'
    BY <1>8, EventsType DEF SG!AddOwnRule, SG!RemoveRule
<1> QED
    BY <1>1, <1>2, <1>3, <1>4, <1>5, <1>6, <1>7, <1>8 DEF SG!Fill, SG!Users

\* Every step is a step of the quotas, of the security group, or the one from
\* the first to the second.
LEMMA StepKinds ==
    ASSUME [Next]_vars
    PROVE  \/ (Q!Step \/ Q!CallFails \/ Q!Echo \/ Q!Crash \/ Q!World) /\ UNCHANGED groupVars
           \/ PassOn
           \/ (SG!Fill \/ SG!Dies \/ SG!Users) /\ UNCHANGED quotaVars
           \/ UNCHANGED vars
BY DEF Next, Run, SetQuotas, Guard, QuotasFail, GroupFails, World

\* Quotas and security group keep their types in every run, for any constants
\* (quotas.py, ensure_quotas; security_group.py, ensure_baseline_sg).
THEOREM TypeCorrect == Spec => []TypeOK
<1>1. Init => TypeOK
    <2> SUFFICES ASSUME Init PROVE TypeOK
        OBVIOUS
    <2>1. Q!TypeOK
        BY DEF Init, Q!Init, Q!TypeOK, Q!Level, Q!PC, Q!Rest, Q!Service
    <2>2. rules \subseteq Rule /\ groups \in 0..2 /\ name \in {"default", "other"}
        BY DEF Init, SG!Init
    <2>3. events \in 0..MaxEvents /\ step \in SG!Rest /\ todo = {} /\ dropped = {}
        BY DEF Init, SG!Init, SG!Rest
    <2>4. cut = FALSE /\ changed = FALSE
        BY DEF Init, SG!Init
    <2>5. SG!TypeOK
        BY <2>2, <2>3, <2>4 DEF SG!TypeOK
    <2> QED
        BY <2>1, <2>5 DEF TypeOK
<1>2. TypeOK /\ [Next]_vars => TypeOK'
    <2> SUFFICES ASSUME TypeOK, [Next]_vars PROVE TypeOK'
        OBVIOUS
    <2>1. CASE (Q!Step \/ Q!CallFails \/ Q!Echo \/ Q!Crash \/ Q!World) /\ UNCHANGED groupVars
        BY <2>1, QuotasType DEF TypeOK, SG!TypeOK, Q!TypeOK, groupVars
    <2>2. CASE PassOn
        BY <2>2, GroupType DEF PassOn, TypeOK, Q!TypeOK, Q!PC, Q!Rest, SG!TypeOK
    <2>3. CASE (SG!Fill \/ SG!Dies \/ SG!Users) /\ UNCHANGED quotaVars
        BY <2>3, GroupType DEF TypeOK, SG!TypeOK, Q!TypeOK, quotaVars
    <2>4. CASE UNCHANGED vars
        BY <2>4 DEF TypeOK, SG!TypeOK, Q!TypeOK, vars, quotaVars, groupVars
    <2> QED
        BY <2>1, <2>2, <2>3, <2>4, StepKinds
<1> QED
    BY <1>1, <1>2, PTL DEF Spec

-----------------------------------------------------------------------------
(* The quotas.  Between reading the limits and sending them, a limit is as *)
(* it was read or others have changed it, and what is sent is not below    *)
(* what is in use.                                                         *)

ReadInv ==
    pc \in {"usage", "update"} => \A k \in Key : k \in touched \/ limit[k] = current[k]

ClampInv ==
    /\ pc = "usage" => svc # "balancer"
    /\ pc = "update" /\ svc # "balancer" =>
           \A k \in Q!Managed(svc) \ (grown \cup touched) : desired[k] >= current[k] \/ desired[k] >= used[k]

\* Every step keeps ReadInv.
LEMMA ReadStep == TypeOK /\ ReadInv /\ [Next]_vars => ReadInv'
<1> SUFFICES ASSUME TypeOK, ReadInv, [Next]_vars PROVE ReadInv'
    OBVIOUS
<1> USE DEF ReadInv, Q!worldVars, Q!runVars
<1>1. CASE Q!Step
    BY <1>1 DEF Q!Step, Q!Start, Q!ReadLimits, Q!ReadUsage, Q!Update, Q!UpdateRefused, Q!GoesOn, Q!Raises
<1>2. CASE Q!CallFails \/ Q!Echo \/ Q!Crash
    BY <1>2 DEF Q!CallFails, Q!Raises, Q!GoesOn, Q!Echo, Q!Crash
<1>3. ASSUME NEW k \in Key, Q!Use(k) \/ Q!Edit(k) PROVE ReadInv'
    BY <1>3 DEF Q!Use, Q!Edit
<1>4. ASSUME NEW k \in Key, Q!OthersSet(k) PROVE ReadInv'
    BY <1>4 DEF Q!OthersSet, TypeOK, Q!TypeOK
<1>5. CASE PassOn
    BY <1>5 DEF PassOn
<1>6. CASE UNCHANGED quotaVars
    BY <1>6 DEF quotaVars
<1> QED
    BY <1>1, <1>2, <1>3, <1>4, <1>5, <1>6, StepKinds DEF Q!World, vars

\* ReadInv holds.
LEMMA ReadHolds == Spec => []ReadInv
<1>1. Init => ReadInv
    BY DEF Init, Q!Init, ReadInv
<1> QED
    BY <1>1, ReadStep, TypeCorrect, PTL DEF Spec

\* A step that sends an update leaves every limit but those it sends.
LEMMA SendSteps ==
    ASSUME TypeOK, [Next]_vars, Q!Sends
    PROVE  \/ limit' = limit
           \/ /\ limit' \in [Key -> Q!Level]
              /\ \A k \in Key : \/ k \in Q!Managed(svc) /\ limit'[k] = desired[k]
                                \/ k \notin Q!Managed(svc) /\ ServiceOf[k] = "storage" /\ limit'[k] = current[k]
                                \/ limit'[k] = limit[k]
<1>1. CASE Q!SetLimits
    <2>1. limit' \in [Key -> Q!Level]
        BY <1>1, LimitsType DEF TypeOK
    <2>2. ASSUME NEW k \in Key
          PROVE  \/ k \in Q!Managed(svc) /\ limit'[k] = desired[k]
                 \/ k \notin Q!Managed(svc) /\ ServiceOf[k] = "storage" /\ limit'[k] = current[k]
                 \/ limit'[k] = limit[k]
        <3>1. CASE k \in Q!Managed(svc)
            BY <1>1, <3>1 DEF Q!SetLimits, Q!Sent, Q!Managed
        <3>2. CASE k \notin Q!Managed(svc) /\ svc = "storage" /\ k \in Q!Keys(svc)
            BY <1>1, <3>2 DEF Q!SetLimits, Q!Sent, Q!Keys
        <3>3. CASE k \notin Q!Managed(svc) /\ ~(svc = "storage" /\ k \in Q!Keys(svc))
            BY <1>1, <3>3 DEF Q!SetLimits, Q!Sent, Q!Resets
        <3> QED
            BY <3>1, <3>2, <3>3
    <2> QED
        BY <2>1, <2>2
<1>2. CASE ~Q!SetLimits
    BY <1>2, StepKinds
    DEF Q!Sends, Q!Step, Q!Start, Q!ReadLimits, Q!ReadUsage, Q!Update, Q!UpdateRefused, Q!CallFails, Q!Echo,
        Q!Crash, Q!World, Q!Use, Q!OthersSet, Q!Edit, Q!worldVars, Q!runVars, PassOn, vars, quotaVars
<1> QED
    BY <1>1, <1>2

\* What is not configured stays as others set it, but for a key of Cinder that
\* is set between the read and the update (quotas.py, _ensure_block_storage_quotas).
THEOREM OthersKeysAreKept == Spec => OthersKeysStay
<1>1. TypeOK /\ ReadInv /\ [Next]_vars =>
          [\A k \in Key : Q!Sends /\ limit'[k] # limit[k]
               => k \in Configured \ {Floating} \/ (ServiceOf[k] = "storage" /\ k \in touched)]_(Q!vars)
    <2> SUFFICES ASSUME TypeOK, ReadInv, [Next]_vars, NEW k \in Key, Q!Sends, limit'[k] # limit[k]
                 PROVE  k \in Configured \ {Floating} \/ (ServiceOf[k] = "storage" /\ k \in touched)
        OBVIOUS
    <2>1. k \in Q!Managed(svc) \/ (ServiceOf[k] = "storage" /\ limit'[k] = current[k])
        BY SendSteps
    <2>2. k \in touched \/ limit[k] = current[k]
        BY DEF ReadInv, Q!Sends
    <2> QED
        BY <2>1, <2>2 DEF Q!Managed
<1> QED
    BY <1>1, ReadHolds, TypeCorrect, PTL DEF Spec, OthersKeysStay, Q!OthersKeysStay

\* Every step keeps ClampInv: what is lowered passes through the comparison
\* with usage.
LEMMA ClampStep ==
    ASSUME Unlimited = FALSE
    PROVE  TypeOK /\ ClampInv /\ [Next]_vars => ClampInv'
<1> SUFFICES ASSUME TypeOK, ClampInv, [Next]_vars PROVE ClampInv'
    OBVIOUS
<1> USE DEF ClampInv, Q!worldVars, Q!runVars
<1>1. Q!Level = 0..MaxLevel
    BY DEF Q!Level
<1>2. CASE Q!ReadLimits
    <2>1. pc' = "usage" => svc' # "balancer"
        BY <1>2 DEF Q!ReadLimits, Q!GoesOn
    <2>2. ASSUME pc' = "update", svc' # "balancer", NEW k \in Q!Managed(svc)
          PROVE  desired'[k] >= current'[k]
        <3>1. Q!Lowered(limit, cfg) = {} /\ current' = limit /\ desired' = cfg /\ svc' = svc
            BY <1>2, <2>2 DEF Q!ReadLimits, Q!GoesOn
        <3>2. k \in Key /\ ~(cfg[k] < limit[k])
            BY <3>1 DEF Q!Lowered, Q!Managed, Q!Keys
        <3> QED
            BY <1>1, <3>1, <3>2 DEF TypeOK, Q!TypeOK
    <2>3. pc' = "update" => svc' = svc
        BY <1>2 DEF Q!ReadLimits, Q!GoesOn
    <2> QED
        BY <2>1, <2>2, <2>3
<1>3. CASE Q!ReadUsage
    <2>1. pc' # "usage" /\ (pc' = "update" => svc' = svc)
        BY <1>3 DEF Q!ReadUsage, Q!GoesOn
    <2>2. ASSUME NEW k \in Q!Managed(svc)
          PROVE  desired'[k] >= current'[k] \/ desired'[k] >= used'[k]
        <3>1. k \in Key /\ current' = current /\ used' = used /\ desired' = Q!Clamped
            BY <1>3 DEF Q!ReadUsage, Q!Managed, Q!Keys
        <3>2. desired[k] \in Int /\ current[k] \in Int /\ used[k] \in Int
            BY <1>1, <3>1 DEF TypeOK, Q!TypeOK
        <3>3. Q!Clamped[k] = IF desired[k] < current[k] /\ desired[k] < used[k] THEN used[k] ELSE desired[k]
            BY <3>1 DEF Q!Clamped, Q!Lowered
        <3> QED
            BY <3>1, <3>2, <3>3
    <2> QED
        BY <2>1, <2>2
<1>4. CASE Q!Start \/ Q!Update \/ Q!UpdateRefused \/ Q!CallFails \/ Q!Echo \/ Q!Crash
    BY <1>4 DEF Q!Start, Q!Update, Q!UpdateRefused, Q!CallFails, Q!Echo, Q!Crash, Q!Raises, Q!GoesOn
<1>5. ASSUME NEW k \in Key, Q!Use(k) PROVE ClampInv'
    <2>1. /\ UNCHANGED <<pc, svc, desired, current, touched>>
          /\ grown \subseteq grown'
          /\ \A q \in Key : q \in grown' \/ used'[q] <= used[q]
        BY <1>5 DEF Q!Use, TypeOK, Q!TypeOK
    <2>2. ASSUME pc' = "update", svc' # "balancer", NEW q \in Q!Managed(svc) \ (grown' \cup touched)
          PROVE  desired[q] >= current[q] \/ desired[q] >= used'[q]
        <3>1. q \in Key /\ (desired[q] >= current[q] \/ desired[q] >= used[q])
            BY <2>1, <2>2 DEF Q!Managed, Q!Keys
        <3>2. Q!TypeOK'
            BY <1>5, QuotasType DEF TypeOK, Q!World
        <3>3. desired[q] \in Int /\ used[q] \in Int /\ used'[q] \in Int
            BY <1>1, <3>1, <3>2 DEF TypeOK, Q!TypeOK
        <3> QED
            BY <2>1, <2>2, <3>1, <3>3
    <2> QED
        BY <2>1, <2>2
<1>6. ASSUME NEW k \in Key, Q!OthersSet(k) \/ Q!Edit(k) PROVE ClampInv'
    BY <1>6 DEF Q!OthersSet, Q!Edit
<1>7. CASE PassOn
    BY <1>7 DEF PassOn
<1>8. CASE UNCHANGED quotaVars
    BY <1>8 DEF quotaVars
<1> QED
    BY <1>2, <1>3, <1>4, <1>5, <1>6, <1>7, <1>8, StepKinds DEF Q!Step, Q!World, vars

\* While there is a limit on everything, a run lowers none below what is in
\* use, unless usage or the limit changed after it looked (quotas.py,
\* _ensure_compute_quotas and the others).
THEOREM UsageIsKept ==
    ASSUME Unlimited = FALSE
    PROVE  Spec => UsageIsRespected
<1>1. Init => ClampInv
    BY DEF Init, Q!Init, ClampInv
<1>2. TypeOK /\ ReadInv /\ ClampInv /\ [Next]_vars =>
          [\A k \in Key :
              Q!Sends /\ Q!Below(limit'[k], used[k]) /\ (limit[k] = -1 \/ limit'[k] < limit[k])
                  => ServiceOf[k] = "balancer" \/ k \in grown \cup touched]_(Q!vars)
    <2> SUFFICES ASSUME TypeOK, ReadInv, ClampInv, [Next]_vars, NEW k \in Key, Q!Sends,
                        Q!Below(limit'[k], used[k]), limit[k] = -1 \/ limit'[k] < limit[k],
                        ServiceOf[k] # "balancer", k \notin grown \cup touched
                 PROVE  FALSE
        OBVIOUS
    <2>1. Q!Level = 0..MaxLevel
        BY DEF Q!Level
    <2>2. /\ limit[k] \in Int /\ limit[k] # -1 /\ used[k] \in Int
          /\ desired[k] \in Int /\ current[k] \in Int
        BY <2>1 DEF TypeOK, Q!TypeOK
    <2>3. limit'[k] < used[k] /\ limit'[k] < limit[k]
        BY <2>2 DEF Q!Below
    <2>4. limit[k] = current[k]
        BY DEF ReadInv, Q!Sends
    <2>5. k \in Q!Managed(svc) /\ limit'[k] = desired[k]
        BY <2>2, <2>3, <2>4, SendSteps
    <2>6. svc # "balancer"
        BY <2>5 DEF Q!Managed, Q!Keys
    <2>7. desired[k] >= current[k] \/ desired[k] >= used[k]
        BY <2>5, <2>6 DEF ClampInv, Q!Sends
    <2> QED
        BY <2>2, <2>3, <2>4, <2>5, <2>7
<1> QED
    BY <1>1, <1>2, ClampStep, ReadHolds, TypeCorrect, PTL DEF Spec, UsageIsRespected, Q!UsageIsRespected

-----------------------------------------------------------------------------
(* The security group.  While it is filled, what it lacks is still to be   *)
(* added; a group nobody interfered with is complete or still counts as    *)
(* unconfigured; and rules that users took out for good are gone from a    *)
(* group that counts as configured.                                        *)

FillInv ==
    /\ name = "default" => groups = 1 /\ step \notin {"create", "fill"}
    /\ step = "create" => groups = 0
    /\ step \in {"seed", "fill"} /\ groups > 0 /\ ~changed => SG!Fingerprints(Baseline) \subseteq SG!Fingerprints(rules \cup todo)
    /\ groups = 1 /\ ~cut /\ ~changed =>
           /\ step \in {"idle", "look"} => SG!HasBaseline \/ SG!Unconfigured
           /\ step = "done" => SG!HasBaseline

TeamInv ==
    /\ dropped \cap rules = {}
    /\ step \in {"seed", "fill"} => dropped = {}
    /\ dropped # {} => ~SG!Unconfigured

\* A rule whose fingerprint is not missing is there by its fingerprint.
LEMMA NothingMissing == SG!Missing = {} => SG!HasBaseline
BY DEF SG!Missing, SG!HasBaseline, SG!Fingerprints

\* What is missing is all that is lacking.
LEMMA MissingCompletes == SG!Fingerprints(Baseline) \subseteq SG!Fingerprints(rules \cup SG!Missing)
BY DEF SG!Missing, SG!Fingerprints

\* Steps of the quotas and the turn of the group leave it alone.
LEMMA GroupSteps ==
    ASSUME [Next]_vars
    PROVE  SG!Begin \/ SG!Fill \/ SG!Dies \/ SG!Users \/ UNCHANGED groupVars
BY StepKinds DEF PassOn, vars

\* Every step keeps FillInv.
LEMMA FillStep == TypeOK /\ FillInv /\ [Next]_vars => FillInv'
<1> SUFFICES ASSUME TypeOK, FillInv, [Next]_vars PROVE FillInv'
    OBVIOUS
<1> USE DEF FillInv, SG!groupVars, SG!historyVars, SG!Rest, SG!HasBaseline, SG!Unconfigured
<1>1. CASE SG!Begin
    BY <1>1 DEF SG!Begin
<1>2. CASE SG!Look
    <2>1. UNCHANGED <<name, groups, rules, cut, changed>> /\ step = "look"
        BY <1>2 DEF SG!Look
    <2>2. CASE step' = "create" /\ groups = 0
        BY <2>1, <2>2
    <2>3. CASE step' = "seed" /\ groups = 1
        <3>1. todo' = SG!Missing
            BY <1>2, <2>3 DEF SG!Look
        <3>2. SG!Fingerprints(Baseline) \subseteq SG!Fingerprints(rules' \cup todo')
            BY <2>1, <3>1, MissingCompletes
        <3> QED
            BY <2>1, <2>3, <3>2
    <2>4. CASE step' = "done" /\ groups = 1 /\ (~SG!Unconfigured \/ SG!Missing = {})
        BY <2>1, <2>4, NothingMissing
    <2>5. CASE step' = "idle" /\ groups \notin {0, 1}
        BY <2>1, <2>5
    <2>6. \/ step' = "create" /\ groups = 0
          \/ step' = "seed" /\ groups = 1
          \/ step' = "done" /\ groups = 1 /\ (~SG!Unconfigured \/ SG!Missing = {})
          \/ step' = "idle" /\ groups \notin {0, 1}
        BY <1>2 DEF SG!Look
    <2> QED
        BY <2>2, <2>3, <2>4, <2>5, <2>6
<1>3. CASE SG!Create
    <2>1. SG!Fingerprints(Baseline) \subseteq SG!Fingerprints(rules' \cup todo')
        BY <1>3 DEF SG!Create, SG!Fingerprints
    <2> QED
        BY <1>3, <2>1 DEF SG!Create
<1>4. ASSUME NEW r \in todo, SG!AddRule(r) PROVE FillInv'
    <2>1. groups > 0 /\ r \in todo /\ UNCHANGED <<name, groups, changed>> /\ step \in {"seed", "fill"}
        BY <1>4 DEF SG!AddRule
    <2>2. CASE todo' = todo \ {r} /\ step' = step
        <3>1. rules' \cup todo' = rules \cup todo
            BY <1>4, <2>2 DEF SG!AddRule
        <3> QED
            BY <2>1, <2>2, <3>1
    <2>3. CASE SG!Ends /\ step = "fill"
        <3>1. step' = "idle" /\ cut' = TRUE
            BY <2>1, <2>3 DEF SG!Ends
        <3> QED
            BY <2>1, <3>1
    <2> QED
        BY <1>4, <2>2, <2>3 DEF SG!AddRule
<1>5. CASE SG!Filled
    <2>1. todo = {} => rules \cup todo = rules
        OBVIOUS
    <2> QED
        BY <1>5, <2>1 DEF SG!Filled
<1>6. CASE SG!GroupIsGone
    BY <1>6 DEF SG!GroupIsGone, SG!Ends
<1>7. CASE SG!Dies
    <2>1. step' = "idle" /\ UNCHANGED <<name, groups, rules, changed>>
        BY <1>7 DEF SG!Dies, SG!Ends
    <2>2. ASSUME groups = 1, ~cut', ~changed PROVE SG!HasBaseline \/ SG!Unconfigured
        <3>1. ~cut /\ (todo = {} \/ SG!Unconfigured)
            <4>1. cut' = (cut \/ (todo # {} /\ groups > 0 /\ ~SG!Unconfigured))
                BY <1>7 DEF SG!Dies, SG!Ends, SG!Unconfigured
            <4>2. groups > 0
                BY <2>2
            <4> QED
                BY <2>2, <4>1, <4>2 DEF SG!Unconfigured
        <3>2. CASE step \in {"seed", "fill"} /\ todo = {}
            <4>1. rules \cup todo = rules
                BY <3>2
            <4> QED
                BY <2>2, <3>2, <4>1
        <3>3. CASE step = "look"
            BY <2>2, <3>1, <3>3
        <3>4. CASE step = "create"
            BY <2>2, <3>4
        <3> QED
            BY <1>7, <3>1, <3>2, <3>3, <3>4 DEF SG!Dies, TypeOK, SG!TypeOK
    <2> QED
        BY <2>1, <2>2
<1>8. CASE SG!DeleteGroup
    BY <1>8 DEF SG!DeleteGroup
<1>9. ASSUME NEW r \in Rule, SG!AddOwnRule(r) \/ SG!RemoveRule(r) PROVE FillInv'
    BY <1>9 DEF SG!AddOwnRule, SG!RemoveRule
<1>10. CASE UNCHANGED groupVars
    BY <1>10 DEF groupVars
<1> QED
    BY <1>1, <1>2, <1>3, <1>4, <1>5, <1>6, <1>7, <1>8, <1>9, <1>10, GroupSteps DEF SG!Fill, SG!Users

\* A completed run leaves the configured rules in a group nobody interfered
\* with, however many runs died before it (security_group.py,
\* ensure_baseline_sg).
THEOREM BaselineIsComplete == Spec => []BaselineComplete
<1>1. Init => FillInv
    <2>1. SG!Init => (name = "default" => SG!Unconfigured)
        BY DEF SG!Init, SG!Unconfigured
    <2> QED
        BY <2>1 DEF Init, SG!Init, FillInv, SG!Rest, SG!HasBaseline
<1>2. FillInv => BaselineComplete
    BY DEF FillInv, BaselineComplete, SG!BaselineComplete
<1> QED
    BY <1>1, <1>2, FillStep, TypeCorrect, PTL DEF Spec

\* Every step keeps TeamInv.
LEMMA TeamStep == TypeOK /\ TeamInv /\ [Next]_vars => TeamInv'
<1> SUFFICES ASSUME TypeOK, TeamInv, [Next]_vars PROVE TeamInv'
    OBVIOUS
<1> USE DEF TeamInv, SG!groupVars, SG!historyVars, SG!Unconfigured
<1>1. CASE SG!Begin \/ SG!Look \/ SG!Create \/ SG!Filled \/ SG!GroupIsGone \/ SG!Dies \/ SG!DeleteGroup
    BY <1>1 DEF SG!Begin, SG!Look, SG!Create, SG!Filled, SG!GroupIsGone, SG!Dies, SG!DeleteGroup, SG!Ends
<1>2. ASSUME NEW r \in todo, SG!AddRule(r) PROVE TeamInv'
    BY <1>2 DEF SG!AddRule
<1>3. IsFiniteSet(rules) /\ Cardinality(rules) \in Nat
    <2>1. rules \in SUBSET Rule /\ IsFiniteSet(Rule)
        BY DEF TypeOK, SG!TypeOK
    <2>2. IsFiniteSet(rules)
        BY <2>1, FS_Subset
    <2> QED
        BY <2>2, FS_CardinalityType
<1>4. ASSUME NEW r \in Rule, SG!AddOwnRule(r) PROVE TeamInv'
    <2>1. rules' = rules \cup {r} /\ r \notin rules /\ name' = name /\ step' = step
        BY <1>4 DEF SG!AddOwnRule
    <2>2. dropped' = dropped \ {r}
        BY <1>4 DEF SG!AddOwnRule
    <2>3. Cardinality(rules') = Cardinality(rules) + 1
        BY <1>3, <2>1, FS_AddElement
    <2> QED
        BY <1>3, <2>1, <2>2, <2>3
<1>5. ASSUME NEW r \in Rule, SG!RemoveRule(r) PROVE TeamInv'
    <2>1. rules' = rules \ {r} /\ r \in rules /\ name' = name /\ step' = step
        BY <1>5 DEF SG!RemoveRule
    <2>2. Cardinality(rules') = Cardinality(rules) - 1
        BY <1>3, <2>1, FS_RemoveElement
    <2>3. \/ dropped' = {}
          \/ dropped' = dropped /\ step \in {"seed", "fill"}
          \/ /\ dropped' = dropped \cup {r} /\ step \notin {"seed", "fill"}
             /\ name = "default" => ~(Cardinality(rules) <= 5)
        BY <1>5 DEF SG!RemoveRule
    <2> QED
        BY <1>3, <2>1, <2>2, <2>3
<1>6. CASE UNCHANGED groupVars
    BY <1>6 DEF groupVars
<1> QED
    BY <1>1, <1>2, <1>4, <1>5, <1>6, GroupSteps DEF SG!Fill, SG!Users

\* A rule the team took out of a configured group does not come back
\* (security_group.py, the count of the rules in ensure_baseline_sg).
THEOREM TeamsAreHeard == Spec => []TeamsDecide
<1>1. Init => TeamInv
    BY DEF Init, SG!Init, TeamInv, SG!Rest
<1>2. TeamInv => TeamsDecide
    BY DEF TeamInv, TeamsDecide, SG!TeamsDecide
<1> QED
    BY <1>1, <1>2, TeamStep, TypeCorrect, PTL DEF Spec

=============================================================================
