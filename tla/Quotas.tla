--------------------------------- MODULE Quotas ---------------------------------
(***************************************************************************)
(* The quotas of a project (resources/quotas.py, ensure_quotas): compute,  *)
(* network, load balancer and block storage, one service after the other.  *)
(* Of each the limits are read, what is to be lowered is compared with     *)
(* what is in use, and the limits are sent.                                *)
(*                                                                         *)
(* Every API call is a step.  A level is a limit as the API has it: -1     *)
(* stands for none.  Users, administrators and the other handlers change   *)
(* usage and limits between any two steps.                                 *)
(***************************************************************************)
EXTENDS Integers

CONSTANTS
    Key,        \* the keys of all quotas
    ServiceOf,  \* the service each key belongs to
    Configured, \* keys the configuration has a value for
    Floating,   \* floating_ips, which belongs to the preallocation
    Default,    \* what Cinder resets a key to that is not sent
    Refusing,   \* services that refuse a limit below what is in use
    MaxLevel,   \* bound on limits and usage
    Unlimited,  \* may limits be -1?
    Faults,     \* what may go wrong, see below
    MaxEvents   \* bound on the steps of the world outside and on faults

(* "crash"  a run dies                                                      *)
(* "fail"   a call fails after its retries                                  *)
(* "echo"   the answer to an update is lost, and the function is tried again *)
(* "others" administrators and other tools set limits                       *)
Fault   == {"crash", "fail", "echo", "others"}
Service == {"compute", "neutron", "balancer", "storage"}

Level == 0..MaxLevel \cup (IF Unlimited THEN {-1} ELSE {})

\* What the constants must satisfy: assumed by Baseline, which instantiates
\* this module.
ConstantsOK == /\ MaxLevel \in Nat /\ Unlimited \in BOOLEAN /\ Default \in 0..MaxLevel
               /\ ServiceOf \in [Key -> Service] /\ Refusing \subseteq Service
               /\ Configured \subseteq Key
               /\ Faults \subseteq Fault /\ MaxEvents \in Nat

VARIABLES
    limit,      \* the limit of each key
    used,       \* what is in use of each key
    want,       \* the configuration: cfg.quotas
    pc, svc,    \* where the run is, and with which service
    cfg,        \* the configuration it loaded
    current,    \* what it read of the service
    desired,    \* what it is to send
    grown,      \* keys whose usage grew since it was read, or since the limits were
    touched,    \* keys whose limit others set since the limits were read
    events      \* events still allowed

worldVars == <<limit, used, want>>
runVars   == <<pc, svc, cfg, current, desired>>
vars      == <<worldVars, runVars, grown, touched, events>>

Rest == {"idle", "passed"}
PC   == Rest \cup {"read", "usage", "update"}

TypeOK ==
    /\ limit \in [Key -> Level] /\ used \in [Key -> 0..MaxLevel]
    /\ want \in [Key -> Level] /\ cfg \in [Key -> Level]
    /\ pc \in PC /\ svc \in Service
    /\ current \in [Key -> Level] /\ desired \in [Key -> Level]
    /\ grown \subseteq Key /\ touched \subseteq Key
    /\ events \in 0..MaxEvents

\* A new project, or one that is used to its limits.
Init ==
    /\ limit = [k \in Key |-> Default] /\ used \in {[k \in Key |-> u] : u \in {0, Default}}
    /\ want = [k \in Key |-> Default]
    /\ pc = "idle" /\ svc = "compute"
    /\ cfg = want /\ current = limit /\ desired = want
    /\ grown = {} /\ touched = {}
    /\ events = MaxEvents

-----------------------------------------------------------------------------
(* A run.                                                                  *)

Keys(s) == {k \in Key : ServiceOf[k] = s}

Managed(s) == (Configured \cap Keys(s)) \ {Floating}

\* A fault happens: it is allowed, and it is counted.
Strikes(f) == f \in Faults /\ events > 0 /\ events' = events - 1

Start ==
    /\ pc \in Rest
    /\ cfg' = want
    /\ pc' = "read" /\ svc' = "compute"
    /\ UNCHANGED <<worldVars, current, desired, grown, touched, events>>

After(s) == CASE s = "compute" -> "neutron" [] s = "neutron" -> "balancer" [] OTHER -> "storage"

\* The service is done with, and its limits were right, are set, or were given up.
GoesOn ==
    /\ pc' = IF svc = "storage" THEN "passed" ELSE "read"
    /\ svc' = After(svc)

\* Numbers are compared: no limit, -1, is the smallest.
Lowered(old, new) == {k \in Managed(svc) : new[k] < old[k]}
Differs(old, new) == \E k \in Managed(svc) : new[k] # old[k]

\* The limits of load balancers are not compared with usage.
ReadLimits ==
    /\ pc = "read"
    /\ current' = limit /\ desired' = cfg
    /\ IF Differs(limit, cfg)
       THEN /\ pc' = IF svc # "balancer" /\ Lowered(limit, cfg) # {} THEN "usage" ELSE "update"
            /\ UNCHANGED svc
       ELSE GoesOn
    /\ grown' = {} /\ touched' = {}
    /\ UNCHANGED <<worldVars, cfg, events>>

\* Slips of Clamped: nothing is compared with usage; what cannot be lowered
\* all the way is not lowered.
Unclamped == desired
Unlowered == [k \in Key |-> IF k \in Lowered(current, desired) /\ desired[k] < used[k]
                            THEN current[k] ELSE desired[k]]

\* What is to be lowered goes no lower than what is in use.
Clamped == [k \in Key |-> IF k \in Lowered(current, desired) /\ desired[k] < used[k]
                          THEN used[k] ELSE desired[k]]

ReadUsage ==
    /\ pc = "usage"
    /\ desired' = Clamped
    /\ IF Differs(current, Clamped) THEN pc' = "update" /\ UNCHANGED svc ELSE GoesOn
    /\ grown' = {}
    /\ UNCHANGED <<worldVars, cfg, current, touched, events>>

\* A slip of Sent: what is not configured is not sent to Cinder either.
SentDesired == [k \in Managed(svc) |-> desired[k]]

\* Cinder gets its keys back as they were read, with what is configured on top.
Sent == [k \in IF svc = "storage" THEN Keys(svc) ELSE Managed(svc) |->
            IF k \in Managed(svc) THEN desired[k] ELSE current[k]]

\* What a service makes of an update.
Below(l, n) == l # -1 /\ l < n
Refused     == svc \in Refusing /\ \E k \in DOMAIN Sent : Below(Sent[k], used[k])
Resets(k)   == svc = "storage" /\ k \in Keys(svc)
SetLimits   == limit' = [k \in Key |-> CASE k \in DOMAIN Sent -> Sent[k]
                                         [] k \notin DOMAIN Sent /\ Resets(k) -> Default
                                         [] OTHER -> limit[k]]

Update ==
    /\ pc = "update"
    /\ ~Refused
    /\ SetLimits
    /\ GoesOn
    /\ UNCHANGED <<used, want, cfg, current, desired, grown, touched, events>>

\* A failure of compute or network ends the project's part of the run, one of
\* load balancers or block storage is passed over.
Raises == IF svc \in {"balancer", "storage"} THEN GoesOn ELSE pc' = "idle" /\ UNCHANGED svc

UpdateRefused ==
    /\ pc = "update"
    /\ Refused
    /\ Raises
    /\ UNCHANGED <<worldVars, cfg, current, desired, grown, touched, events>>

CallFails ==
    /\ Strikes("fail")
    /\ pc \notin Rest
    /\ Raises
    /\ UNCHANGED <<worldVars, cfg, current, desired, grown, touched>>

\* The update took effect, and the whole function runs again; that of load
\* balancers passes over the error.
Echo ==
    /\ Strikes("echo")
    /\ pc = "update" /\ svc # "balancer"
    /\ ~Refused
    /\ SetLimits
    /\ pc' = "read"
    /\ UNCHANGED <<used, want, svc, cfg, current, desired, grown, touched>>

Step == Start \/ ReadLimits \/ ReadUsage \/ Update \/ UpdateRefused

Crash ==
    /\ Strikes("crash")
    /\ pc \notin Rest
    /\ pc' = "idle"
    /\ UNCHANGED <<worldVars, svc, cfg, current, desired, grown, touched>>

-----------------------------------------------------------------------------
(* The world outside.                                                      *)

Happens == events > 0 /\ events' = events - 1

\* Users take and give back what the keys count, within the limits.
Use(k) ==
    /\ Happens
    /\ \/ /\ Below(used[k], MaxLevel) /\ (limit[k] = -1 \/ used[k] < limit[k])
          /\ used' = [used EXCEPT ![k] = @ + 1]
          /\ grown' = grown \cup {k}
       \/ /\ used[k] > 0
          /\ used' = [used EXCEPT ![k] = @ - 1]
          /\ UNCHANGED grown
    /\ UNCHANGED <<limit, want, runVars, touched>>

OthersSet(k) ==
    /\ Strikes("others")
    /\ \E l \in Level : /\ ~Below(l, used[k])
                        /\ limit' = [limit EXCEPT ![k] = l]
    /\ touched' = touched \cup {k}
    /\ UNCHANGED <<used, want, runVars, grown>>

Edit(k) ==
    /\ Happens
    /\ k \in Configured
    /\ \E l \in Level : want' = [want EXCEPT ![k] = l]
    /\ UNCHANGED <<limit, used, runVars, grown, touched>>

World == \E k \in Key : Use(k) \/ OthersSet(k) \/ Edit(k)

Next == Step \/ CallFails \/ Echo \/ Crash \/ World

Spec == Init /\ [][Next]_vars

\* The tool runs on a cadence.
FairSpec == Spec /\ WF_vars(Step)

-----------------------------------------------------------------------------
(* Properties.                                                             *)

\* Only a run changes its place: these are the steps that send an update.
Sends == pc = "update" /\ pc' # pc

\* A run lowers no limit below what is in use, unless usage grew or the limit
\* was changed by others since it looked.  Load balancers are not looked at.
UsageIsRespected ==
    [][\A k \in Key : Sends /\ Below(limit'[k], used[k]) /\ (limit[k] = -1 \/ limit'[k] < limit[k])
           => ServiceOf[k] = "balancer" \/ k \in grown \cup touched]_vars

\* A run changes only what is configured and not the preallocation's: what
\* others have set stays, but for a key of Cinder that they set between its
\* read and its update.
OthersKeysStay ==
    [][\A k \in Key : Sends /\ limit'[k] # limit[k]
           => k \in Configured \ {Floating} \/ (ServiceOf[k] = "storage" /\ k \in touched)]_vars

\* Once nothing changes any more, the limits are as configured, or as low as
\* usage allows, whatever failed before.
EventuallyAsked ==
    <>[](\A k \in Configured \ {Floating} :
            limit[k] = want[k] \/ (Below(want[k], used[k]) /\ limit[k] = used[k]))

=============================================================================
