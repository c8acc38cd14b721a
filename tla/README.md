# tenantctl in TLA+

tenantctl is a command-line program that brings the projects of an OpenStack
cloud into the state a set of YAML files describes. It is invoked again and
again (by hand, by cron, from a pipeline); each invocation, called a *run* below,
loads the files, looks at the cloud and calls its APIs until they agree. What it
has done and must remember is kept in one *state file* per project.

A run is a sequence of remote calls and file writes with no transaction around
them. Users, administrators, other projects and other runs act in between, calls
fail, answers are lost and runs are killed. This directory models those
sequences call by call, model-checks them on small instances with TLC, and proves
with TLAPS what matters most for every value of the constants.

Paths of code are relative to the root of the repository (`src/reconciler.py`);
`PROJECT.json` gives the lines every definition stands for.

## 1. Inventory

| Part | State it keeps | Operations | Modelled by |
|---|---|---|---|
| State store (`state_store.py`) | `<project>.state.yaml`, its `.lock`, its temporary file | `load`, `save` | `StateStore`, against `StateMap` |
| Reservations (`resources/reservations.py`) | `granted_flavor_access`, `revoked_flavor_access`; the run-wide list of private flavors | `ensure_reservations`, `revoke_all_reservation_grants` | `Reservations`, against `AuditedList` |
| Project lifecycle (`reconciler.py`, `resources/compute.py`, `resources/project.py`, `models/lifetime.py`) | `last_reconciled_state`; the project's enabled flag and its servers in the cloud | `reconcile` and its three branches, `ensure_project`, `shelve_all_servers`, `unshelve_all_servers`, `_should_unshelve` | `Lifecycle` |
| Teardown (`resources/teardown.py`, `group_roles.py`, `reconciler.py`) | none of its own | `safety_check`, revocations, `teardown_project` | `Teardown` |
| Floating IP preallocation (`resources/prealloc/fip.py`) | `preallocated_fips`, `released_fips`; the quota | `ensure_preallocated_fips` | `PreallocFips` |
| Network stack and router IPs (`resources/network.py`, `resources/prealloc/network.py`) | `router_ips`, `released_router_ips` | `ensure_network_stack`, `track_router_ips`, `ensure_preallocated_network` | `Network`, against `AuditedList` |
| Run over all projects (`reconciler.py`, `client.py`) | the shared context of a run: the mapping read, the failures | `TenantCtl.run`, `reconcile`, `validate_scopes` | `Fleet` |
| Keystone groups (`keystone_groups.py`), group roles (`group_roles.py`), federation mapping (`federation.py`, `context.py`) | none of their own; groups, roles and the mapping in the cloud | `ensure_keystone_groups`, `ensure_group_role_assignments`, `resolve_federation_context`, `ensure_federation_mapping` | `Fleet`; the revocation in `Teardown` too |
| Quotas (`quotas.py`) | the limits in the cloud | `ensure_quotas` and its three service functions | `Quotas` in `Baseline` |
| Security group (`security_group.py`) | the group and its rules in the cloud | `ensure_baseline_sg` | `SecurityGroup` in `Baseline` |
| Retry (`utils.py`) | none | `retry` | lost answers, where the first call had an effect (`Network`, `PreallocFips`, `Reservations`, `Teardown`, `Quotas`, `SecurityGroup`) |
| Configuration (`config_loader.py` and its helpers) | the frozen `ProjectConfig` | load, merge, validate | the copy of the observed state a run takes |
| Parsers, configuration models, library exports, command line, scaffolding | | | not modelled: data, wiring, printing (section 8) |

**How the parts interact.** Everything of a run happens in one thread, in the
order of `reconciler.py`. The parts share three things: the *cloud*, which anyone
may change; the *state file*, which all handlers of a project write and which the
store keeps whole; and the *frozen configuration* of a project, into which the
observed lists of its state file are merged once, when the run starts. A handler
never reads the file again: it computes the new list from that copy and from what
it did, and writes the whole list. Most of the hard behaviour comes from there.

**What is hard.**

- A call is made first and recorded later: a run killed in between has done
  something nobody remembers.
- Two lists that must agree (granted and revoked, active and released) are
  written by two saves.
- A list is written from a copy that may be older than the last write of it, by
  another run or by an earlier step of the same run.
- What was listed is acted upon some calls later: servers, ports, floating IPs
  and projects change in between.
- One item of a loop fails, the loop goes on and the run is taken for complete.
- A call whose answer is lost is made again: it creates a twin, meets its own conflict, or does
  not find what it has removed.
- What all projects share (groups, the mapping) is read before and written after the
  projects, and one project's failure must not reach the others.
- A limit is read, compared with usage and set by three calls, and Cinder wants all of
  its keys back.
- Whose the security group is follows from the number of its rules.
- Nothing remembers an intention: what the next run does depends on
  `last_reconciled_state`, the enabled flag and what is found.

**What makes each part correct.**

- *State store*: a save changes one key at one instant or not at all; the file is
  never cut short; nobody waits for ever.
- *Reservations*: access the tool granted is recorded, so that it ends with its
  reservation; access an administrator granted is not taken away; drift is healed.
- *Lifecycle*: a project ends up in its effective state; servers come back after a
  lock and only after a lock.
- *Teardown*: nothing in use is torn down; nothing is left behind; what is
  reported gone is gone.
- *Floating IPs*: count, quota and lists agree with the cloud after a run; an
  address in use is never given up; no address is both active and released.
- *Network*: a project with a network never gets a second; the two router lists
  stay apart and have no gap.
- *Run over all projects*: every project is reported failed or recorded; groups are there
  when roles are granted; the mapping agrees with the states of the projects; a broken
  project does not keep the others from converging.
- *Quotas*: limits end up as configured, never fall below what is in use, and keys that are
  not the tool's stay.
- *Security group*: a completed run leaves the configured rules, and what a team removes
  from its group stays removed.

## 2. Modules

Every component has a module with its state, its actions and its properties; an
`MC` module that gives its constants values for TLC; and a `Proofs` module that extends
it. `Baseline` composes two components, `Quotas` and `SecurityGroup`, and has one of each. A definition that begins with "A slip of X" in its comment
is a plausible bug of the definition X below it; substituted for X, it must break a
property (the list is in `PROJECT.json`, under `mutants`), and nothing else refers
to it.

All modules share some conventions. `pc` says which call comes next. `Faults`
names what may go wrong, so that a property can be checked under exactly the
disturbances it should survive. `MaxEvents` bounds the disturbances, not the runs:
runs repeat without end. Variables listed under "history" appear in no guard of
the tool's own steps.

### StateMap and StateStore

`StateMap` is the promise of the `StateStore` protocol, which `InMemoryStateStore`
keeps trivially: a map on which a load or a save takes effect at one instant
between its call and its return, or fails without effect.

`StateStore` is `YamlFileStateStore`. A load looks whether the file exists
(`LoadMissing`, `LoadExisting`) *before* it takes the lock; a save takes the lock,
reads the file, changes a key in memory, opens the temporary file (which truncates
whatever an earlier crash left), dumps into it, and renames it. Anything in the
file but a mapping counts as empty for a load; in a save, YAML that is no mapping
raises (`ReadNonMap`), text that is no YAML does not. Several processes do this at
once; any may die anywhere, which frees its lock and leaves its temporary file;
`Damage` is an editor that ruins the file while nobody holds the lock.

The refinement mapping takes `View`, what a reader makes of the file, for the map.
A save takes effect at `Replace`, a load at `LoadMissing` or `ReadForLoad`; `Damage`
is `StateMap`'s `Lose`, and a crash ends the call before or after its effect.

### AuditedList

What the handlers promise of the two lists they keep, one of what the project holds and one,
as an audit trail, of what it held before (DD-026 in `docs/DESIGN-DECISIONS.md`). `Add`
lists what was gained; `Replace` is the first tail write, and what it drops is `due`;
`Retire` is the second, which adds what is due, takes off what is active again and changes
nothing else; `Die` is a run that ends early and forgets what was due. `Note` is the write
ahead of both of an address whose reclaim was refused; `noted` is why `Retire` may leave it
although it is active. The refinement mappings (`Lists`) take the lists of the file for
`active` and `retired`, for `due` what the run in phase "audit" is about to add, and for
`noted` what the released list has over its loaded copy while a run is `Underway`.

`Reservations`, where nothing is ever noted, and `Network` implement it
(`ImplementsAuditedList`).

### Reservations

One project, its private flavors and several runs. `Load` takes the copies of both
lists; `CacheFlavors` is the run-wide flavor list being filled by an earlier project
of the run; `Diff` reads clock and list. The grant loop is `SkipManual`,
`CheckAccess`, `GrantAccess` for each flavor and one `PersistGrants` at its end; the
verification loop is `VerifyHeld`, `VerifyMissing`, `Regrant`; then come
`RevokeAccess`, `PersistFinal` and `ReconcileRevoked`, which a teardown shares
(`RevokeAll`). `CallRaises` is a call the cloud refuses because the world moved on
(the flavor vanished; a conflict in `Regrant`, which unlike `GrantAccess` does not
tolerate one). `Environment` is an administrator who grants, revokes or deletes a
flavor, a period that begins or ends, and a project that is locked or torn down.

The model knows who created an access entry (`access`); the tool does not, which is
the point of the module. `contested` collects manual grants made on a flavor the
tool already claimed, `orphans` the grants of a run that died before its write.
Overlapping runs are a switch, because the record of grants is right only without
them (section 6). `Inv` is the conjunction of the types, `ClaimInv` (whose access is whose)
and `RunInv` (file against memory); `StateStore`, `Lifecycle` and `Teardown` have an `Inv`
built alike, of the types and `StoreInv`, `LifeInv` and `CheckInv`.

### Lifecycle

One project across runs. `Start` fixes the configuration and the effective state,
`EffectiveState` being the configured state tightened by an expired lifetime.
A present run is `EnsureProject`, `Decide`, `Handlers`, and with `unshelve` the loop
`ListShelved`, `UnshelveServer`; a locked run is `Lock`, `ListActive`,
`ShelveServer`; an absent run the safety check and `DeleteProject`. `Save` records
`last_reconciled_state` after every run that raised nothing. The handlers of a
present run are one step because here only their position and their failing matter;
they have modules of their own.

Nova may shelve at once or, with the fault "slow", pass through a status in which
neither loop sees the server.

### Teardown

The safety check (`CheckServers`, `CheckVolumes`: an answer that does not come
refuses, an absent service does not), the two revocations, then the table
`Steps` (`_TEARDOWN_STEPS`): for each kind `ListKind`, `DeleteResource`, `KindDone`; a
router is prepared first (`ListPorts`, `Detach`, `ClearGateway`, `DeleteRouter`). A
failure of one resource is remembered and the loop goes on; `DeleteProject` follows
whatever failed. The cloud refuses what Neutron refuses: a router with interfaces,
an attached subnet, a network in use (`Removable`); and it may refuse what ports of servers
use (`MayBeUsed`) or an interface floating IPs are routed through (`MayRoute`). `Detach` has
four outcomes, one of them an answer that was lost: the repeated call does not find the
interface, and the router is taken for gone.

Users act at any moment: they boot servers, create and remove resources of every kind, attach
and detach subnets, while the project is there (`UserActs`). Three history variables keep apart
what this does to the guarantees: `late`, what they booted since the run began; `unlisted`, what
they created since and the run did not list afterwards; and `pulled`, the routers an interface
of which went without the run's knowing (users took it off, or its answer was lost).

### PreallocFips

`ensure_preallocated_fips`: `List`; if anything is tracked, `Drift` (adopt what is
untracked), the reclaim of missing addresses under a raised quota, `PersistDrift`,
`ReconcileReleased` and a second listing; then `MatchExactly`, or `ChooseExcess` and
`DeleteFip`, or `RaiseForGrowth` and `Grow`; then `Record` and `SetQuota`. A floating IP
is a pair of an address and an id, because a reclaimed address has a new id and the
code compares ids here and addresses there. Two external networks, `Here` and `There`,
share one quota, and only one is managed at a time. `want` may be -1, which the code
compares as a number. Whether an address is unused is read from the listing (`portless`),
not from the cloud. A lost answer makes the repeated reclaim meet its own conflict (in
`ReclaimEntry`; `echoed` keeps what the project got so), and the repeated allocation get one
more address (`GrowUnheard`). `joined` is what users associated after the listing. `known` is
the history: every
address the list named while the project held it, but for those the project lost in
a way the lists cannot show (section 5).

### Network

A run calls `ensure_network_stack`, `track_router_ips` and
`ensure_preallocated_network` in that order, and the last calls the first again when
there is no network. `FindNetwork` and `OtherNetworks` are the two looks before
anything is created; `CreateNetwork`, `CreateSubnet`, then `ReclaimRouter`
(`AddressTaken`, `PersistRefused`) or `CreateRouter`, then `Attach`; `ListRouters`,
`PersistSnapshot`, `PersistReleased`; `PreallocNetwork`. With "echo" the answer of a
creating call is lost and the retry creates a twin, or, with a fixed address, meets the
conflict its first attempt made (`ReclaimRouter`). `Raise` is a failure anywhere,
and `Impossible` what the cloud refuses. `seen` collects every address `router_ips`
ever named; `meanwhile` says whether users made or deleted networks since the run
began.

### Fleet

`reconcile` for a list of projects. `Start` loads the configuration, reads the mapping
(`ReadMapping`, the copy in the shared context) and fixes scopes and selection: all, or
what `--only` and `--project` may ask for (`Scopes`, `Selections`). `CollectGroups` resolves
the domains of the groups that present projects need (`Wanting`) and `EnsureGroup` makes
them one by one; an exception ends the phase, not the run. `EnterLoop` fixes the instant
`at` by which every project of the loop is dispatched: groups and rules are decided at
instants of their own. A present project is `Provision`, `GrantRoles`, `OtherHandlers`; the
others `Lock` or `Remove`; `HandlerRaises` is what the `try` block of the project catches;
`Save` records the state, and `SaveRaises` is its failure, outside of that block. `Federate`
compares the rules of all projects with the copy and creates or updates the mapping.

Some projects fail in every run: `Broken` ones in their handlers, `Homeless` ones among them
because their domain does not exist, `damaged` ones (any of `Damaged`) because their state file
cannot be written: these fail at the first save inside their `try` block, unless they are to be
removed, when the first save is the one outside of it. `meddled` says which shared resource others changed since the run began.

### Quotas, SecurityGroup and Baseline

`Quotas` has one map of limits for all services. Of each service in turn, `ReadLimits` reads
and compares, `ReadUsage` clamps what is to be lowered (`Clamped`), `Update` sends (`Sent`:
all keys of Cinder, the managed ones of the others). `UpdateRefused` is Nova's refusal of a
limit below usage; `Raises` tells the services whose errors end the run from those that are
passed over; `Echo` is a lost answer, after which the whole function runs again. -1 is a
level like any other, as in the code. `grown` and `touched` say what others changed since
the run looked.

`SecurityGroup` follows the group of the configured name: `Look` (none, one, or a twin that
makes the lookup raise), `Create` and then `AddRule` for each rule, or `AddRule` for what a
default group lacks while it has no more than four rules (`Unconfigured`). Rules are
compared by a function `Fingerprint`, which may take two for one. `cut` says that a run
ended while it was filling a group that counts as configured from then on; `changed`
and `dropped` are what users did.

`Baseline` instantiates both: a run does the quotas, and the group has its turn only if they
let the run pass (`SetQuotas`, `PassOn`, `Guard`).

## 3. Plan

1. `StateMap`, `StateStore` (done): everything rests on the store.
2. `Reservations`, `Lifecycle`, `Teardown` (done): what the tool may take away.
3. `PreallocFips`, `Network` (done): the lists of addresses.
4. `Fleet` (done): the run over all projects.
5. `Quotas`, `SecurityGroup`, `Baseline` (done): bounding and guarding a project.
6. Proofs of types and of the most important invariants (done for every module), and of
   the refinement of `StateMap`.
7. `AuditedList` and its refinement by `Reservations` and `Network`, and every safety property
   of a passing run as a theorem (done).
8. Open: the composition of `Reservations` with `StateMap` (and so with `StateStore`) in place
   of atomic list variables; the pure functions of the parsers against reference
   definitions; what `PreallocFips` keeps of `AuditedList`, since a scale-down gives up
   active addresses and a scale-up may list a released one.

## 4. Runs that pass

| Run | Bounds and disturbances | Question |
|---|---|---|
| `StateStore` | 2 processes, 2 keys, 1 value; crashes, a damaged file | Is the file changed by one process at a time, is what is renamed complete, is this an atomic map, and does every call end? |
| `Reservations` | 2 flavors, 2 runs one after the other, 3 events | Do file, cloud and memory agree at every step, is no manual access revoked and every revocation recorded, do the two lists implement `AuditedList`, and do runs converge after any disturbance? |
| `Lifecycle` | 2 servers, every fault, 4 events | Is there an unshelve without a lock, and does the project reach its effective state? |
| `Teardown` | 1 or 2 routers on a subnet, one resource of each other kind; crashes, failing reads and writes, lost answers, users who create and remove everything; 3 events | Is only what is empty deleted, is access taken back first, is what is reported gone gone, does the order of the table meet no refusal by itself, and is a teardown finished by later runs? |
| `PreallocFips_reclaim` | 3 addresses and 1 elsewhere, -1 to 2 wanted, changes not tracked, other projects, moves of the router, lost answers, crashes; 5 events | Are list, count and quota right after a run? |
| `PreallocFips_release` | 2 addresses, -1 to 2 wanted, no reclaim, changes tracked, lost answers, crashes, users during runs; 4 events | Is every address accounted for, is what is released gone, is what is in use kept, and do runs settle? |
| `Network` | 4 routers, 3 addresses, reclaim, lost answers, failures, wiped stacks, users' networks and routers, other projects, all between runs; 3 events | Do the lists stay apart and complete, do they implement `AuditedList`, is there never a second network, and do the lists follow the routers in the end? |
| `Fleet` | 3 projects, all in group mode; 1 and 3 share a group, 2 is in a domain that does not exist, the state file of 1 may be unwritable; one deadline, every fault; 2 events | Is every project reported or recorded, are groups there when roles are granted, does the mapping agree with what was done, and do the others converge? |
| `Baseline` | 6 keys in 4 services (one not configured, one the preallocation's), levels 0 to 2; 8 rules of which 4 come with a default group, 3 configured; either kind of group; every fault; 2 events | Does no limit fall below usage, do others' keys stay, are the configured rules there and removed ones not put back, and do limits and group end up as configured? |

**Why the bounds are enough.** Each action concerns one or two flavors, servers,
routers or addresses, and loops go in any order, so two of a kind show every
interleaving within a loop; a third address lets two move while one is held by
someone else. Each event is one step of someone else or one fault, and the
exceptions of section 6 need two or three of them (a grant, a crash, a second run).
Ids of routers are never used again, so their number bounds how many the project can
have had: `Network` assumes more ids than events, and no run stops for lack of one.
Two processes are enough for the store, where the third would wait at the same lock.
`Teardown` has one subnet, so a router has one interface and two routers share a network; routers
with several interfaces are covered by the theorems (`ReportsAreTrue`, `OrderIsRight`).

**Fairness.** The tool is invoked on a cadence, and a run that is not killed goes on:
weak fairness of a run's own step (`Step`, `Progress`, `Run`). Nova completes what it has
accepted: weak fairness of `CompleteShelve`. Nothing is assumed of crashes, faults,
users and administrators; they are bounded by `MaxEvents`, so the liveness properties
say what happens once they are quiet. In `Fleet` the
cadence is of runs for all projects; a run for one project is an event. No strong fairness is used. In the store, the
wait for the lock ends because the code gives up after a timeout, not because the lock
is handed out fairly.

**Stopping.** No run turns the deadlock check off: the tool can always start again.

## 5. What the passing runs show

Where the code cannot keep a promise in one corner, the property names the corner
instead of leaving the disturbance out; section 6 tells what happens there.

*Store.* `ImplementsStateMap` says that no interleaving, timeout or crash lets a save
lose another's key or a reader see half a file; `StoreInv` is why. The look for the
file before the lock is harmless, and so is a temporary file left by a crash. The run
checks `StoreInv` as a part of `Inv`.

*Reservations.* `GrantsRecorded`: when no run is active, what the tool granted is in
the file, except for the window inside the grant loop (`orphans`).
`RevocationsAudited`: a flavor leaves one of the two lists only for the other, except
when a run dies between the two tail writes. `ManualGrantsSurvive`: no run revokes a
manual access unless it was made on a flavor the tool already claimed (for overlapping
runs with stale copies this is proved, section 7). `ImplementsAuditedList`: the two lists are
the audited list of section 2, whatever crashes and whoever acts; in particular the last
write of a run leaves no flavor on both lists (`ListsDisjoint`, a theorem).
`EventuallyConverged`: repeated runs grant exactly
what is covered, whatever came before.

*Lifecycle.* `UnshelveOnlyAfterLock`: servers are never brought back unless a lock came
since the last full present run, or the file records nothing. `EventuallyInState`:
lifetime, edits, crashes and failing calls included, the effective state is reached
(absence only once the servers are gone). `LockedServersReturn`, the promise that a return
brings the servers back, holds without faults; with a crash it does not (section 6).

*Teardown.* `DeletedProjectsAreEmpty`: a deleted project leaves servers and volumes
only if users created them after the run that deleted it began, also when the checks
do not answer. `NoDanglingAccess`: it leaves no flavor access and no role, whoever acts.
`DeletedMeansGone`: what is reported deleted is gone, but for a router an interface of which
went without the run's knowing. `OrderNeverRefused` is the correctness of the order of the
table: left to itself, a run meets no refusal. The first failure is a call that fails, unless
users booted a server after the check, created something behind the listing of its kind, or
an interface went unknown to the run. `EventuallyTornDown`: later runs finish what a crash or
a failed check interrupted, and what is left of a deleted project is what its last run named
in its error or took for gone, or what users created behind its listing.

*Floating IPs.* After a completed run that nobody disturbed, `CountIsRight` holds with the quota
fallback and the second listing included, for counts of -1 too (what that comes to is in section
6), and so does `ListIsTrue`, but for what a reclaim got unheard when the run ends without writing
the list. `InUseStays`: with users at work during runs, scaling down gives up an address in use
only if it was put to use after the listing. Over many runs, with crashes and users in between calls, `ListsAccount`
says that no address drops out of both lists (but what a run drops that dies between
its two writes, or what users delete before the run has ever persisted it);
`ReleasedIsGone` that no entry a run carried over from the list it loaded is reported released
while it exists (of what the run itself allocates it says nothing); `EventuallyAllocated`
and `EventuallyTracked` that repeated runs allocate what is wanted and track it.

*Network.* `NothingForgotten` and `ActiveNotReleased` over resets, deletions, twins,
failures and refused reclaims (a conflict the run made itself among them), but for the
project's own address that was refused to it;
`ImplementsAuditedList`: neither of the two writers of the released list takes off what is not
active, and what leaves the first list is on the second.
`NeverASecondNetwork`, also when users act during a run (proved), but for a network they
make in that very run. `EventuallyAccurate`: the lists follow the routers, unless a twin
makes every lookup raise.

*Run over all projects.* `OutcomeIsReported`: at the end of a run every project it was
invoked for is among the failed or recorded in the state it was dispatched on, with its
roles; nobody is passed over because of another. `GroupsAreThere`: if the groups phase
succeeded, roles find their groups, though groups, roles and dispatch are decided at
different instants and a run may be for one project only. `RulesAgree`: the mapping gives no
access to a project the same run locked or removed and misses none that is present, also
when it was compared with a copy read long before. `OthersConverge`: failures of some
projects in every run do not keep the others or the mapping from converging, with three
exceptions (`Stuck`, `Starved`, `EndsRuns`: section 6).

*Quotas.* `UsageIsRespected`: between the three calls usage and limits may change, and
only a change after the look may leave a limit below usage. `OthersKeysStay`: what is not
configured, or belongs to the preallocation, is never changed, except that Cinder's
overlay sends back what it read. `EventuallyAsked`: limits end up as configured or as low as
usage allows. The run has no limit of -1.

*Security group.* `BaselineComplete`: whatever crashed or was answered twice, a completed run
leaves the configured fingerprints, unless users changed the group or an earlier run ended
while filling a group that then counted as configured. `TeamsDecide`: what users removed
from a group that counts as configured stays away. `EventuallyGuarded`: every project gets
its group in the end; this needs the quotas to let the run pass, which is why the two are
composed.

## 6. What the code does not guarantee

Three runs check a statement of the repository's documents against the code and find it
violated; `PROJECT.json` quotes the statement (`findings`).

| Run | What happens |
|---|---|
| `Lifecycle_return_crash` | A lock that shelved servers and died before `last_reconciled_state` was written is not undone: the file says `present`, and is believed. |
| `Teardown_retry` | The project is deleted although a resource could not be; no later run looks at it again. |
| `Baseline_unlimited` | A key configured to -1 (no limit) is compared as a number: it counts as lowered and is clamped to what is in use, in this and every later run. |

The other limits of the code that modelling met show as exceptions in the properties, or
as disturbances a run leaves out. Each was found as a counterexample of the property
without the exception.

- *Reservations.* Grants are made one by one and recorded after the loop, so a run that
  dies in the loop leaves access the next run takes for manual and never ends
  (`orphans`). A manual grant made between the check and the grant shows as a conflict,
  is tracked, and is revoked later; the code accepts this knowingly (`contested`). The
  tracked list is written before the revoked one. The lock of the store covers a save,
  not a run: of two overlapping runs one loses the other's record (`Overlap`).
- *Lifecycle.* `LockedServersReturn` also fails when a scoped run re-enables the project
  and records `present` without unshelving; when one unshelve fails, since the run counts
  as successful; and when a server's shelving has not completed at the return. Servers
  their users had shelved before the lock are unshelved with the others. An edit from `present` to
  `absent` is carried out like any other: `docs/README.md:317` says it is not allowed, the
  project must be locked first, while `docs/USER-GUIDE.md:661` allows it. No code compares the
  two states; the model and `EventuallyInState` follow the code.
- *Teardown.* The project is not disabled between the check and its deletion, so a server
  created after the check survives it, and Neutron may keep what its ports use (`late`). Each
  kind is listed once: what users create after that survives the project, nobody names it and no
  run looks for it; made early enough, a floating IP or an interface refuses a later step
  (`unlisted`). An interface that vanishes during the preparation makes the router count as gone,
  and so does a detachment whose answer is lost: the retry (`utils.py:181`) gets "not found",
  which `_safe_delete` takes for the router (`teardown.py:202`), and the router with what is
  still attached stays (`pulled`).
- *Floating IPs.*
  - Without `track_fip_changes`, addresses a dead run allocated are never listed once the
    count is right.
  - A reclaim whose answer is lost is repeated and meets its own conflict (`fip.py:250`,
    `utils.py:181`), which is taken for the address being somebody else's: the project holds
    it, the file has it as released, and if the count is right then the run completes with a
    list that lacks it, until the next run adopts it (`echoed`). `fip.py:676` says the
    remaining floating IPs are always persisted.
  - An address released and allocated again in one run, or reclaimed unheard, is on
    both lists until the next run, for good if `floating_ips` is set to 0 meanwhile
    (`want # 0`, and `ListsAccount` and `ReleasedIsGone` speak of entries a whole run carried
    over). `docs/USER-GUIDE.md:434` says that consumers can trust "released" to mean not
    currently allocated.
  - `floating_ips: -1` is valid and means unlimited (`models/quotas.py:129`,
    `docs/CONFIG-SCHEMA.md:1746`), but any count is more than -1 (`fip.py:878`): every
    address that is not in use is released, in every run, and the quota is set to what is left,
    so the project may get no more. This is what `CountIsRight` says for -1; no document asks
    for it.
  - A floating IP associated after the listing is deleted all the same (`joined`), while
    `docs/USER-GUIDE.md:928` says that one in use cannot be released.
  - When the router moves, addresses of the old network are recorded as released while the
    project holds them, and count against the quota so that a scale-up may fail in every
    run (moves occur in `PreallocFips_reclaim` only, and `ReleasedIsGone` is proved without
    them).
- *Network.* With reclaim, the address a run was refused is recorded as released after the
  list was loaded; if a router of the project holds it, it is on both lists until the next
  run (`cfg.previous`). The run may have been refused by itself: a creation with a fixed address
  whose answer is lost is repeated and meets its own conflict (`network.py:260`), so the first
  router stays without an interface beside a second one. When users act during a run with reclaim, the second call of `ensure_network_stack`
  may undo what `track_router_ips` wrote: they delete the stack after the routers were listed,
  the stack is created again, its address is refused, and the released list is written from
  the copy loaded at the start (`network.py:266`). DD-026 wants one write of it per run
  (`docs/DESIGN-DECISIONS.md:2689`) for this reason. The run `Network` lets users act between
  runs only, and the theorems have the same condition; without reclaim they have none. A network without a router is taken for a complete
  stack. A project with two networks of one name fails in every later run, at the lookup
  by name (`twin`).
- *Run over all projects.* One domain that does not exist ends the groups phase for all
  projects, in every run: those whose group is not there yet fail until somebody repairs the
  configuration of the other (`Starved`); `docs/DESIGN-DECISIONS.md:587` says that one
  misconfigured project should not prevent the others from being provisioned. The two saves
  after a project (`reconciler.py:459-468`) stand outside its `try`: a project to be removed whose
  state file cannot be written ends every run there, before the projects that follow and the
  mapping have their turn (`EndsRuns`), while `docs/DESIGN-DECISIONS.md:580-583` says that a failed
  project does not block the others. In the other states such a project fails earlier, at the
  save of its ids, inside the `try`; there only a save that fails for once, for want of the
  lock, ends the run. A project to be removed whose group somebody
  deleted can never be torn down, since the revocation looks the group up first (`Stuck`).
  Groups are deduplicated by name only (`keystone_groups.py:69`, the comment at 54 speaks of
  names and domains), and roles look a group up without its domain (`group_roles.py:30`): the
  model has one domain.
- *Quotas.* Once a limit is -1, a finite value is never compared with usage, since no number
  is below -1. Limits of load balancers are not compared with usage at all. A key of Cinder
  that others set between the read and the update is set back (`touched`).
- *Security group.* A run that ends while it fills a new group, or a default group that has
  more than four rules by then, leaves it incomplete for good (`cut`). A repeated creation
  makes a twin, after which every lookup raises. In a new group a rule that is there (an
  answer lost, or equal to one Neutron made) is a conflict that ends the run. A default group
  that a team trims to four rules or fewer counts as new and is filled again
  (`security_group.py:154`): `TeamsDecide` speaks of groups with more (`dropped`). Rules that
  differ only in ethertype or remote group count as the same (`Fingerprint`).

## 7. Proofs

All proofs are for arbitrary constants, assuming only what the modules assume of them
(`ASSUME`: switches are Booleans, bounds are naturals, the faults are the named ones;
in `Network`, more router ids than events; in `PreallocFips`, finitely many addresses
and counts that are naturals or -1, as the code validates them; in `Teardown`, that no resource is of
two kinds, or an interface; in `Baseline`, a finite set of rules, four of which come with a default group; in
`StateStore`, `Unset` is no value).

| Module | Theorem | Under | Argument |
|---|---|---|---|
| `StateStoreProofs` | `TypeCorrect`, `StoreCorrect`, together `InvHolds` | | `StoreInv` is inductive with the type: who holds the lock is inside the section, so no other step changes the file between a save's read and its rename. |
| | `Refinement` (`ImplementsStateMap`) | | Initial states map to initial states; each action of `Progress` maps to the step its section names or to a stutter. `StoreInv` is needed at `Replace` only: what is renamed is the present map with one key changed. |
| `ReservationsProofs` | `TypeCorrect` | | |
| | `ClaimCorrect`, `ManualGrantsAreSafe` | overlapping runs too | A flavor is claimed while it is on the file's list or on a run's. `ClaimInv`: a manual access on a claimed flavor was made after the claim. Every list revocation works on is a subset of a loaded copy, hence claimed. |
| | `RunCorrect`, `GrantsAreRecorded`, `ListsAreDisjoint`; `InvHolds` | `Overlap = FALSE` | `RunInv` says for each phase how the file relates to what the run holds; the step of one run leaves the others, which have ended, alone (`StepOthers`). |
| | `RevocationsAreAudited` | `Overlap = FALSE` | At the first tail write what leaves the list becomes pending; the second computes from a copy that is, by `RunInv`, still the file's list (`StepAudited`). |
| | `Refinement` (`ImplementsAuditedList`) | `Overlap = FALSE` | Each step of a run maps to `Add`, `Replace`, `Retire`, `Die` or a stutter (`StepMaps`); of all runs only one can be between the two writes. |
| `LifecycleProofs` | `TypeCorrect`, `LifeCorrect`, together `InvHolds`; `UnshelvesAfterLockOnly` | any faults, with and without a state store | `LifeInv`: a recorded lock was a lock, and the decision to unshelve is still justified when the run acts on it, since no other action of the tool can lift the lock in between. |
| `TeardownProofs` | `TypeCorrect`, `AccessIsTakenBack` | any faults | By phase: past a revocation, that access is gone. |
| | `ChecksHold`, `ProjectsAreEmpty`; `InvHolds` | any faults | `CheckInv`: a check that left no error saw nothing, and what appears later is `late`. |
| | `ReportsAreTrue` | any faults | `DeletedMeansGone` with `PrepareInv`: an interface listed is there until the run or a user takes it off, so "not found" comes from the preparation of a `pulled` router only: users took the interface off, or the answer to its detachment was lost. |
| | `OrderIsRight` | any faults; the property excepts what users do behind a run's back | `TurnInv`: while nothing has failed and no interface went unknown to the run, no floating IP is left once their turn is over, no interface once the routers had theirs, but for the unlisted, and what is left during a turn is still to be done; `OrderInv` adds that of each kind only its own resources are worked on. A refusal needs one of those that are gone. |
| `NetworkProofs` | `TypeCorrect` | | With `ReclaimInv`: an address is reclaimed only when there is one. |
| | `ActiveIsNotReleased` | no reclaim, or no one acts during a run | `ListsInv` relates the file to the copies in each phase, separately for the first and the second creation of the stack; `OnceInv`: a run that reclaims and is not disturbed creates the stack once. |
| | `HistoryHasNoGap` | the same | `HistoryInv` on top of it: the file accounts for every address at every step but between the two writes; there the loaded copies and what was listed do. |
| | `Refinement` (`ImplementsAuditedList`) | the same | From `ListsInv`: either writer starts from a copy that holds everything on the list but the refused address, and that one was active and is active or newly released after the listing (`AuditRetires`). |
| | `OneNetwork` | any faults | What was looked up still holds when the network is created, unless users changed it (`meanwhile`). |
| `PreallocFipsProofs` | `TypeCorrect` | | With `FiniteInv`: what is counted is finite, so quotas are numbers. |
| | `ListsAreComplete` | any faults | By phase, `AccountInv`: the file, the copy loaded and what the run holds account for every known address; `CarriedInv`: no entry the run carried over is on the released list after it was written. |
| | `ReleasedAreGone` | no moves of the router; of entries carried over from the load | `LivesInv`: what is released is dead, since ids are never used again; `HomeInv`: every entry is of the one network the run lists, so an address that is missing there is not held. |
| | `ListIsRight` | no users during a run | `TruthInv`: what the run believes it has, listed and made, is what the project has but for what it got unheard (`echoed`), in each phase, drift and second listing included. |
| | `CountIsKept` | no users during a run | `CountInv`: what exists, less what is chosen for deletion and unused, is enough and not too much, and growth stops at what is wanted; the quota holds what the project has. |
| | `UsedStay` | any faults | `JoinedInv`: what is to be deleted had no port when it was listed, so that it is in use only if users associated it since. |
| `FleetProofs` | `TypeCorrect`, `OutcomesAreReported` | any faults | `PlaceInv`: what is pending, done and failed at each place of the run; `SettledInv`: whoever is no longer pending is settled, and no later step unsettles it. |
| | `GroupsAreFound` | any faults | `GroupInv`: the groups there are and those still to be looked for are all that present projects need, now and at the instant of the loop, since a lifetime only tightens. |
| | `MappingAgrees` | any faults | `RuleInv`: while nobody meddles the mapping is what was read, so equality with the copy is equality with the mapping. |
| `BaselineProofs` | `TypeCorrect`, `OthersKeysAreKept` | any faults | `ReadInv`: a limit is as it was read, but for what others touched. |
| | `UsageIsKept` | no limit is -1 | `ClampInv`: what is to be sent lowers nothing below usage but for keys that grew or were touched. |
| | `BaselineIsComplete`, `TeamsAreHeard` | any rules and fingerprints | `FillInv`: what is there and what is still to be added cover the configured fingerprints. `TeamInv`: what users dropped is not among what is still to be added. |

The hypotheses and the exceptions are not a convenience: with overlapping runs, a router that moves, an
unlimited key, or users who act during a run that reclaims or allocates, the statements are
false (section 6).

**Model-checked only.** Liveness under fairness (the properties `Eventually...`, `CallsEnd`,
`OthersConverge`) and everything that needs `ENABLED`. Every other property of a passing run
is stated by a theorem.
Induction over data and recursive operators are beyond the prover; none of these modules
has a recursive definition.

## 8. What is not modelled

- *Dry run and offline mode* change nothing, and are left out throughout.
- *Wording*: actions, logs and reports, unless a property is about what was reported
  (`Teardown`). Among them the warning about patterns without a match, which is kept in
  the state file but decides only what is logged (`reservations.py:110`), and the
  project metadata written for readers (`reconciler.py:147`).
- *Attempts and backoff* of `retry`: a call fails after its retries or it does not. A
  repeated call whose first attempt had an effect is modelled where the run takes the second
  answer for something else: a twin (networks, routers, floating IPs, the security group), a
  conflict it made itself (flavor access, reclaimed addresses, rules), an interface that is not
  found, a quota update sent anew. Elsewhere (projects, Keystone groups, subnets, the mapping, shelving)
  it does the same again, or fails the step although it took effect, and the next run finds it done.
- *Data of entries*: reasons and timestamps. Lists are sets; the code looks entries up
  by id or address.
- *Nested keys* of the state file: one key stands for a path.
- *Static mapping rules* and the resolution of the mapping's id: the static rules never
  change, and one id is assumed. The id that is read comes from the defaults or a project
  (`context.py:162`), the id that is written from a project (`federation.py:233`).
- *Period and unit parsers*: grammars of strings. Reservations and quotas are modelled on the
  instants and numbers they yield.
- *Merging, placeholders and validation of the configuration*: functions of files that are
  read once, before anything runs.
- *Configuration models, library exports, command line, scaffolding*: records, wiring and
  printing.
- *OpenStack* is external and known by what the code expects of it: the conflicts,
  "not found" answers and refusals the code handles. The definitions are marked so in
  the map.
