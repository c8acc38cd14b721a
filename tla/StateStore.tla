------------------------------- MODULE StateStore -------------------------------
(***************************************************************************)
(* YamlFileStateStore (state_store.py): the state file of one project,     *)
(* shared by several processes.  A save reads the whole file, changes one  *)
(* key in memory, writes a temporary file and renames it over the state    *)
(* file, all under a lock file; a load reads under the same lock.  A       *)
(* process may die between any two steps: the operating system then frees  *)
(* the lock and the temporary file stays behind.                           *)
(*                                                                         *)
(* A key path is one key: traversal keeps the siblings of a nested key.    *)
(***************************************************************************)
EXTENDS FiniteSets

CONSTANTS Proc, Key, Val, Unset

ASSUME UnsetAssumption == Unset \notin Val

VARIABLES
    kind,       \* what the state file is: missing, a mapping, other YAML, or not YAML
    data,       \* the mapping in the state file, when it is one
    temp,       \* the temporary file: absent, cut short, or complete
    tdata,      \* the mapping in a complete temporary file
    holder,     \* who holds the lock file
    pc,         \* where each process stands in its call
    req,        \* its call
    mem,        \* the mapping it has in memory
    got         \* what its last load returned

vars == <<kind, data, temp, tdata, holder, pc, req, mem, got>>

Map     == [Key -> Val \cup {Unset}]
Empty   == [k \in Key |-> Unset]
Request == [op : {"load", "save"}, key : Key, val : Val]
PC      == {"idle", "exists", "lock", "read", "open", "dump", "replace", "raise",
            "release", "return"}
Locked  == {"read", "open", "dump", "replace", "raise", "release"}

TypeOK ==
    /\ kind \in {"missing", "map", "nonmap", "corrupt"}
    /\ data \in Map
    /\ temp \in {"absent", "partial", "complete"}
    /\ tdata \in Map
    /\ holder \subseteq Proc
    /\ pc \in [Proc -> PC]
    /\ req \in [Proc -> Request]
    /\ mem \in [Proc -> Map]
    /\ got \in [Proc -> Map]

Init ==
    /\ kind = "missing" /\ data = Empty
    /\ temp = "absent"  /\ tdata = Empty
    /\ holder = {}
    /\ pc = [p \in Proc |-> "idle"]
    /\ req \in [Proc -> Request]
    /\ mem = [p \in Proc |-> Empty]
    /\ got = [p \in Proc |-> Empty]

Goto(p, from, to) ==
    /\ pc[p] = from
    /\ pc' = [pc EXCEPT ![p] = to]

\* What a reader makes of the file: anything but a mapping counts as empty.
View == IF kind = "map" THEN data ELSE Empty

-----------------------------------------------------------------------------

CallLoad(p) ==
    /\ Goto(p, "idle", "exists")
    /\ \E r \in Request : r.op = "load" /\ req' = [req EXCEPT ![p] = r]
    /\ UNCHANGED <<kind, data, temp, tdata, holder, mem, got>>

CallSave(p) ==
    /\ Goto(p, "idle", "lock")
    /\ \E r \in Request : r.op = "save" /\ req' = [req EXCEPT ![p] = r]
    /\ UNCHANGED <<kind, data, temp, tdata, holder, mem, got>>

\* A load looks for the file before it asks for the lock.
LoadMissing(p) ==
    /\ Goto(p, "exists", "return")
    /\ kind = "missing"
    /\ got' = [got EXCEPT ![p] = Empty]
    /\ UNCHANGED <<kind, data, temp, tdata, holder, req, mem>>

LoadExisting(p) ==
    /\ Goto(p, "exists", "lock")
    /\ kind # "missing"
    /\ UNCHANGED <<kind, data, temp, tdata, holder, req, mem, got>>

\* A slip of Acquire: the lock is taken without waiting for its holder.
AcquireAnyway(p) ==
    /\ Goto(p, "lock", "read")
    /\ holder' = {p}
    /\ UNCHANGED <<kind, data, temp, tdata, req, mem, got>>

Acquire(p) ==
    /\ Goto(p, "lock", "read")
    /\ holder = {}
    /\ holder' = {p}
    /\ UNCHANGED <<kind, data, temp, tdata, req, mem, got>>

\* A slip of LockTimeout: no timeout, the call waits for as long as it takes.
LockNoTimeout(p) == FALSE /\ pc[p] = "lock" /\ UNCHANGED vars

\* The lock is held by someone else until the timeout: the call raises.
LockTimeout(p) ==
    /\ Goto(p, "lock", "idle")
    /\ holder # {}
    /\ UNCHANGED <<kind, data, temp, tdata, holder, req, mem, got>>

ReadForLoad(p) ==
    /\ Goto(p, "read", "release")
    /\ req[p].op = "load"
    /\ got' = [got EXCEPT ![p] = View]
    /\ UNCHANGED <<kind, data, temp, tdata, holder, req, mem>>

ReadForSave(p) ==
    /\ Goto(p, "read", "open")
    /\ req[p].op = "save"
    /\ kind # "nonmap"
    /\ mem' = [mem EXCEPT ![p] = [View EXCEPT ![req[p].key] = req[p].val]]
    /\ UNCHANGED <<kind, data, temp, tdata, holder, req, got>>

\* YAML that is not a mapping is tolerated by load; in save the assignment of
\* the key raises.
ReadNonMap(p) ==
    /\ Goto(p, "read", "raise")
    /\ req[p].op = "save"
    /\ kind = "nonmap"
    /\ UNCHANGED <<kind, data, temp, tdata, holder, req, mem, got>>

\* A slip of OpenTemp: the state file itself is opened for writing.
OpenInPlace(p) ==
    /\ Goto(p, "open", "dump")
    /\ temp' = "partial"
    /\ kind' = "corrupt"
    /\ data' = Empty
    /\ UNCHANGED <<tdata, holder, req, mem, got>>

\* Opening the temporary file for writing truncates what is there.
OpenTemp(p) ==
    /\ Goto(p, "open", "dump")
    /\ temp' = "partial"
    /\ UNCHANGED <<kind, data, tdata, holder, req, mem, got>>

DumpTemp(p) ==
    /\ Goto(p, "dump", "replace")
    /\ temp'  = "complete"
    /\ tdata' = mem[p]
    /\ UNCHANGED <<kind, data, holder, req, mem, got>>

\* The rename is atomic; whatever the temporary file holds becomes the file.
Replace(p) ==
    /\ Goto(p, "replace", "release")
    /\ kind' = IF temp = "complete" THEN "map" ELSE "corrupt"
    /\ data' = IF temp = "complete" THEN tdata ELSE Empty
    /\ temp' = "absent"
    /\ UNCHANGED <<tdata, holder, req, mem, got>>

\* Leaving the with block frees the lock, also when the body raised.
Release(p) ==
    /\ pc[p] \in {"release", "raise"}
    /\ pc'     = [pc EXCEPT ![p] = "idle"]
    /\ holder' = holder \ {p}
    /\ mem'    = [mem EXCEPT ![p] = Empty]
    /\ UNCHANGED <<kind, data, temp, tdata, req, got>>

Return(p) ==
    /\ Goto(p, "return", "idle")
    /\ UNCHANGED <<kind, data, temp, tdata, holder, req, mem, got>>

\* The process dies, its memory is gone, the operating system frees its lock.
Crash(p) ==
    /\ pc[p] # "idle"
    /\ pc'     = [pc EXCEPT ![p] = "idle"]
    /\ holder' = holder \ {p}
    /\ mem'    = [mem EXCEPT ![p] = Empty]
    /\ UNCHANGED <<kind, data, temp, tdata, req, got>>

\* Something other than the store damages the file while nobody is using it.
Damage ==
    /\ kind # "missing"
    /\ holder = {}
    /\ kind' \in {"nonmap", "corrupt"}
    /\ data' = Empty
    /\ UNCHANGED <<temp, tdata, holder, pc, req, mem, got>>

Progress(p) ==
    \/ LoadMissing(p) \/ LoadExisting(p)
    \/ Acquire(p) \/ LockTimeout(p)
    \/ ReadForLoad(p) \/ ReadForSave(p) \/ ReadNonMap(p)
    \/ OpenTemp(p) \/ DumpTemp(p) \/ Replace(p)
    \/ Release(p) \/ Return(p)

Next ==
    \/ \E p \in Proc : CallLoad(p) \/ CallSave(p) \/ Progress(p) \/ Crash(p)
    \/ Damage

Spec == Init /\ [][Next]_vars

\* A call that was made goes on; the wait for the lock ends one way or the other.
FairSpec == Spec /\ \A p \in Proc : WF_vars(Progress(p))

-----------------------------------------------------------------------------
(* Properties.                                                             *)

\* The lock is held by exactly the processes inside a locked section, at most
\* one; from its read to its rename a save holds in memory the file with its
\* own key changed; what it renames is complete.
StoreInv ==
    /\ \A p \in Proc : p \in holder <=> pc[p] \in Locked
    /\ \A p, q \in holder : p = q
    /\ \A p \in Proc : pc[p] \in {"open", "dump", "replace"} =>
          /\ req[p].op = "save"
          /\ kind # "nonmap"
          /\ mem[p] = [View EXCEPT ![req[p].key] = req[p].val]
    /\ \A p \in Proc : pc[p] = "replace" => temp = "complete" /\ tdata = mem[p]
    /\ \A p \in Proc : pc[p] \in {"exists", "return"} => req[p].op = "load"
    /\ \A p \in Proc : pc[p] = "raise" => req[p].op = "save"

\* The variables have their types, and StoreInv holds.
Inv == TypeOK /\ StoreInv

\* How far a call has got, as its caller can tell.
Status(p) ==
    CASE pc[p] = "idle" -> "idle"
      [] pc[p] \in {"exists", "lock", "read", "open", "dump", "replace"} -> "pending"
      [] pc[p] = "raise" -> "failed"
      [] pc[p] \in {"release", "return"} -> "done"

Abs == INSTANCE StateMap WITH store <- View, status <- [p \in Proc |-> Status(p)]

\* Every load returns the map as it is at one instant of the call, every save
\* changes its own key and no other at one instant or not at all, whatever
\* interleaving of processes, lock timeouts and crashes.
ImplementsStateMap == Abs!Spec

\* A call does not wait for ever: neither a crashed nor a slow lock holder
\* blocks the others.
CallsEnd == \A p \in Proc : (pc[p] # "idle") ~> (pc[p] = "idle")

=============================================================================
