-------------------------------- MODULE StateMap --------------------------------
(***************************************************************************)
(* What the StateStore protocol (state_store.py) promises of one project's *)
(* state: a map from keys to values on which every load and every save     *)
(* takes effect at one instant between its call and its return, or not at  *)
(* all.  InMemoryStateStore is this map; YamlFileStateStore, modelled in   *)
(* StateStore, implements it on top of a file system that several          *)
(* processes share.                                                        *)
(***************************************************************************)
CONSTANTS
    Proc,       \* callers
    Key,        \* key paths
    Val,        \* values
    Unset       \* what a key holds before its first save

VARIABLES
    store,      \* the map
    status,     \* progress of each caller's current call
    req,        \* what each caller asked for
    got         \* what each caller's last load returned

vars == <<store, status, req, got>>

Map     == [Key -> Val \cup {Unset}]
Empty   == [k \in Key |-> Unset]
Request == [op : {"load", "save"}, key : Key, val : Val]
Status  == {"idle", "pending", "done", "failed"}

TypeOK ==
    /\ store \in Map
    /\ status \in [Proc -> Status]
    /\ req \in [Proc -> Request]
    /\ got \in [Proc -> Map]

Init ==
    /\ store = Empty
    /\ status = [p \in Proc |-> "idle"]
    /\ req \in [Proc -> Request]
    /\ got = [p \in Proc |-> Empty]

Call(p, r) ==
    /\ status[p] = "idle"
    /\ status' = [status EXCEPT ![p] = "pending"]
    /\ req'    = [req EXCEPT ![p] = r]
    /\ UNCHANGED <<store, got>>

ApplyLoad(p) ==
    /\ status[p] = "pending"
    /\ req[p].op = "load"
    /\ got'    = [got EXCEPT ![p] = store]
    /\ status' = [status EXCEPT ![p] = "done"]
    /\ UNCHANGED <<store, req>>

ApplySave(p) ==
    /\ status[p] = "pending"
    /\ req[p].op = "save"
    /\ store'  = [store EXCEPT ![req[p].key] = req[p].val]
    /\ status' = [status EXCEPT ![p] = "done"]
    /\ UNCHANGED <<req, got>>

\* A call that raises has changed nothing.
Fail(p) ==
    /\ status[p] = "pending"
    /\ status' = [status EXCEPT ![p] = "failed"]
    /\ UNCHANGED <<store, req, got>>

\* The call returns or raises, or its process dies: before it took effect or
\* after.
End(p) ==
    /\ status[p] # "idle"
    /\ status' = [status EXCEPT ![p] = "idle"]
    /\ UNCHANGED <<store, req, got>>

\* Something other than the store destroys the content.
Lose ==
    /\ store' = Empty
    /\ UNCHANGED <<status, req, got>>

Next ==
    \/ \E p \in Proc : \/ \E r \in Request : Call(p, r)
                       \/ ApplyLoad(p) \/ ApplySave(p) \/ Fail(p) \/ End(p)
    \/ Lose

Spec == Init /\ [][Next]_vars

=============================================================================
