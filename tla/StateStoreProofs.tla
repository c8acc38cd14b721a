---------------------------- MODULE StateStoreProofs ----------------------------
(* Proofs that the locked, rename-based state file keeps its invariant and *)
(* implements the atomic map, for any processes, keys and values.          *)
EXTENDS StateStore, TLAPS

USE UnsetAssumption

-----------------------------------------------------------------------------
(* Types.                                                                  *)

LEMMA EmptyType == Empty \in Map
  BY DEF Empty, Map

LEMMA ViewType == TypeOK => View \in Map
  BY EmptyType DEF TypeOK, View

LEMMA InitType == Init => TypeOK
  BY EmptyType DEF Init, TypeOK, PC

LEMMA ProgressType ==
  ASSUME TypeOK, NEW p \in Proc, Progress(p) PROVE TypeOK'
  <1> USE EmptyType DEF TypeOK, PC, Goto
  <1>1. CASE LoadMissing(p)  BY <1>1 DEF LoadMissing
  <1>2. CASE LoadExisting(p) BY <1>2 DEF LoadExisting
  <1>3. CASE Acquire(p)      BY <1>3 DEF Acquire
  <1>4. CASE LockTimeout(p)  BY <1>4 DEF LockTimeout
  <1>5. CASE ReadForLoad(p)  BY <1>5, ViewType DEF ReadForLoad
  <1>6. CASE ReadForSave(p)
    <2>1. [View EXCEPT ![req[p].key] = req[p].val] \in Map
      BY ViewType DEF Map, Request
    <2> QED BY <1>6, <2>1 DEF ReadForSave
  <1>7. CASE ReadNonMap(p)   BY <1>7 DEF ReadNonMap
  <1>8. CASE OpenTemp(p)     BY <1>8 DEF OpenTemp
  <1>9. CASE DumpTemp(p)     BY <1>9 DEF DumpTemp
  <1>10. CASE Replace(p)     BY <1>10 DEF Replace
  <1>11. CASE Release(p)     BY <1>11 DEF Release
  <1>12. CASE Return(p)      BY <1>12 DEF Return
  <1> QED
    BY <1>1, <1>2, <1>3, <1>4, <1>5, <1>6, <1>7, <1>8, <1>9, <1>10, <1>11, <1>12 DEF Progress

LEMMA NextType == TypeOK /\ [Next]_vars => TypeOK'
  <1> SUFFICES ASSUME TypeOK, [Next]_vars PROVE TypeOK'
    OBVIOUS
  <1>1. CASE UNCHANGED vars BY <1>1 DEF TypeOK, vars
  <1>2. ASSUME NEW p \in Proc, CallLoad(p) \/ CallSave(p) PROVE TypeOK'
    BY <1>2 DEF TypeOK, PC, Goto, CallLoad, CallSave
  <1>3. ASSUME NEW p \in Proc, Crash(p) PROVE TypeOK'
    BY <1>3, EmptyType DEF TypeOK, PC, Crash
  <1>4. CASE Damage BY <1>4, EmptyType DEF TypeOK, Damage
  <1>5. ASSUME NEW p \in Proc, Progress(p) PROVE TypeOK'
    BY <1>5, ProgressType
  <1> QED BY <1>1, <1>2, <1>3, <1>4, <1>5 DEF Next

\* Every variable keeps to its type in every reachable state.
THEOREM TypeCorrect == Spec => []TypeOK
  BY InitType, NextType, PTL DEF Spec

-----------------------------------------------------------------------------
(* The lock and what a save holds in memory.                               *)

LEMMA InitStore == Init => StoreInv
  BY DEF Init, StoreInv, Locked

\* Only the lock holder writes, so what it read is still the file.
LEMMA ProgressStore ==
  ASSUME TypeOK, StoreInv, NEW p \in Proc, Progress(p) PROVE StoreInv'
  <1> USE DEF TypeOK, StoreInv, PC, Locked, Goto
  <1>1. CASE LoadMissing(p)  BY <1>1 DEF LoadMissing, View
  <1>2. CASE LoadExisting(p) BY <1>2 DEF LoadExisting, View
  <1>3. CASE Acquire(p)      BY <1>3 DEF Acquire, View
  <1>4. CASE LockTimeout(p)  BY <1>4 DEF LockTimeout, View
  <1>5. CASE ReadForLoad(p)  BY <1>5 DEF ReadForLoad, View
  <1>6. CASE ReadForSave(p)  BY <1>6 DEF ReadForSave, View
  <1>7. CASE ReadNonMap(p)   BY <1>7 DEF ReadNonMap, View
  <1>8. CASE OpenTemp(p)     BY <1>8 DEF OpenTemp, View
  <1>9. CASE DumpTemp(p)     BY <1>9 DEF DumpTemp, View
  <1>10. CASE Replace(p)     BY <1>10 DEF Replace
  <1>11. CASE Release(p)     BY <1>11 DEF Release, View
  <1>12. CASE Return(p)      BY <1>12 DEF Return, View
  <1> QED
    BY <1>1, <1>2, <1>3, <1>4, <1>5, <1>6, <1>7, <1>8, <1>9, <1>10, <1>11, <1>12 DEF Progress

LEMMA NextStore == TypeOK /\ StoreInv /\ [Next]_vars => StoreInv'
  <1> SUFFICES ASSUME TypeOK, StoreInv, [Next]_vars PROVE StoreInv'
    OBVIOUS
  <1>1. CASE UNCHANGED vars BY <1>1 DEF StoreInv, View, vars
  <1>2. ASSUME NEW p \in Proc, CallLoad(p) \/ CallSave(p) PROVE StoreInv'
    BY <1>2 DEF TypeOK, StoreInv, Locked, Goto, View, CallLoad, CallSave
  <1>3. ASSUME NEW p \in Proc, Crash(p) PROVE StoreInv'
    BY <1>3 DEF TypeOK, StoreInv, Locked, View, Crash
  <1>4. CASE Damage BY <1>4 DEF TypeOK, StoreInv, Locked, Damage
  <1>5. ASSUME NEW p \in Proc, Progress(p) PROVE StoreInv'
    BY <1>5, ProgressStore
  <1> QED BY <1>1, <1>2, <1>3, <1>4, <1>5 DEF Next

\* The lock excludes, and a save in progress never holds a stale copy.
THEOREM StoreCorrect == Spec => []StoreInv
  BY InitType, NextType, InitStore, NextStore, PTL DEF Spec

\* The invariant that the run StateStore checks: types, exclusion and the copy
\* a save works on (state_store.py, save).
THEOREM InvHolds == Spec => []Inv
  BY TypeCorrect, StoreCorrect, PTL DEF Inv

-----------------------------------------------------------------------------
(* The refinement.                                                         *)

StatusMap == [p \in Proc |-> Status(p)]

\* The status map changes at the process that moved, and nowhere else.
LEMMA StatusStep ==
  ASSUME TypeOK, NEW p \in Proc, NEW v, pc' = [pc EXCEPT ![p] = v]
  PROVE  StatusMap' = [StatusMap EXCEPT ![p] = Status(p)']
  <1>1. ASSUME NEW q \in Proc, q # p PROVE Status(q)' = Status(q)
    <2>1. pc'[q] = pc[q]
      BY <1>1 DEF TypeOK
    <2> QED BY <2>1 DEF Status
  <1> QED BY <1>1 DEF StatusMap

LEMMA InitMaps == Init => Abs!Init
  BY DEF Init, Abs!Init, Abs!Empty, Abs!Request, View, Empty, Request, Status

\* Every step of a call is a step of the map on that call, or invisible.
LEMMA ProgressMaps ==
  ASSUME TypeOK, StoreInv, NEW p \in Proc, Progress(p)
  PROVE  Abs!ApplyLoad(p) \/ Abs!ApplySave(p) \/ Abs!Fail(p) \/ Abs!End(p) \/ UNCHANGED Abs!vars
  <1> USE DEF TypeOK, Goto, Abs!vars
  <1>1. \A v : pc' = [pc EXCEPT ![p] = v] =>
           StatusMap' = [StatusMap EXCEPT ![p] = Status(p)']
    BY StatusStep
  <1>2. StatusMap[p] = Status(p)
    BY DEF StatusMap
  <1>3. StatusMap = [q \in Proc |-> Status(q)]
    BY DEF StatusMap
  <1>4. StatusMap' = [q \in Proc |-> Status(q)]'
    BY DEF StatusMap
  <1>5. Status(p)' # Status(p) \/ [StatusMap EXCEPT ![p] = Status(p)'] = StatusMap
    BY <1>2 DEF StatusMap
  <1>6. CASE LoadMissing(p)
    BY <1>1, <1>2, <1>3, <1>4, <1>6 DEF LoadMissing, View, Status, StoreInv, Abs!ApplyLoad
  <1>7. CASE LoadExisting(p)
    BY <1>1, <1>3, <1>4, <1>5, <1>7 DEF LoadExisting, View, Status
  <1>8. CASE Acquire(p)
    BY <1>1, <1>3, <1>4, <1>5, <1>8 DEF Acquire, View, Status
  <1>9. CASE LockTimeout(p)
    BY <1>1, <1>2, <1>3, <1>4, <1>9 DEF LockTimeout, View, Status, Abs!End
  <1>10. CASE ReadForLoad(p)
    BY <1>1, <1>2, <1>3, <1>4, <1>10 DEF ReadForLoad, View, Status, Abs!ApplyLoad
  <1>11. CASE ReadForSave(p)
    BY <1>1, <1>3, <1>4, <1>5, <1>11 DEF ReadForSave, View, Status
  <1>12. CASE ReadNonMap(p)
    BY <1>1, <1>2, <1>3, <1>4, <1>12 DEF ReadNonMap, View, Status, Abs!Fail
  <1>13. CASE OpenTemp(p)
    BY <1>1, <1>3, <1>4, <1>5, <1>13 DEF OpenTemp, View, Status
  <1>14. CASE DumpTemp(p)
    BY <1>1, <1>3, <1>4, <1>5, <1>14 DEF DumpTemp, View, Status
  <1>15. CASE Replace(p)
    <2>1. View' = [View EXCEPT ![req[p].key] = req[p].val]
      BY <1>15 DEF Replace, StoreInv, View
    <2> QED
      BY <1>1, <1>2, <1>3, <1>4, <1>15, <2>1 DEF Replace, StoreInv, Status, Abs!ApplySave
  <1>16. CASE Release(p)
    BY <1>1, <1>2, <1>3, <1>4, <1>16 DEF Release, View, Status, Abs!End
  <1>17. CASE Return(p)
    BY <1>1, <1>2, <1>3, <1>4, <1>17 DEF Return, View, Status, Abs!End
  <1> QED
    BY <1>6, <1>7, <1>8, <1>9, <1>10, <1>11, <1>12, <1>13, <1>14, <1>15, <1>16, <1>17 DEF Progress

LEMMA NextMaps == TypeOK /\ StoreInv /\ [Next]_vars => [Abs!Next]_(Abs!vars)
  <1> SUFFICES ASSUME TypeOK, StoreInv, [Next]_vars PROVE [Abs!Next]_(Abs!vars)
    OBVIOUS
  <1> USE DEF StatusMap
  <1>1. CASE UNCHANGED vars
    BY <1>1 DEF vars, Abs!vars, View, Status
  <1>2. ASSUME NEW p \in Proc, CallLoad(p) \/ CallSave(p) PROVE Abs!Next
    <2>1. PICK r \in Request : req' = [req EXCEPT ![p] = r]
      BY <1>2 DEF CallLoad, CallSave
    <2>2. StatusMap' = [StatusMap EXCEPT ![p] = "pending"] /\ Status(p) = "idle"
      BY <1>2, StatusStep DEF CallLoad, CallSave, Goto, TypeOK, Status
    <2>3. Abs!Call(p, r)
      BY <1>2, <2>1, <2>2 DEF CallLoad, CallSave, View, Abs!Call
    <2>4. r \in Abs!Request
      BY DEF Request, Abs!Request
    <2> QED BY <2>3, <2>4 DEF Abs!Next
  <1>3. ASSUME NEW p \in Proc, Crash(p) PROVE Abs!Next
    <2>1. StatusMap' = [StatusMap EXCEPT ![p] = "idle"] /\ Status(p) # "idle"
      BY <1>3, StatusStep DEF Crash, TypeOK, Status, PC
    <2>2. Abs!End(p)
      BY <1>3, <2>1 DEF Crash, View, Abs!End
    <2> QED BY <2>2 DEF Abs!Next
  <1>4. CASE Damage
    <2>1. Abs!Lose
      BY <1>4 DEF Damage, View, Empty, Status, Abs!Lose, Abs!Empty
    <2> QED BY <2>1 DEF Abs!Next
  <1>5. ASSUME NEW p \in Proc, Progress(p) PROVE [Abs!Next]_(Abs!vars)
    BY <1>5, ProgressMaps DEF Abs!Next
  <1> QED BY <1>1, <1>2, <1>3, <1>4, <1>5 DEF Next

\* The YAML file store implements the atomic map: loads and saves are
\* linearizable, and a crashed or failed call changes one key or nothing.
THEOREM Refinement == Spec => ImplementsStateMap
  BY InitType, NextType, InitStore, NextStore, InitMaps, NextMaps, PTL
     DEF Spec, ImplementsStateMap, Abs!Spec

=============================================================================
