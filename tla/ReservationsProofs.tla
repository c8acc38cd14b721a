--------------------------- MODULE ReservationsProofs ---------------------------
(* Proofs of the safety properties of Reservations, for every set of       *)
(* flavors and runs and every bound on the events outside a run.           *)
EXTENDS Reservations, TLAPS

USE OverlapAssumption, MaxEventsAssumption

-----------------------------------------------------------------------------
(* Types.                                                                  *)

LEMMA InitType == Init => TypeOK
  BY DEF Init, TypeOK, Nothing, Owner, Phase

\* A run forgets its local state in the types of its local state.
LEMMA ForgetType ==
  ASSUME TypeOK, NEW r \in Run, Forget(r)
  PROVE  /\ snapT' \in [Run -> SUBSET Flavor] /\ snapR' \in [Run -> SUBSET Flavor]
         /\ cache' \in [Run -> SUBSET Flavor] /\ want' \in [Run -> SUBSET Flavor]
         /\ todo' \in [Run -> SUBSET Flavor]  /\ cur' \in [Run -> SUBSET Flavor]
         /\ newG' \in [Run -> SUBSET Flavor]
  BY DEF TypeOK, Forget

\* Every step of a run preserves the type invariant.
LEMMA StepType ==
  ASSUME TypeOK, NEW r \in Run, Step(r) \/ CacheFlavors(r) \/ Crash(r)
  PROVE  TypeOK'
  <1> USE DEF cloud, config, file, local, history
  <1>1. CASE Load(r)          BY <1>1 DEF TypeOK, Load, Phase
  <1>2. CASE CacheFlavors(r)  BY <1>2 DEF TypeOK, CacheFlavors, Phase
  <1>3. CASE Diff(r)
    <2>1. DesiredGrants(r) \in SUBSET Flavor
      BY DEF TypeOK, DesiredGrants, PrivateFlavors
    <2>2. QED BY <1>3, <2>1 DEF TypeOK, Diff, Phase
  <1>4. CASE GrantAccess(r)   BY <1>4 DEF TypeOK, GrantAccess, Phase, Owner
  <1>5. CASE PersistGrants(r) BY <1>5 DEF TypeOK, PersistGrants, Phase
  <1>6. CASE Regrant(r)       BY <1>6 DEF TypeOK, Regrant, Phase, Owner
  <1>7. CASE VerifyDone(r)    BY <1>7 DEF TypeOK, VerifyDone, Phase
  <1>8. CASE RevokeAll(r)     BY <1>8 DEF TypeOK, RevokeAll, Phase
  <1>9. CASE PersistFinal(r)  BY <1>9 DEF TypeOK, PersistFinal, FinalGrants, Phase
  <1>10. CASE ReconcileRevoked(r)
    <2>1. revoked' \subseteq Flavor
      BY <1>10 DEF TypeOK, ReconcileRevoked, AllRevoked, NewlyRevoked
    <2>2. QED BY <1>10, <2>1, ForgetType DEF TypeOK, ReconcileRevoked, Phase
  <1>11. CASE Skip(r)         BY <1>11, ForgetType DEF TypeOK, Skip, Phase
  <1>12. CASE CallRaises(r)
    BY <1>12, ForgetType DEF TypeOK, CallRaises, EndEarly, Unrecorded, Phase
  <1>13. CASE Crash(r)
    BY <1>13, ForgetType DEF TypeOK, Crash, EndEarly, Unrecorded, Phase
  <1>14. ASSUME NEW f \in Flavor, SkipManual(r, f) PROVE TypeOK'
    BY <1>14 DEF TypeOK, SkipManual
  <1>15. ASSUME NEW f \in Flavor, CheckAccess(r, f) PROVE TypeOK'
    BY <1>15 DEF TypeOK, CheckAccess, Phase
  <1>16. ASSUME NEW f \in Flavor, VerifyHeld(r, f) PROVE TypeOK'
    BY <1>16 DEF TypeOK, VerifyHeld
  <1>17. ASSUME NEW f \in Flavor, VerifyMissing(r, f) PROVE TypeOK'
    BY <1>17 DEF TypeOK, VerifyMissing, Phase
  <1>18. ASSUME NEW f \in Flavor, RevokeAccess(r, f) PROVE TypeOK'
    BY <1>18 DEF TypeOK, RevokeAccess, Owner
  <1> QED
    BY <1>1, <1>2, <1>3, <1>4, <1>5, <1>6, <1>7, <1>8, <1>9, <1>10, <1>11,
       <1>12, <1>13, <1>14, <1>15, <1>16, <1>17, <1>18 DEF Step

LEMMA EnvironmentType ==
  ASSUME TypeOK, Environment PROVE TypeOK'
  <1> USE DEF cloud, config, file, local
  <1>1. ASSUME NEW f \in Flavor, Environment, AdminGrant(f) PROVE TypeOK'
    BY <1>1 DEF TypeOK, Environment, AdminGrant, Owner
  <1>2. ASSUME NEW f \in Flavor, Environment, AdminRevoke(f) PROVE TypeOK'
    BY <1>2 DEF TypeOK, Environment, AdminRevoke, Owner
  <1>3. ASSUME NEW f \in Flavor, Environment, DeleteFlavor(f) PROVE TypeOK'
    BY <1>3 DEF TypeOK, Environment, DeleteFlavor, Owner
  <1>4. CASE Environment /\ ChangePlan
    BY <1>4 DEF TypeOK, Environment, ChangePlan
  <1>5. CASE Environment /\ ChangeState
    BY <1>5 DEF TypeOK, Environment, ChangeState
  <1> QED BY <1>1, <1>2, <1>3, <1>4, <1>5 DEF Environment

LEMMA NextType == TypeOK /\ [Next]_vars => TypeOK'
  <1> SUFFICES ASSUME TypeOK, [Next]_vars PROVE TypeOK'
    OBVIOUS
  <1>1. CASE UNCHANGED vars
    BY <1>1 DEF TypeOK, vars, cloud, config, file, local, history
  <1>2. CASE Environment BY <1>2, EnvironmentType
  <1>3. ASSUME NEW r \in Run, Step(r) \/ CacheFlavors(r) \/ Crash(r) PROVE TypeOK'
    BY <1>3, StepType
  <1> QED BY <1>1, <1>2, <1>3 DEF Next

\* Every variable keeps to its type in every reachable state.
THEOREM TypeCorrect == Spec => []TypeOK
  BY InitType, NextType, PTL DEF Spec

-----------------------------------------------------------------------------
(* Manual grants.  ClaimInv says that a manual grant on a flavor the tool  *)
(* claims was made after the claim; a run revokes only what it claims.     *)

LEMMA InitClaim == Init => ClaimInv
  BY DEF Init, ClaimInv, Claimed, Nothing

\* Every step of a run preserves ClaimInv.
LEMMA StepClaim ==
  ASSUME TypeOK, ClaimInv, NEW r \in Run, Step(r) \/ CacheFlavors(r) \/ Crash(r)
  PROVE  ClaimInv'
  <1> USE DEF cloud, config, file, local, history
  <1>1. CASE Load(r)
    BY <1>1 DEF TypeOK, ClaimInv, Claimed, Load
  <1>2. CASE CacheFlavors(r)
    BY <1>2 DEF TypeOK, ClaimInv, Claimed, CacheFlavors
  <1>3. CASE Diff(r)
    BY <1>3 DEF TypeOK, ClaimInv, Claimed, Diff
  <1>4. CASE GrantAccess(r)
    BY <1>4 DEF TypeOK, ClaimInv, Claimed, GrantAccess
  <1>5. CASE PersistGrants(r)
    BY <1>5 DEF TypeOK, ClaimInv, Claimed, PersistGrants
  <1>6. CASE Regrant(r)
    BY <1>6 DEF TypeOK, ClaimInv, Claimed, Regrant
  <1>7. CASE VerifyDone(r)
    BY <1>7 DEF TypeOK, ClaimInv, Claimed, VerifyDone
  <1>8. CASE RevokeAll(r)
    BY <1>8 DEF TypeOK, ClaimInv, Claimed, RevokeAll
  <1>9. CASE PersistFinal(r)
    BY <1>9 DEF TypeOK, ClaimInv, Claimed, PersistFinal, FinalGrants
  <1>10. CASE ReconcileRevoked(r)
    BY <1>10 DEF TypeOK, ClaimInv, Claimed, ReconcileRevoked, Forget
  <1>11. CASE Skip(r)
    BY <1>11 DEF TypeOK, ClaimInv, Claimed, Skip, Forget
  <1>12. CASE CallRaises(r)
    BY <1>12 DEF TypeOK, ClaimInv, Claimed, CallRaises, EndEarly, Forget
  <1>13. CASE Crash(r)
    BY <1>13 DEF TypeOK, ClaimInv, Claimed, Crash, EndEarly, Forget
  <1>14. ASSUME NEW f \in Flavor, SkipManual(r, f) PROVE ClaimInv'
    BY <1>14 DEF TypeOK, ClaimInv, Claimed, SkipManual
  <1>15. ASSUME NEW f \in Flavor, CheckAccess(r, f) PROVE ClaimInv'
    BY <1>15 DEF TypeOK, ClaimInv, Claimed, CheckAccess
  <1>16. ASSUME NEW f \in Flavor, VerifyHeld(r, f) PROVE ClaimInv'
    BY <1>16 DEF TypeOK, ClaimInv, Claimed, VerifyHeld
  <1>17. ASSUME NEW f \in Flavor, VerifyMissing(r, f) PROVE ClaimInv'
    BY <1>17 DEF TypeOK, ClaimInv, Claimed, VerifyMissing
  <1>18. ASSUME NEW f \in Flavor, RevokeAccess(r, f) PROVE ClaimInv'
    BY <1>18 DEF TypeOK, ClaimInv, Claimed, RevokeAccess
  <1> QED
    BY <1>1, <1>2, <1>3, <1>4, <1>5, <1>6, <1>7, <1>8, <1>9, <1>10, <1>11,
       <1>12, <1>13, <1>14, <1>15, <1>16, <1>17, <1>18 DEF Step

LEMMA EnvironmentClaim ==
  ASSUME TypeOK, ClaimInv, Environment PROVE ClaimInv'
  <1> USE DEF cloud, config, file, local
  <1>1. Claimed' = Claimed
    BY DEF Environment, Claimed
  <1>2. ASSUME NEW f \in Flavor, Environment, AdminGrant(f) PROVE ClaimInv'
    BY <1>1, <1>2 DEF TypeOK, ClaimInv, Environment, AdminGrant
  <1>3. ASSUME NEW f \in Flavor, Environment, AdminRevoke(f) PROVE ClaimInv'
    BY <1>1, <1>3 DEF TypeOK, ClaimInv, Environment, AdminRevoke
  <1>4. ASSUME NEW f \in Flavor, Environment, DeleteFlavor(f) PROVE ClaimInv'
    BY <1>1, <1>4 DEF TypeOK, ClaimInv, Environment, DeleteFlavor
  <1>5. CASE Environment /\ (ChangePlan \/ ChangeState)
    BY <1>1, <1>5 DEF ClaimInv, Environment, ChangePlan, ChangeState
  <1> QED BY <1>2, <1>3, <1>4, <1>5 DEF Environment

LEMMA NextClaim == TypeOK /\ ClaimInv /\ [Next]_vars => ClaimInv'
  <1> SUFFICES ASSUME TypeOK, ClaimInv, [Next]_vars PROVE ClaimInv'
    OBVIOUS
  <1>1. CASE UNCHANGED vars
    BY <1>1 DEF ClaimInv, Claimed, vars, cloud, config, file, local, history
  <1>2. CASE Environment BY <1>2, EnvironmentClaim
  <1>3. ASSUME NEW r \in Run, Step(r) \/ CacheFlavors(r) \/ Crash(r) PROVE ClaimInv'
    BY <1>3, StepClaim
  <1> QED BY <1>1, <1>2, <1>3 DEF Next

\* Manual grants on flavors the tool does not claim are contested in no
\* reachable state.
THEOREM ClaimCorrect == Spec => []ClaimInv
  BY InitType, NextType, InitClaim, NextClaim, PTL DEF Spec

\* The one step of a run that takes access away works on its revocation list,
\* which holds only flavors the run claims.
LEMMA ManualStep ==
  ASSUME TypeOK, ClaimInv, [Next]_vars,
         NEW f \in Flavor, access[f] = "manual", access'[f] # "manual", todo' # todo
  PROVE  f \in contested
  <1> USE DEF cloud, config, file, local, history
  <1>1. ~ Environment
    BY DEF Environment
  <1>2. ~ UNCHANGED vars
    BY DEF vars
  <1>3. PICK r \in Run : Step(r) \/ CacheFlavors(r) \/ Crash(r)
    BY <1>1, <1>2 DEF Next
  <1>4. ~ CacheFlavors(r) /\ ~ Crash(r) /\ ~ Load(r) /\ ~ Diff(r) /\ ~ Skip(r)
        /\ ~ RevokeAll(r) /\ ~ PersistGrants(r) /\ ~ VerifyDone(r)
        /\ ~ PersistFinal(r) /\ ~ ReconcileRevoked(r) /\ ~ CallRaises(r)
    BY DEF CacheFlavors, Crash, Load, Diff, Skip, RevokeAll, PersistGrants,
           VerifyDone, PersistFinal, ReconcileRevoked, CallRaises, EndEarly
  <1>5. ~ GrantAccess(r) /\ ~ Regrant(r)
    BY DEF TypeOK, GrantAccess, Regrant
  <1>6. \A g \in Flavor : ~ SkipManual(r, g) /\ ~ CheckAccess(r, g)
                          /\ ~ VerifyHeld(r, g) /\ ~ VerifyMissing(r, g)
    BY DEF SkipManual, CheckAccess, VerifyHeld, VerifyMissing
  <1>7. PICK g \in Flavor : RevokeAccess(r, g)
    BY <1>3, <1>4, <1>5, <1>6 DEF Step
  <1>8. g = f
    BY <1>7 DEF TypeOK, RevokeAccess
  <1>9. f \in snapT[r]
    BY <1>7, <1>8 DEF ClaimInv, RevokeAccess
  <1> QED BY <1>9 DEF ClaimInv, Claimed

\* No step of any run removes access an operator granted on a flavor the tool
\* did not claim at that moment, whatever runs overlap, fail or restart.
THEOREM ManualGrantsAreSafe == Spec => ManualGrantsSurvive
  <1>1. TypeOK /\ ClaimInv /\ [Next]_vars =>
          [\A f \in Flavor :
             (access[f] = "manual" /\ access'[f] # "manual" /\ todo' # todo)
                => f \in contested]_vars
    BY ManualStep
  <1>2. QED
    BY <1>1, TypeCorrect, ClaimCorrect, PTL DEF Spec, ManualGrantsSurvive

-----------------------------------------------------------------------------
(* Runs that do not overlap.  RunInv ties the state file to what the one   *)
(* active run knows in each phase; the properties follow from it.          *)

LEMMA InitRun == Init => RunInv
  BY DEF Init, RunInv, OneAtATime, PhaseOK, ToolGrantsKnown, Active, Ended, Nothing

\* A step of the one active run leaves the ended runs alone.
LEMMA OneActive ==
  ASSUME TypeOK, OneAtATime, NEW r \in Run, pc[r] \notin Ended \/ Active = {},
         NEW v \in Phase, pc' = [pc EXCEPT ![r] = v]
  PROVE  /\ OneAtATime'
         /\ \A q \in Run \ {r} : pc[q] \in Ended /\ pc'[q] = pc[q]
  BY DEF TypeOK, OneAtATime, Active, Ended, Phase

LEMMA StepOneAtATime ==
  ASSUME TypeOK, OneAtATime, Overlap = FALSE, NEW r \in Run,
         Step(r) \/ CacheFlavors(r) \/ Crash(r)
  PROVE  OneAtATime' /\ \A q \in Run \ {r} : pc[q] \in Ended /\ pc'[q] = pc[q]
  <1>1. \E v \in Phase : pc' = [pc EXCEPT ![r] = v]
    <2>1. CASE pc' = pc
      BY <2>1 DEF TypeOK
    <2>2. CASE pc' # pc
      BY <2>2 DEF Step, Load, CacheFlavors, Diff, Skip, RevokeAll, GrantAccess, PersistGrants,
           Regrant, VerifyDone, PersistFinal, ReconcileRevoked, CallRaises, Crash, EndEarly,
           SkipManual, CheckAccess, VerifyHeld, VerifyMissing, RevokeAccess, Phase
    <2> QED BY <2>1, <2>2
  <1>2. pc[r] \notin Ended \/ Active = {}
    BY DEF Step, Load, CacheFlavors, Diff, Skip, RevokeAll, GrantAccess, PersistGrants,
           Regrant, VerifyDone, PersistFinal, ReconcileRevoked, CallRaises, Crash,
           SkipManual, CheckAccess, VerifyHeld, VerifyMissing, RevokeAccess, Ended
  <1> QED BY <1>1, <1>2, OneActive

\* What a step of run r does to the phase invariant of run r itself.
LEMMA StepPhase ==
  ASSUME TypeOK, RunInv, Overlap = FALSE, NEW r \in Run,
         Step(r) \/ CacheFlavors(r) \/ Crash(r)
  PROVE  PhaseOK(r)'
  <1> USE DEF cloud, config, file, local, history, Ended
  <1>0. PhaseOK(r)
    BY DEF RunInv
  <1>1. CASE Load(r)
    <2>1. pc[r] \in Ended /\ pc'[r] = "loaded"
      BY <1>1 DEF Load, TypeOK
    <2> QED BY <1>0, <1>1, <2>1 DEF TypeOK, Load, PhaseOK
  <1>2. CASE CacheFlavors(r)
    BY <1>0, <1>2 DEF TypeOK, PhaseOK, CacheFlavors
  <1>3. CASE Diff(r)
    BY <1>0, <1>3 DEF TypeOK, PhaseOK, Diff
  <1>4. CASE GrantAccess(r)
    BY <1>0, <1>4 DEF TypeOK, PhaseOK, GrantAccess
  <1>5. CASE PersistGrants(r)
    BY <1>0, <1>5 DEF TypeOK, PhaseOK, PersistGrants
  <1>6. CASE Regrant(r)
    BY <1>0, <1>6 DEF TypeOK, PhaseOK, Regrant
  <1>7. CASE VerifyDone(r)
    BY <1>0, <1>7 DEF TypeOK, PhaseOK, VerifyDone
  <1>8. CASE RevokeAll(r)
    BY <1>0, <1>8 DEF TypeOK, PhaseOK, RevokeAll
  <1>9. CASE PersistFinal(r)
    BY <1>0, <1>9 DEF TypeOK, PhaseOK, PersistFinal, FinalGrants
  <1>10. CASE ReconcileRevoked(r)
    BY <1>10 DEF TypeOK, PhaseOK, ReconcileRevoked, Forget
  <1>11. CASE Skip(r)
    BY <1>11 DEF TypeOK, PhaseOK, Skip, Forget
  <1>12. CASE CallRaises(r) \/ Crash(r)
    BY <1>12 DEF TypeOK, PhaseOK, CallRaises, Crash, EndEarly, Forget
  <1>13. ASSUME NEW f \in Flavor, SkipManual(r, f) PROVE PhaseOK(r)'
    BY <1>0, <1>13 DEF TypeOK, PhaseOK, SkipManual
  <1>14. ASSUME NEW f \in Flavor, CheckAccess(r, f) PROVE PhaseOK(r)'
    BY <1>0, <1>14 DEF TypeOK, PhaseOK, CheckAccess
  <1>15. ASSUME NEW f \in Flavor, VerifyHeld(r, f) PROVE PhaseOK(r)'
    BY <1>0, <1>15 DEF TypeOK, PhaseOK, VerifyHeld
  <1>16. ASSUME NEW f \in Flavor, VerifyMissing(r, f) PROVE PhaseOK(r)'
    BY <1>0, <1>16 DEF TypeOK, PhaseOK, VerifyMissing
  <1>17. ASSUME NEW f \in Flavor, RevokeAccess(r, f) PROVE PhaseOK(r)'
    BY <1>0, <1>17 DEF TypeOK, PhaseOK, RevokeAccess
  <1> QED
    BY <1>1, <1>2, <1>3, <1>4, <1>5, <1>6, <1>7, <1>8, <1>9, <1>10, <1>11,
       <1>12, <1>13, <1>14, <1>15, <1>16, <1>17 DEF Step

\* A run that has ended is not disturbed by the steps of the active one.
LEMMA StepOthers ==
  ASSUME TypeOK, RunInv, Overlap = FALSE, NEW r \in Run,
         Step(r) \/ CacheFlavors(r) \/ Crash(r), NEW q \in Run \ {r}
  PROVE  PhaseOK(q)'
  <1> USE DEF cloud, config, file, local, history
  <1>1. pc[q] \in Ended /\ pc'[q] = pc[q]
    BY StepOneAtATime DEF RunInv
  <1>2. newG'[q] = newG[q] /\ cur'[q] = cur[q] /\ want'[q] = want[q]
    BY DEF TypeOK, Step, Load, CacheFlavors, Diff, Skip, RevokeAll, GrantAccess, PersistGrants,
           Regrant, VerifyDone, PersistFinal, ReconcileRevoked, CallRaises, Crash, EndEarly, Forget,
           SkipManual, CheckAccess, VerifyHeld, VerifyMissing, RevokeAccess
  <1> QED BY <1>1, <1>2 DEF RunInv, PhaseOK, Ended

\* No step of a run lets go of a grant of the tool.
LEMMA StepKnown ==
  ASSUME TypeOK, RunInv, NEW r \in Run, Overlap = FALSE,
         Step(r) \/ CacheFlavors(r) \/ Crash(r)
  PROVE  ToolGrantsKnown'
  <1> USE DEF cloud, config, file, local, history, Ended
  <1>0. PhaseOK(r) /\ ToolGrantsKnown
    BY DEF RunInv
  <1>1. CASE Load(r) \/ CacheFlavors(r) \/ Diff(r) \/ RevokeAll(r) \/ VerifyDone(r)
    BY <1>0, <1>1 DEF TypeOK, ToolGrantsKnown, InHand, Load, CacheFlavors, Diff, RevokeAll, VerifyDone
  <1>2. CASE GrantAccess(r)
    BY <1>0, <1>2 DEF TypeOK, ToolGrantsKnown, InHand, GrantAccess
  <1>3. CASE PersistGrants(r)
    BY <1>0, <1>3 DEF TypeOK, PhaseOK, ToolGrantsKnown, InHand, PersistGrants
  <1>4. CASE Regrant(r)
    BY <1>0, <1>4 DEF TypeOK, PhaseOK, ToolGrantsKnown, InHand, Regrant
  <1>5. CASE PersistFinal(r)
    BY <1>0, <1>5 DEF TypeOK, PhaseOK, ToolGrantsKnown, InHand, PersistFinal, FinalGrants
  <1>6. CASE ReconcileRevoked(r) \/ Skip(r)
    BY <1>0, <1>6 DEF TypeOK, ToolGrantsKnown, InHand, ReconcileRevoked, Skip, Forget
  <1>7. CASE CallRaises(r) \/ Crash(r)
    BY <1>0, <1>7 DEF TypeOK, ToolGrantsKnown, InHand, CallRaises, Crash, EndEarly, Unrecorded, Forget
  <1>8. ASSUME NEW f \in Flavor, SkipManual(r, f) \/ VerifyHeld(r, f) PROVE ToolGrantsKnown'
    BY <1>0, <1>8 DEF TypeOK, ToolGrantsKnown, InHand, SkipManual, VerifyHeld
  <1>9. ASSUME NEW f \in Flavor, CheckAccess(r, f) \/ VerifyMissing(r, f) PROVE ToolGrantsKnown'
    BY <1>0, <1>9 DEF TypeOK, ToolGrantsKnown, InHand, CheckAccess, VerifyMissing
  <1>10. ASSUME NEW f \in Flavor, RevokeAccess(r, f) PROVE ToolGrantsKnown'
    BY <1>0, <1>10 DEF TypeOK, ToolGrantsKnown, InHand, RevokeAccess
  <1> QED
    BY <1>1, <1>2, <1>3, <1>4, <1>5, <1>6, <1>7, <1>8, <1>9, <1>10 DEF Step

\* The world outside touches neither the file nor a run.
LEMMA EnvironmentRun ==
  ASSUME TypeOK, RunInv, Environment PROVE RunInv'
  <1> USE DEF file, local, cloud, config
  <1>1. UNCHANGED <<tracked, revoked, pc, snapT, snapR, want, todo, cur, newG>>
    BY DEF Environment
  <1>2. \A f \in Flavor : access'[f] = "tool" => access[f] = "tool" /\ (f \in orphans => f \in orphans')
    BY DEF TypeOK, Environment, AdminGrant, AdminRevoke, DeleteFlavor, ChangePlan, ChangeState
  <1>3. ToolGrantsKnown'
    BY <1>1, <1>2 DEF RunInv, ToolGrantsKnown, InHand
  <1>4. OneAtATime'
    BY <1>1 DEF RunInv, OneAtATime, Active
  <1>5. ASSUME NEW r \in Run PROVE PhaseOK(r)'
    BY <1>1, <1>2 DEF TypeOK, RunInv, PhaseOK, FinalGrants
  <1> QED BY <1>3, <1>4, <1>5 DEF RunInv

LEMMA NextRun ==
  ASSUME Overlap = FALSE PROVE TypeOK /\ RunInv /\ [Next]_vars => RunInv'
  <1> SUFFICES ASSUME TypeOK, RunInv, [Next]_vars PROVE RunInv'
    OBVIOUS
  <1>1. CASE UNCHANGED vars
    BY <1>1 DEF RunInv, OneAtATime, Active, PhaseOK, FinalGrants, ToolGrantsKnown, InHand,
                vars, cloud, config, file, local, history
  <1>2. CASE Environment BY <1>2, EnvironmentRun
  <1>3. ASSUME NEW r \in Run, Step(r) \/ CacheFlavors(r) \/ Crash(r) PROVE RunInv'
    <2>1. OneAtATime'
      BY <1>3, StepOneAtATime DEF RunInv
    <2>2. \A q \in Run : PhaseOK(q)'
      BY <1>3, StepPhase, StepOthers
    <2> QED BY <1>3, <2>1, <2>2, StepKnown DEF RunInv
  <1> QED BY <1>1, <1>2, <1>3 DEF Next

\* RunInv holds in every reachable state of runs that do not overlap.
THEOREM RunCorrect ==
  ASSUME Overlap = FALSE PROVE Spec => []RunInv
  BY InitType, NextType, InitRun, NextRun, PTL DEF Spec

\* The invariant that the run Reservations checks: types, whose access is
\* claimed, and what a run has in memory (reservations.py, ensure_reservations).
THEOREM InvHolds ==
  ASSUME Overlap = FALSE PROVE Spec => []Inv
  BY TypeCorrect, ClaimCorrect, RunCorrect, PTL DEF Inv

\* Whenever no run is active, every access entry the tool created is in the
\* state file, apart from the grants of a run that died in its grant loop.
THEOREM GrantsAreRecorded ==
  ASSUME Overlap = FALSE PROVE Spec => []GrantsRecorded
  <1>1. RunInv => GrantsRecorded
    BY DEF RunInv, ToolGrantsKnown, InHand, GrantsRecorded, Active, Ended
  <1>2. QED BY <1>1, RunCorrect, PTL

\* The last write of a run leaves the two lists disjoint.
THEOREM ListsAreDisjoint ==
  ASSUME Overlap = FALSE PROVE Spec => ListsDisjoint
  <1>1. ASSUME TypeOK, RunInv, [Next]_vars, NEW r \in Run, pc[r] = "audit", pc'[r] = "done"
        PROVE  tracked' \cap revoked' = {}
    <2> USE DEF cloud, config, file, local, history, Ended
    <2>1. PICK q \in Run : Step(q) \/ CacheFlavors(q) \/ Crash(q)
      BY <1>1 DEF Next, Environment, vars
    <2>2. q = r
      BY <1>1, <2>1, StepOneAtATime DEF RunInv
    <2>3. ReconcileRevoked(r)
      BY <1>1, <2>1, <2>2 DEF TypeOK, Step, Load, CacheFlavors, Diff, Skip, RevokeAll, GrantAccess,
           PersistGrants, Regrant, VerifyDone, PersistFinal, CallRaises, Crash, EndEarly,
           SkipManual, CheckAccess, VerifyHeld, VerifyMissing, RevokeAccess
    <2>4. tracked = FinalGrants(r) /\ revoked = snapR[r]
      BY <1>1 DEF RunInv, PhaseOK
    <2> QED BY <2>3, <2>4 DEF ReconcileRevoked, AllRevoked
  <1>2. TypeOK /\ RunInv /\ [Next]_vars =>
          [\A r \in Run : (pc[r] = "audit" /\ pc'[r] = "done")
              => tracked' \cap revoked' = {}]_vars
    BY <1>1
  <1>3. QED BY <1>2, TypeCorrect, RunCorrect, PTL DEF Spec, ListsDisjoint

-----------------------------------------------------------------------------
(* The audit trail.                                                        *)

\* While runs do not overlap only the run that takes a step can hold any.
LEMMA PendingOfOne ==
  ASSUME TypeOK, RunInv, Overlap = FALSE, NEW r \in Run,
         Step(r) \/ CacheFlavors(r) \/ Crash(r)
  PROVE  /\ Pending = (IF pc[r] = "audit" THEN NewlyRevoked(r) ELSE {})
         /\ Pending' = (IF pc'[r] = "audit" THEN NewlyRevoked(r)' ELSE {})
  <1>1. \A q \in Run \ {r} : pc[q] # "audit" /\ pc'[q] # "audit"
    BY StepOneAtATime DEF RunInv, Ended
  <1> QED BY <1>1 DEF Pending

\* A step of a run keeps every flavor on one of the lists or in its hands,
\* unless it dies between its last two writes.
LEMMA StepAudited ==
  ASSUME TypeOK, RunInv, Overlap = FALSE, NEW r \in Run,
         Step(r) \/ CacheFlavors(r) \/ Crash(r),
         NEW f \in tracked \cup revoked \cup Pending, f \notin tracked' \cup revoked' \cup Pending'
  PROVE  pc[r] = "audit" /\ pc'[r] = "failed" /\ f \in NewlyRevoked(r)
  <1> USE DEF cloud, config, file, local, history
  <1>0. PhaseOK(r)
    BY DEF RunInv
  <1>1. CASE Load(r) \/ CacheFlavors(r) \/ Diff(r) \/ RevokeAll(r) \/ VerifyDone(r) \/ Skip(r)
    <2>1. UNCHANGED file /\ pc[r] # "audit"
      BY <1>1 DEF Load, CacheFlavors, Diff, RevokeAll, VerifyDone, Skip, Ended
    <2> QED BY <2>1, PendingOfOne
  <1>2. CASE GrantAccess(r) \/ Regrant(r)
    <2>1. UNCHANGED file /\ pc[r] # "audit"
      BY <1>2 DEF GrantAccess, Regrant
    <2> QED BY <2>1, PendingOfOne
  <1>3. ASSUME NEW g \in Flavor,
               \/ SkipManual(r, g) \/ CheckAccess(r, g) \/ VerifyHeld(r, g)
               \/ VerifyMissing(r, g) \/ RevokeAccess(r, g)
        PROVE  FALSE
    <2>1. UNCHANGED file /\ pc[r] # "audit"
      BY <1>3 DEF SkipManual, CheckAccess, VerifyHeld, VerifyMissing, RevokeAccess
    <2> QED BY <2>1, PendingOfOne
  <1>4. CASE PersistGrants(r)
    <2>1. tracked \subseteq tracked' /\ revoked' = revoked /\ pc[r] # "audit"
      BY <1>0, <1>4 DEF PersistGrants, PhaseOK
    <2> QED BY <2>1, PendingOfOne
  <1>5. CASE PersistFinal(r)
    <2>1. pc[r] = "revoke" /\ pc'[r] = "audit" /\ UNCHANGED <<revoked, snapT, want, newG>>
      BY <1>5 DEF PersistFinal, TypeOK
    <2>2. tracked = snapT[r] \cup newG[r] /\ (tracked' = tracked \/ tracked' = FinalGrants(r))
      BY <1>0, <1>5, <2>1 DEF PersistFinal, PhaseOK
    <2>3. NewlyRevoked(r)' = NewlyRevoked(r) /\ tracked \subseteq FinalGrants(r) \cup NewlyRevoked(r)
      BY <2>1, <2>2 DEF NewlyRevoked, FinalGrants
    <2> QED BY <2>1, <2>2, <2>3, PendingOfOne
  <1>6. CASE ReconcileRevoked(r)
    <2>1. pc[r] = "audit" /\ tracked' = tracked /\ (revoked' = AllRevoked(r) \/ revoked' = revoked)
      BY <1>6 DEF ReconcileRevoked
    <2>2. revoked' = AllRevoked(r) /\ tracked = FinalGrants(r) /\ revoked = snapR[r]
      BY <1>0, <1>6 DEF ReconcileRevoked, PhaseOK, Ended
    <2> QED BY <2>1, <2>2, PendingOfOne DEF AllRevoked
  <1>7. CASE CallRaises(r) \/ Crash(r)
    <2>1. UNCHANGED file /\ pc'[r] = "failed"
      BY <1>7 DEF CallRaises, Crash, EndEarly, TypeOK
    <2> QED BY <2>1, PendingOfOne
  <1> QED
    BY <1>1, <1>2, <1>3, <1>4, <1>5, <1>6, <1>7 DEF Step

\* Every flavor that leaves granted_flavor_access is in revoked_flavor_access
\* when the run ends, and one that leaves that list is granted again: for any
\* flavors, whatever fails, unless a run dies between its last two writes
\* (resources/reservations.py, ensure_reservations, _reconcile_revoked).
THEOREM RevocationsAreAudited ==
  ASSUME Overlap = FALSE PROVE Spec => RevocationsAudited
  <1>1. ASSUME TypeOK, RunInv, Next, NEW f \in AccountedFor \ AccountedFor'
        PROVE  \E r \in Run : pc[r] = "audit" /\ pc'[r] = "failed" /\ f \in NewlyRevoked(r)
    <2>1. AccountedFor = tracked \cup revoked \cup Pending
      BY DEF AccountedFor
    <2>2. AccountedFor' = tracked' \cup revoked' \cup Pending'
      BY DEF AccountedFor
    <2>3. CASE Environment
      BY <1>1, <2>3 DEF Environment, AccountedFor, Pending, NewlyRevoked, file, local
    <2>4. ASSUME NEW r \in Run, Step(r) \/ CacheFlavors(r) \/ Crash(r)
          PROVE  pc[r] = "audit" /\ pc'[r] = "failed" /\ f \in NewlyRevoked(r)
      BY <1>1, <2>1, <2>2, <2>4, StepAudited
    <2> QED BY <1>1, <2>3, <2>4 DEF Next
  <1>2. TypeOK /\ RunInv /\ [Next]_vars =>
          [\A f \in AccountedFor \ AccountedFor' :
              \E r \in Run : pc[r] = "audit" /\ pc'[r] = "failed" /\ f \in NewlyRevoked(r)]_vars
    BY <1>1
  <1> QED BY <1>2, TypeCorrect, RunCorrect, PTL DEF Spec, RevocationsAudited

\* A step of a run is a step of the audited list, or touches neither list.
LEMMA StepMaps ==
  ASSUME TypeOK, RunInv, Overlap = FALSE, NEW r \in Run,
         Step(r) \/ CacheFlavors(r) \/ Crash(r)
  PROVE  [Lists!Next]_(Lists!vars)
  <1> DEFINE w == \E q \in Run : pc[q] = "audit"
  <1> USE DEF cloud, config, file, local, history
  <1>0. PhaseOK(r)
    BY DEF RunInv
  <1>1. /\ w <=> pc[r] = "audit"
        /\ w' <=> pc'[r] = "audit"
    BY StepOneAtATime DEF RunInv, Ended
  <1>2. ASSUME UNCHANGED file, pc[r] # "audit", pc'[r] # "audit" PROVE UNCHANGED Lists!vars
    BY <1>1, <1>2, PendingOfOne DEF Lists!vars
  <1>3. CASE Load(r) \/ CacheFlavors(r) \/ Diff(r) \/ RevokeAll(r) \/ VerifyDone(r) \/ Skip(r)
             \/ GrantAccess(r) \/ Regrant(r)
    <2>1. UNCHANGED file /\ pc[r] # "audit" /\ pc'[r] # "audit"
      BY <1>3 DEF TypeOK, Load, CacheFlavors, Diff, RevokeAll, VerifyDone, Skip, GrantAccess, Regrant, Ended
    <2> QED BY <1>2, <2>1
  <1>4. ASSUME NEW f \in Flavor,
               \/ SkipManual(r, f) \/ CheckAccess(r, f) \/ VerifyHeld(r, f)
               \/ VerifyMissing(r, f) \/ RevokeAccess(r, f)
        PROVE  UNCHANGED Lists!vars
    <2>1. UNCHANGED file /\ pc[r] # "audit" /\ pc'[r] # "audit"
      BY <1>4 DEF TypeOK, SkipManual, CheckAccess, VerifyHeld, VerifyMissing, RevokeAccess
    <2> QED BY <1>2, <2>1
  <1>5. CASE PersistGrants(r)
    <2>1. /\ tracked' = tracked \cup newG[r] /\ revoked' = revoked
          /\ pc[r] # "audit" /\ pc'[r] # "audit" /\ newG[r] \in SUBSET Flavor
      BY <1>0, <1>5 DEF PersistGrants, PhaseOK, TypeOK
    <2>2. Pending = {} /\ Pending' = {}
      BY <2>1, PendingOfOne
    <2>3. Lists!Add(newG[r])
      BY <1>1, <2>1, <2>2 DEF Lists!Add
    <2> QED BY <2>1, <2>3 DEF Lists!Next
  <1>6. CASE PersistFinal(r)
    <2>1. pc[r] = "revoke" /\ pc'[r] = "audit" /\ UNCHANGED <<revoked, snapT, want, newG>>
      BY <1>6 DEF PersistFinal, TypeOK
    <2>2. tracked = snapT[r] \cup newG[r] /\ tracked' \in SUBSET Flavor
      BY <1>0, <1>6, <2>1, StepType DEF PhaseOK, TypeOK
    <2>3. Pending' = snapT[r] \ want[r] /\ Pending = {}
      BY <2>1, PendingOfOne DEF NewlyRevoked
    <2>4. tracked' = FinalGrants(r)
      BY <1>6, <2>2 DEF PersistFinal, FinalGrants
    <2>5. Pending' \ tracked' = tracked \ tracked'
      BY <2>2, <2>3, <2>4 DEF FinalGrants
    <2>6. PICK S \in SUBSET Flavor : S = tracked'
      BY <2>2
    <2>7. Lists!Replace(S)
      BY <1>1, <2>1, <2>5, <2>6 DEF Lists!Replace
    <2> QED BY <2>7 DEF Lists!Next
  <1>7. CASE ReconcileRevoked(r)
    <2>1. pc[r] = "audit" /\ pc'[r] = "done" /\ tracked' = tracked
      BY <1>7 DEF ReconcileRevoked, TypeOK
    <2>2. revoked' = AllRevoked(r) /\ tracked = FinalGrants(r) /\ revoked = snapR[r]
      BY <1>0, <1>7 DEF ReconcileRevoked, PhaseOK, Ended
    <2>3. Pending = NewlyRevoked(r) /\ Pending' = {}
      BY <2>1, PendingOfOne
    <2>4. revoked' = (revoked \cup (Pending \ tracked)) \ tracked
      BY <2>2, <2>3 DEF AllRevoked
    <2>5. \E kept \in SUBSET {} : revoked' = ((revoked \cup (Pending \ tracked)) \ tracked) \cup kept
      BY <2>4
    <2>6. Lists!Retire
      BY <1>1, <2>1, <2>3, <2>5 DEF Lists!Retire
    <2> QED BY <2>6 DEF Lists!Next
  <1>8. CASE CallRaises(r) \/ Crash(r)
    <2>1. UNCHANGED file /\ pc'[r] = "failed"
      BY <1>8 DEF CallRaises, Crash, EndEarly, TypeOK
    <2>2. CASE pc[r] = "audit"
      <3>1. Pending' = {}
        BY <2>1, PendingOfOne
      <3>2. Lists!Die
        BY <1>1, <2>1, <2>2, <3>1 DEF Lists!Die
      <3> QED BY <3>2 DEF Lists!Next
    <2> QED BY <1>2, <2>1, <2>2
  <1> QED
    BY <1>3, <1>4, <1>5, <1>6, <1>7, <1>8 DEF Step

\* The reservations of runs that do not overlap implement the audited list,
\* for any flavors and runs and whatever fails.
THEOREM Refinement ==
  ASSUME Overlap = FALSE PROVE Spec => ImplementsAuditedList
  <1>1. Init => Lists!Init
    BY DEF Init, Pending, Lists!Init
  <1>2. TypeOK /\ RunInv /\ [Next]_vars => [Lists!Next]_(Lists!vars)
    <2> SUFFICES ASSUME TypeOK, RunInv, [Next]_vars PROVE [Lists!Next]_(Lists!vars)
      OBVIOUS
    <2>1. CASE Environment \/ UNCHANGED vars
      BY <2>1 DEF Environment, vars, file, local, Pending, NewlyRevoked, Lists!vars
    <2> QED BY <2>1, StepMaps DEF Next
  <1> QED BY <1>1, <1>2, TypeCorrect, RunCorrect, PTL DEF Spec, ImplementsAuditedList, Lists!Spec

=============================================================================
