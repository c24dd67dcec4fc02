---------------------- MODULE StatefulSetStorageProofs ----------------------
(***************************************************************************)
(* applyStatefulSet deletes by name what it judged by a cached copy.  The  *)
(* proof rests on when it creates: only while the cache shows no           *)
(* StatefulSet, so a copy in the cache is never of an earlier one than the *)
(* one in the API server.                                                  *)
(***************************************************************************)
EXTENDS StatefulSetStorage, TLAPS

\* A copy in the cache and a StatefulSet in the API server have one template.
SameTemplate ==
    (seenSts.st # "absent" /\ sts.st # "absent") => seenSts.template = sts.template

\* From the comparison to the deletion, the StatefulSet stays the outdated one.
DeletePending ==
    (pc \in {"expand", "delete"} /\ sts.st = "present") => sts.template # want

OutdatedInv == TypeOK /\ SameTemplate /\ DeletePending

\* Every step keeps the types: a claim only ever takes a size that was asked for.
LEMMA TypeStep == TypeOK /\ [Next]_vars => TypeOK'
<1> SUFFICES ASSUME TypeOK, [Next]_vars
             PROVE  TypeOK'
  OBVIOUS
<1> USE FirstAssumption, BoundAssumption DEF TypeOK
<1>1. CASE Start
  BY <1>1 DEF Start, claimVars, histVars, boundVars
<1>2. CASE GetExisting
  BY <1>2 DEF GetExisting, Return, claimVars, histVars, boundVars
<1>3. CASE expandStatefulSetPVCs
  BY <1>3 DEF expandStatefulSetPVCs, PvcIsFresh, Template, histVars, boundVars
<1>4. CASE ExpandMissed
  BY <1>4 DEF ExpandMissed, claimVars, histVars
<1>5. CASE DeleteOrphan
  BY <1>5 DEF DeleteOrphan, Sts, StsStates, claimVars, histVars, boundVars
<1>6. CASE PollGone \/ PollTimeout
  BY <1>6 DEF PollGone, PollTimeout, Return, claimVars, histVars, boundVars
<1>7. CASE ApplySts
  BY <1>7 DEF ApplySts, Return, Sts, StsStates, claimVars, histVars, boundVars
<1>8. CASE PassFails
  BY <1>8 DEF PassFails, Return, claimVars, histVars
<1>9. CASE EditStorage
  BY <1>9 DEF EditStorage, Applied, claimVars, histVars
<1>10. CASE OrphanDone
  BY <1>10 DEF OrphanDone, NoSts, Sts, StsStates, claimVars, histVars, boundVars
<1>11. CASE CreateClaim
  BY <1>11 DEF CreateClaim, Sts, Template, histVars, boundVars
<1>12. CASE TouchClaim
  <2>1. pvcCurrent' = FALSE /\ touches' \in 0..MaxTouches
    BY <1>12 DEF TouchClaim
  <2>2. UNCHANGED <<spec, seenSpec, sts, seenSts, pvc, seenPvc, pc, want, passedOver, rushed,
                  edits, misses, faults>>
    BY <1>12 DEF TouchClaim, histVars
  <2> QED  BY <2>1, <2>2
<1>13. CASE SyncSpec \/ SyncSts \/ SyncClaim
  BY <1>13 DEF SyncSpec, SyncSts, SyncClaim, claimVars, histVars, boundVars
<1>14. CASE UNCHANGED vars
  BY <1>14 DEF vars, claimVars, histVars, boundVars
<1> QED
  BY <1>1, <1>2, <1>3, <1>4, <1>5, <1>6, <1>7, <1>8, <1>9, <1>10, <1>11, <1>12, <1>13, <1>14
  DEF Next, Operator, Environment

\* Every step of applyStatefulSet, of the cluster's controllers and of the
\* informers keeps the two facts.
LEMMA OutdatedStep == OutdatedInv /\ [Next]_vars => OutdatedInv'
<1> SUFFICES ASSUME OutdatedInv, [Next]_vars
             PROVE  SameTemplate' /\ DeletePending'
  BY TypeStep DEF OutdatedInv
<1> USE DEF OutdatedInv, SameTemplate, DeletePending
<1>1. CASE Start
  BY <1>1 DEF Start
<1>2. CASE GetExisting
  <2>1. seenSts' = seenSts /\ sts' = sts
    BY <1>2 DEF GetExisting
  <2>2. CASE seenSts.st = "present" /\ volumeClaimTemplatesChanged(seenSts.template, want)
    <3>1. pc' = "expand" /\ want' = want
      BY <1>2, <2>2 DEF GetExisting
    <3>2. seenSts.template # want
      BY <2>2 DEF volumeClaimTemplatesChanged
    <3> QED  BY <2>1, <2>2, <3>1, <3>2
  <2>3. CASE ~(seenSts.st = "present" /\ volumeClaimTemplatesChanged(seenSts.template, want))
    <3>1. pc' \in {"idle", "apply"}
      BY <1>2, <2>3 DEF GetExisting, Return
    <3> QED  BY <2>1, <3>1
  <2> QED  BY <2>2, <2>3
<1>3. CASE expandStatefulSetPVCs \/ ExpandMissed
  BY <1>3 DEF expandStatefulSetPVCs, ExpandMissed
<1>4. CASE DeleteOrphan
  <2>1. pc' = "poll" /\ seenSts' = seenSts
    BY <1>4 DEF DeleteOrphan
  <2>2. (sts' = sts) \/ (sts.st = "present" /\ sts' = [sts EXCEPT !.st = "terminating"])
    BY <1>4 DEF DeleteOrphan
  <2>3. sts'.st # "absent" => sts.st # "absent" /\ sts'.template = sts.template
    BY <2>2 DEF TypeOK, Sts
  <2> QED  BY <2>1, <2>3
<1>5. CASE PollGone \/ PollTimeout
  BY <1>5 DEF PollGone, PollTimeout, Return
<1>6. CASE ApplySts
  <2>1. pc' = "idle" /\ seenSts' = seenSts
    BY <1>6 DEF ApplySts, Return
  <2>2. sts' = sts \/ seenSts.st = "absent"
    BY <1>6 DEF ApplySts
  <2> QED  BY <2>1, <2>2
<1>7. CASE PassFails
  BY <1>7 DEF PassFails, Return
<1>8. CASE EditStorage \/ CreateClaim \/ TouchClaim \/ SyncSpec \/ SyncClaim
  BY <1>8 DEF EditStorage, CreateClaim, TouchClaim, SyncSpec, SyncClaim
<1>9. CASE OrphanDone
  BY <1>9 DEF OrphanDone, NoSts
<1>10. CASE SyncSts
  BY <1>10 DEF SyncSts
<1>11. CASE UNCHANGED vars
  BY <1>11 DEF vars
<1> QED
  BY <1>1, <1>2, <1>3, <1>4, <1>5, <1>6, <1>7, <1>8, <1>9, <1>10, <1>11
  DEF Next, Operator, Environment

\* For all sizes, classes and bounds, and any lag of the cache: the delete by
\* name in applyStatefulSet never hits a StatefulSet that already has the wanted
\* claim template.
THEOREM DeleteHitsOutdated == Spec => DeletesOutdated
<1>1. Init => OutdatedInv
  <2> SUFFICES ASSUME Init PROVE OutdatedInv
    OBVIOUS
  <2>1. sts \in Sts /\ seenSts = sts
    BY FirstAssumption DEF Init, NoSts, Sts, StsStates
  <2>2. pvc \in Sizes \cup {0} /\ seenPvc = pvc
    BY FirstAssumption DEF Init, Template
  <2>3. spec \in Template /\ seenSpec \in Template /\ want \in Template
    BY FirstAssumption DEF Init
  <2>4. pc = "idle" /\ pvcCurrent \in BOOLEAN /\ passedOver \in BOOLEAN /\ rushed \in BOOLEAN
    BY DEF Init
  <2>5. /\ edits \in 0..MaxEdits /\ touches \in 0..MaxTouches
        /\ misses \in 0..MaxMisses /\ faults \in 0..MaxFaults
    BY BoundAssumption DEF Init
  <2>6. TypeOK
    BY <2>1, <2>2, <2>3, <2>4, <2>5 DEF TypeOK
  <2> QED
    BY <2>1, <2>6 DEF Init, OutdatedInv, SameTemplate, DeletePending
<1>2. OutdatedInv /\ [Next]_vars
        => [(sts.st = "present" /\ sts'.st = "terminating") => sts.template # want]_vars
  <2> SUFFICES ASSUME OutdatedInv, Next, sts.st = "present", sts'.st = "terminating"
               PROVE  sts.template # want
    OBVIOUS
  <2>1. sts' # sts
    OBVIOUS
  <2>2. CASE DeleteOrphan
    BY <2>2 DEF DeleteOrphan, OutdatedInv, DeletePending
  <2>3. CASE ApplySts
    BY <2>1, <2>3 DEF ApplySts
  <2>4. CASE OrphanDone
    BY <2>4 DEF OrphanDone
  <2>5. DeleteOrphan \/ ApplySts \/ OrphanDone \/ sts' = sts
    BY DEF Next, Operator, Environment, Start, GetExisting, expandStatefulSetPVCs,
           ExpandMissed, PollGone, PollTimeout, PassFails, EditStorage, CreateClaim,
           TouchClaim, SyncSpec, SyncSts, SyncClaim
  <2> QED  BY <2>1, <2>2, <2>3, <2>4, <2>5
<1> QED
  BY <1>1, <1>2, OutdatedStep, PTL DEF Spec, DeletesOutdated

=============================================================================
