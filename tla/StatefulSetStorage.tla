------------------------- MODULE StatefulSetStorage -------------------------
(***************************************************************************)
(* One operator-managed StatefulSet (standalone Redis or MeiliSearch, one  *)
(* replica, one claim) whose storage the user changes.  Its claim template *)
(* is immutable, so applyStatefulSet grows the existing claim, deletes the *)
(* StatefulSet leaving its pod and claim behind, waits until it is gone    *)
(* and creates it again.                                                   *)
(*                                                                         *)
(* The object, the StatefulSet and the claim are read from the informer    *)
(* cache; deletions go by name.                                            *)
(***************************************************************************)
EXTENDS Naturals

CONSTANTS
    Sizes,          \* the sizes the user asks for
    Classes,        \* the storage classes
    FirstTemplate,  \* the storage the object is created with
    Installed,      \* TRUE: the StatefulSet and its claim exist at the start
    AllowExpansion, \* allowVolumeExpansion of the storage class
    CacheLag,       \* FALSE: the claim is always read as it is
    MaxEdits,       \* bound: edits of the storage
    MaxTouches,     \* bound: writes of the claim by the volume controllers
    MaxMisses,      \* bound: calls on the claim that fail and are passed over
    MaxFaults       \* bound: other failed calls and crashes of the operator

Template == [size : Sizes, class : Classes]

ASSUME SizeAssumption == Sizes \subseteq Nat \ {0}
ASSUME FirstAssumption == FirstTemplate \in Template
ASSUME FlagAssumption ==
    {Installed, AllowExpansion, CacheLag} \subseteq BOOLEAN
ASSUME BoundAssumption == MaxEdits \in Nat /\ MaxTouches \in Nat
                          /\ MaxMisses \in Nat /\ MaxFaults \in Nat

VARIABLES
    spec, seenSpec,     \* the storage in the Misskey object, and in the cache
    sts, seenSts,       \* the StatefulSet, and in the cache
    pvc, seenPvc,       \* the size the claim requests (0: no claim), and in the cache
    pvcCurrent,         \* the cache shows the last write of the claim
    pc, want,           \* locals: the claim template this pass applies
    passedOver,         \* history: a call that was to grow the claim was refused or failed
    rushed,             \* history: the storage was edited before it had been applied
    edits, touches, misses, faults

claimVars == <<pvc, seenPvc, pvcCurrent>>
histVars  == <<passedOver, rushed>>
boundVars == <<edits, touches, misses, faults>>
vars      == <<spec, seenSpec, sts, seenSts, claimVars, pc, want, histVars, boundVars>>

StsStates == {"absent", "present", "terminating"}
Sts   == [st : StsStates, template : Template]
NoSts == [st |-> "absent", template |-> FirstTemplate]

TypeOK ==
    /\ spec \in Template /\ seenSpec \in Template /\ want \in Template
    /\ sts \in Sts /\ seenSts \in Sts
    /\ pvc \in Sizes \cup {0} /\ seenPvc \in Sizes \cup {0} /\ pvcCurrent \in BOOLEAN
    /\ pc \in {"idle", "get", "expand", "delete", "poll", "apply"}
    /\ passedOver \in BOOLEAN /\ rushed \in BOOLEAN
    /\ edits \in 0..MaxEdits /\ touches \in 0..MaxTouches
    /\ misses \in 0..MaxMisses /\ faults \in 0..MaxFaults

Init ==
    /\ spec = FirstTemplate /\ seenSpec = FirstTemplate /\ want = FirstTemplate
    /\ sts = IF Installed THEN [st |-> "present", template |-> FirstTemplate] ELSE NoSts
    /\ pvc = IF Installed THEN FirstTemplate.size ELSE 0
    /\ seenSts = sts /\ seenPvc = pvc /\ pvcCurrent = TRUE
    /\ pc = "idle"
    /\ passedOver = FALSE /\ rushed = FALSE
    /\ edits = 0 /\ touches = 0 /\ misses = 0 /\ faults = 0

\* What reading the claim returns, and whether it is the last write.
GetPvc     == IF CacheLag THEN seenPvc ELSE pvc
PvcIsFresh == CacheLag => (pvcCurrent /\ seenPvc = pvc)

Return == pc' = "idle" /\ want' = FirstTemplate

(***************************************************************************)
(* applyStatefulSet.                                                       *)
(***************************************************************************)

\* Reconcile reads the object; mutate fills in the wanted template.
Start ==
    /\ pc = "idle"
    /\ want' = seenSpec /\ pc' = "get"
    /\ UNCHANGED <<spec, seenSpec, sts, seenSts, claimVars, histVars, boundVars>>

\* Slip: only the size is compared.
volumeClaimTemplatesChangedSizeOnly(current, desired) == current.size # desired.size

\* Slip: a field the API server fills in is compared too and always differs.
volumeClaimTemplatesChangedDefaulted(current, desired) == TRUE

volumeClaimTemplatesChanged(current, desired) ==
    current.class # desired.class \/ current.size # desired.size

\* The StatefulSet is read: a terminating one ends the pass with an error.
GetExisting ==
    /\ pc = "get"
    /\ \/ /\ seenSts.st = "terminating"
          /\ Return
       \/ /\ seenSts.st = "present" /\ volumeClaimTemplatesChanged(seenSts.template, want)
          /\ pc' = "expand" /\ UNCHANGED want
       \/ /\ \/ seenSts.st = "absent"
             \/ seenSts.st = "present" /\ ~volumeClaimTemplatesChanged(seenSts.template, want)
          /\ pc' = "apply" /\ UNCHANGED want
    /\ UNCHANGED <<spec, seenSpec, sts, seenSts, claimVars, histVars, boundVars>>

\* Slip: the comparison is turned round, and a claim cannot shrink.
expandStatefulSetPVCsReversed ==
    /\ pc = "expand" /\ pc' = "delete"
    /\ UNCHANGED <<spec, seenSpec, sts, seenSts, claimVars, want, histVars, boundVars>>

\* expandStatefulSetPVCs: a claim smaller than wanted is updated.  A claim the
\* read does not find, and an update that is refused (a stale copy, or a class
\* that cannot expand), are passed over; the latter leaves a warning Event.
expandStatefulSetPVCs ==
    /\ pc = "expand" /\ pc' = "delete"
    /\ \/ /\ GetPvc # 0 /\ GetPvc < want.size
          /\ PvcIsFresh /\ AllowExpansion
          /\ pvc' = want.size /\ pvcCurrent' = FALSE
          /\ UNCHANGED passedOver
       \/ /\ \/ GetPvc = 0 \/ GetPvc >= want.size
             \/ ~PvcIsFresh \/ ~AllowExpansion
          /\ passedOver' = (passedOver \/ (pvc < want.size /\ (~PvcIsFresh \/ ~AllowExpansion)))
          /\ UNCHANGED <<pvc, pvcCurrent>>
    /\ UNCHANGED <<spec, seenSpec, sts, seenSts, seenPvc, want, rushed, boundVars>>

\* The read or the update of the claim fails for a moment: passed over as well.
ExpandMissed ==
    /\ pc = "expand" /\ pc' = "delete"
    /\ misses < MaxMisses /\ misses' = misses + 1
    /\ passedOver' = (passedOver \/ pvc < want.size)
    /\ UNCHANGED <<spec, seenSpec, sts, seenSts, claimVars, want, rushed, edits, touches, faults>>

\* The delete with orphan propagation, by name.
DeleteOrphan ==
    /\ pc = "delete"
    /\ sts' = IF sts.st = "present" THEN [sts EXCEPT !.st = "terminating"] ELSE sts
    /\ pc' = "poll"
    /\ UNCHANGED <<spec, seenSpec, seenSts, claimVars, want, histVars, boundVars>>

\* PollUntilContextTimeout: go on once the cache no longer shows it, or give up.
PollGone ==
    /\ pc = "poll"
    /\ seenSts.st = "absent"
    /\ pc' = "apply"
    /\ UNCHANGED <<spec, seenSpec, sts, seenSts, claimVars, want, histVars, boundVars>>

PollTimeout ==
    /\ pc = "poll"
    /\ seenSts.st # "absent"
    /\ Return
    /\ UNCHANGED <<spec, seenSpec, sts, seenSts, claimVars, histVars, boundVars>>

\* CreateOrUpdate: not found means Create, refused when there is one after all.
\* An update leaves the storage alone: the template is equal, or the API server
\* refuses the change.
ApplySts ==
    /\ pc = "apply"
    /\ sts' = IF seenSts.st = "absent" /\ sts.st = "absent"
                THEN [st |-> "present", template |-> want] ELSE sts
    /\ Return
    /\ UNCHANGED <<spec, seenSpec, seenSts, claimVars, histVars, boundVars>>

\* A call fails, or the operator dies and starts over.
PassFails ==
    /\ pc # "idle" /\ faults < MaxFaults /\ faults' = faults + 1
    /\ Return
    /\ UNCHANGED <<spec, seenSpec, sts, seenSts, claimVars, histVars, edits, touches, misses>>

(***************************************************************************)
(* The user, the cluster's controllers and the informers.                  *)
(***************************************************************************)

\* The StatefulSet has the storage of the spec, and its claim exists.
Applied == sts = [st |-> "present", template |-> spec] /\ pvc # 0

EditStorage ==
    /\ edits < MaxEdits /\ edits' = edits + 1
    /\ rushed' = (rushed \/ ~Applied)
    /\ \E t \in Template : t # spec /\ spec' = t
    /\ UNCHANGED <<seenSpec, sts, seenSts, claimVars, pc, want, passedOver, touches, misses, faults>>

\* The garbage collector has taken the owner reference off the pod and the claim.
OrphanDone ==
    /\ sts.st = "terminating"
    /\ sts' = NoSts
    /\ UNCHANGED <<spec, seenSpec, seenSts, claimVars, pc, want, histVars, boundVars>>

\* The StatefulSet controller creates the claim of the pod it starts.
CreateClaim ==
    /\ sts.st = "present" /\ pvc = 0
    /\ pvc' = sts.template.size /\ pvcCurrent' = FALSE
    /\ UNCHANGED <<spec, seenSpec, sts, seenSts, seenPvc, pc, want, histVars, boundVars>>

\* The volume controllers write the claim's status and annotations.
TouchClaim ==
    /\ pvc # 0 /\ touches < MaxTouches /\ touches' = touches + 1
    /\ pvcCurrent' = FALSE
    /\ UNCHANGED <<spec, seenSpec, sts, seenSts, pvc, seenPvc, pc, want, histVars, edits, misses, faults>>

SyncSpec ==
    /\ seenSpec # spec /\ seenSpec' = spec
    /\ UNCHANGED <<spec, sts, seenSts, claimVars, pc, want, histVars, boundVars>>

SyncSts ==
    /\ seenSts # sts /\ seenSts' = sts
    /\ UNCHANGED <<spec, seenSpec, sts, claimVars, pc, want, histVars, boundVars>>

SyncClaim ==
    /\ seenPvc # pvc \/ ~pvcCurrent
    /\ seenPvc' = pvc /\ pvcCurrent' = TRUE
    /\ UNCHANGED <<spec, seenSpec, sts, seenSts, pvc, pc, want, histVars, boundVars>>

-----------------------------------------------------------------------------
(* Specification *)

Operator ==
    \/ Start \/ GetExisting \/ expandStatefulSetPVCs \/ DeleteOrphan
    \/ PollGone \/ PollTimeout \/ ApplySts

Environment ==
    \/ EditStorage \/ OrphanDone \/ CreateClaim \/ TouchClaim
    \/ SyncSpec \/ SyncSts \/ SyncClaim

Next == Operator \/ ExpandMissed \/ PassFails \/ Environment

Spec == Init /\ [][Next]_vars

\* The queue runs Reconcile again, the cluster's controllers do their work and
\* the informers deliver.
Fairness ==
    /\ WF_vars(Operator)
    /\ WF_vars(OrphanDone) /\ WF_vars(CreateClaim)
    /\ WF_vars(SyncSpec) /\ WF_vars(SyncSts) /\ WF_vars(SyncClaim)

FairSpec == Spec /\ Fairness

-----------------------------------------------------------------------------
(* Properties *)

\* The StatefulSet that DeleteOrphan hits by name never has the wanted template
\* already: the copy compared may be stale, but not older than the last Create,
\* so applyStatefulSet cannot recreate in a loop.
DeletesOutdated ==
    [][(sts.st = "present" /\ sts'.st = "terminating") => sts.template # want]_vars

\* Whatever crashed or timed out between the deletion and the Create, the
\* StatefulSet ends up with the storage of the spec.
TemplateConverges == <>[](sts = [st |-> "present", template |-> spec])

\* An increase of the size reaches the existing claim, whatever crashed or timed
\* out on the way.  Two things make it miss: a claim that could not be updated in
\* the one pass that tries, and an edit while the StatefulSet is created or replaced.
ClaimGrows == <>[](passedOver \/ rushed \/ pvc >= spec.size)

=============================================================================
