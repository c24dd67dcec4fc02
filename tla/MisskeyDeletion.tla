-------------------------- MODULE MisskeyDeletion ---------------------------
(***************************************************************************)
(* The life of a Misskey object and of the data it owns: the finalizer,    *)
(* deletionPolicy, detaching the owner references, the garbage collector   *)
(* and a new object under the same name that takes the data over.          *)
(*                                                                         *)
(* The data resources are of two kinds: the ones applied with server-side  *)
(* apply (CNPG Cluster, Redis custom resources) and the ones applied with  *)
(* CreateOrUpdate (StatefulSets, Secrets).  All are read live here; a      *)
(* conflict with their own controllers is a failed call.                   *)
(***************************************************************************)
EXTENDS Naturals

CONSTANTS
    ServerSide, CreateOrUpdate,     \* the data resources, by the way they are applied
    ApplyRank,      \* their order in reconcileAll
    RetainRank,     \* and in the targets of retainData
    Foreground,     \* the ways the user deletes: TRUE is foreground cascading
    MaxUids,        \* bound: objects created under the name
    MaxEdits,       \* bound: edits of deletionPolicy
    MaxFaults       \* bound: failed calls and crashes

Resources == ServerSide \cup CreateOrUpdate

ASSUME RankAssumption ==
    ApplyRank \in [Resources -> Nat] /\ RetainRank \in [Resources -> Nat]
ASSUME ForegroundAssumption == Foreground \subseteq BOOLEAN
ASSUME BoundAssumption == MaxUids \in Nat /\ MaxEdits \in Nat /\ MaxFaults \in Nat

VARIABLES
    cr,             \* the Misskey object (uid 0: there is none)
    res,            \* each data resource: does it exist, and its owner's uid (0: none)
    seen,           \* the object in the informer cache
    pc, m, todo,    \* locals of Reconcile; the resources still to visit
    uids,           \* objects created so far
    policyOf,       \* the last deletionPolicy of each of them
    edits, faults

vars == <<cr, res, seen, pc, m, todo, uids, policyOf, edits, faults>>

Policies == {"Retain", "Delete"}
Cr   == [uid : Nat, policy : Policies, deleting : BOOLEAN, foreground : BOOLEAN,
         finalizer : BOOLEAN, rv : Nat]
NoCr == [uid |-> 0, policy |-> "Retain", deleting |-> FALSE, foreground |-> FALSE,
         finalizer |-> FALSE, rv |-> 0]
Res  == [exists : BOOLEAN, owner : Nat]
NoRes == [exists |-> FALSE, owner |-> 0]

\* A write gives the object a new resourceVersion.
Write(x) == [x EXCEPT !.rv = @ + 1]

TypeOK ==
    /\ cr \in Cr /\ seen \in Cr /\ m \in Cr
    /\ res \in [Resources -> Res]
    /\ pc \in {"idle", "finalizer", "apply", "orphan", "remove"}
    /\ pc \in {"orphan", "remove"} <=> m.deleting
    /\ todo \subseteq Resources
    /\ uids \in 0..MaxUids /\ policyOf \in [1..MaxUids -> Policies]
    /\ edits \in 0..MaxEdits /\ faults \in 0..MaxFaults

Init ==
    /\ cr = NoCr /\ seen = NoCr /\ m = NoCr
    /\ res = [r \in Resources |-> NoRes]
    /\ pc = "idle" /\ todo = {}
    /\ uids = 0 /\ policyOf = [u \in 1..MaxUids |-> "Retain"]
    /\ edits = 0 /\ faults = 0

(***************************************************************************)
(* The operator.                                                           *)
(***************************************************************************)

\* r is next among the resources still to visit.
First(rank, r) == r \in todo /\ \A q \in todo : rank[r] <= rank[q]

Return == pc' = "idle" /\ m' = NoCr /\ todo' = {}

\* Reconcile reads the object from the cache and takes the deletion path or
\* the normal one.  Without the finalizer the deletion is not its business.
Start ==
    /\ pc = "idle" /\ seen.uid # 0
    /\ ~(seen.deleting /\ ~seen.finalizer)
    /\ m' = seen
    /\ pc' = IF ~seen.deleting THEN "finalizer"
             ELSE IF seen.policy = "Retain" THEN "orphan" ELSE "remove"
    /\ todo' = IF seen.deleting /\ seen.policy = "Delete" THEN {} ELSE Resources
    /\ UNCHANGED <<cr, res, seen, uids, policyOf, edits, faults>>

\* Reconcile adds the finalizer before anything else.  The update is refused
\* when the object has changed or gone, or is being deleted.
AddFinalizer ==
    /\ pc = "finalizer"
    /\ \/ /\ m.finalizer
          /\ pc' = "apply" /\ UNCHANGED <<cr, m, todo>>
       \/ /\ ~m.finalizer /\ m = cr
          /\ cr' = Write([cr EXCEPT !.finalizer = TRUE])
          /\ m' = cr' /\ pc' = "apply" /\ UNCHANGED todo
       \/ /\ ~m.finalizer /\ m # cr
          /\ Return /\ UNCHANGED cr
    /\ UNCHANGED <<res, seen, uids, policyOf, edits, faults>>

\* Slip: an existing resource is left as it is found.
ApplyDataCreateOnly(r) ==
    /\ pc = "apply" /\ First(ApplyRank, r)
    /\ IF ~res[r].exists
         THEN /\ res' = [res EXCEPT ![r] = [exists |-> TRUE, owner |-> m.uid]]
         ELSE UNCHANGED res
    /\ todo' = todo \ {r}
    /\ UNCHANGED <<cr, seen, pc, m, uids, policyOf, edits, faults>>

\* reconcileAll applies a data resource with the object as its owner.
\* Server-side apply drops the reference the same manager set for an earlier
\* object; SetControllerReference refuses a resource another object controls.
ApplyData(r) ==
    /\ pc = "apply" /\ First(ApplyRank, r)
    /\ \/ /\ ~res[r].exists
          /\ res' = [res EXCEPT ![r] = [exists |-> TRUE, owner |-> m.uid]]
          /\ todo' = todo \ {r} /\ UNCHANGED <<pc, m>>
       \/ /\ res[r].exists
          /\ r \in ServerSide \/ res[r].owner \in {0, m.uid}
          /\ res' = [res EXCEPT ![r].owner = m.uid]
          /\ todo' = todo \ {r} /\ UNCHANGED <<pc, m>>
       \/ /\ res[r].exists
          /\ r \in CreateOrUpdate /\ res[r].owner \notin {0, m.uid}
          /\ Return /\ UNCHANGED res
    /\ UNCHANGED <<cr, seen, uids, policyOf, edits, faults>>

EndOfPass ==
    /\ pc = "apply" /\ todo = {}
    /\ Return
    /\ UNCHANGED <<cr, res, seen, uids, policyOf, edits, faults>>

\* Slip: a target that does not exist ends the pass with an error.
orphanMustExist(r) ==
    /\ pc = "orphan" /\ First(RetainRank, r)
    /\ IF ~res[r].exists THEN Return /\ UNCHANGED res
       ELSE /\ res' = IF res[r].owner = m.uid THEN [res EXCEPT ![r].owner = 0] ELSE res
            /\ todo' = todo \ {r} /\ UNCHANGED <<pc, m>>
    /\ UNCHANGED <<cr, seen, uids, policyOf, edits, faults>>

\* orphan: this object's owner reference is taken off one data resource.
orphan(r) ==
    /\ pc = "orphan" /\ First(RetainRank, r)
    /\ res' = IF res[r].exists /\ res[r].owner = m.uid
                THEN [res EXCEPT ![r].owner = 0] ELSE res
    /\ todo' = todo \ {r}
    /\ UNCHANGED <<cr, seen, pc, m, uids, policyOf, edits, faults>>

DataRetained ==
    /\ pc = "orphan" /\ todo = {}
    /\ pc' = "remove"
    /\ UNCHANGED <<cr, res, seen, m, todo, uids, policyOf, edits, faults>>

\* Slip: the finalizer is patched away, whatever happened to the object.
RemoveFinalizerUnchecked ==
    /\ pc = "remove"
    /\ cr' = IF m.uid = cr.uid /\ ~cr.foreground THEN NoCr ELSE cr
    /\ Return
    /\ UNCHANGED <<res, seen, uids, policyOf, edits, faults>>

\* RemoveFinalizer and Update, on the copy the policy was read from.  With the
\* last finalizer the object goes.
RemoveFinalizer ==
    /\ pc = "remove"
    /\ \/ /\ m = cr
          /\ cr' = IF cr.foreground
                     THEN Write([cr EXCEPT !.finalizer = FALSE]) ELSE NoCr
       \/ m # cr /\ UNCHANGED cr
    /\ Return
    /\ UNCHANGED <<res, seen, uids, policyOf, edits, faults>>

\* A call fails or the operator dies: the queue starts over.
PassFails ==
    /\ pc # "idle" /\ faults < MaxFaults /\ faults' = faults + 1
    /\ Return
    /\ UNCHANGED <<cr, res, seen, uids, policyOf, edits>>

Sync ==
    /\ seen # cr
    /\ seen' = cr
    /\ UNCHANGED <<cr, res, pc, m, todo, uids, policyOf, edits, faults>>

(***************************************************************************)
(* The user and the garbage collector.                                     *)
(***************************************************************************)

CreateCr(p) ==
    /\ cr.uid = 0 /\ uids < MaxUids
    /\ uids' = uids + 1
    /\ cr' = [NoCr EXCEPT !.uid = uids + 1, !.policy = p]
    /\ policyOf' = [policyOf EXCEPT ![uids + 1] = p]
    /\ UNCHANGED <<res, seen, pc, m, todo, edits, faults>>

EditPolicy(p) ==
    /\ cr.uid # 0 /\ cr.policy # p /\ edits < MaxEdits
    /\ edits' = edits + 1
    /\ cr' = Write([cr EXCEPT !.policy = p])
    /\ policyOf' = [policyOf EXCEPT ![cr.uid] = p]
    /\ UNCHANGED <<res, seen, pc, m, todo, uids, faults>>

\* The object goes at once when it has no finalizer yet.
DeleteCr(f) ==
    /\ cr.uid # 0 /\ ~cr.deleting
    /\ cr' = IF cr.finalizer \/ f
               THEN Write([cr EXCEPT !.deleting = TRUE, !.foreground = f]) ELSE NoCr
    /\ UNCHANGED <<res, seen, pc, m, todo, uids, policyOf, edits, faults>>

\* The garbage collector removes what refers to an object that is gone, or to
\* one that is being deleted in the foreground.
Collect(r) ==
    /\ res[r].owner # 0
    /\ res[r].owner # cr.uid \/ (cr.deleting /\ cr.foreground)
    /\ res' = [res EXCEPT ![r] = NoRes]
    /\ UNCHANGED <<cr, seen, pc, m, todo, uids, policyOf, edits, faults>>

\* A foreground deletion ends when nothing refers to the object any more.
ForegroundDone ==
    /\ cr.deleting /\ cr.foreground /\ ~cr.finalizer
    /\ \A r \in Resources : res[r].owner # cr.uid
    /\ cr' = NoCr
    /\ UNCHANGED <<res, seen, pc, m, todo, uids, policyOf, edits, faults>>

-----------------------------------------------------------------------------
(* Specification *)

Operator ==
    \/ Start \/ AddFinalizer \/ (\E r \in Resources : ApplyData(r) \/ orphan(r))
    \/ EndOfPass \/ DataRetained \/ RemoveFinalizer

Next ==
    \/ Operator \/ PassFails \/ Sync
    \/ \E p \in Policies : CreateCr(p) \/ EditPolicy(p)
    \/ \E f \in Foreground : DeleteCr(f)
    \/ \E r \in Resources : Collect(r)
    \/ ForegroundDone

Spec == Init /\ [][Next]_vars

\* The queue and the informer deliver, and the garbage collector works.
Fairness ==
    /\ WF_vars(Operator) /\ WF_vars(Sync)
    /\ \A r \in Resources : WF_vars(Collect(r))
    /\ WF_vars(ForegroundDone)

FairSpec == Spec /\ Fairness

-----------------------------------------------------------------------------
(* Properties *)

\* The data of an object whose deletionPolicy is Retain is never collected, also
\* when the policy is changed to Retain while the deletion is under way, a pass
\* fails between two detached resources, or the name is used again; short of a
\* foreground deletion of the object that owns it now.
RetainKeepsData ==
    [][\A r \in Resources :
         (res[r].exists /\ ~res'[r].exists)
            => \/ policyOf[res[r].owner] = "Delete"
               \/ cr.uid = res[r].owner /\ cr.foreground]_vars

\* An object that stays ends up owning all its data resources, those it found
\* from an earlier object of the same name included.
Adopts ==
    <>[](cr.uid # 0 /\ ~cr.deleting =>
           \A r \in Resources : res[r].exists /\ res[r].owner = cr.uid)

\* A deleted object goes: neither a missing target nor a refused update makes
\* the finalizer hold it for ever.
DeletionEnds == cr.deleting ~> ~cr.deleting

=============================================================================
