----------------------- MODULE MisskeyDeletionProofs ------------------------
(***************************************************************************)
(* Data whose object says Retain is never collected, unless the object is  *)
(* deleted in the foreground: for any set of data resources, any order of visiting them,   *)
(* any number of objects, edits and failures.                              *)
(***************************************************************************)
EXTENDS MisskeyDeletion, TLAPS

\* A copy of the object that is live and carries the finalizer is a copy of
\* the object that still exists: only a pass that saw the deletion removes it.
LiveCopy(x) == (x.uid # 0 /\ x.finalizer /\ ~x.deleting) => (cr.uid = x.uid /\ cr.finalizer)

\* A deletion is never taken back.
DeletingCopy(x) == (x.deleting /\ cr.uid = x.uid) => cr.deleting

\* Where the copies of the object stand: uids are fresh, the cache is no older
\* than the copy a deletion works on, and policyOf records the live policy.
CopyInv ==
    /\ cr.uid <= uids /\ seen.uid <= uids /\ m.uid <= uids
    /\ cr.uid # 0 => cr.policy = policyOf[cr.uid]
    /\ cr.uid = 0 => ~cr.deleting
    /\ seen.uid = 0 => ~seen.deleting
    /\ m.uid = 0 => ~m.deleting
    /\ LiveCopy(seen) /\ LiveCopy(m)
    /\ DeletingCopy(seen) /\ DeletingCopy(m)
    /\ (m.deleting /\ seen.uid = m.uid) => seen.deleting
    /\ pc # "idle" => m.uid # 0
    /\ pc = "apply" => m.finalizer

\* Who owns the data: nobody, the live object (which then has the finalizer),
\* or an object that went with policy Delete; and what a deletion has detached.
OwnerInv ==
    /\ \A r \in Resources : res[r].owner <= uids
    /\ \A r \in Resources : res[r].exists \/ res[r].owner = 0
    /\ \A r \in Resources : res[r].owner \notin {0, cr.uid} => policyOf[res[r].owner] = "Delete"
    /\ (cr.uid # 0 /\ ~cr.finalizer /\ ~cr.deleting) => \A r \in Resources : res[r].owner # cr.uid
    /\ pc = "orphan" => \A r \in Resources \ todo : res[r].owner # m.uid
    /\ (pc = "remove" /\ m.policy = "Retain") => \A r \in Resources : res[r].owner # m.uid

RetainInv == TypeOK /\ CopyInv /\ OwnerInv

-----------------------------------------------------------------------------

\* No object: no uid, no deletion, no finalizer.
LEMMA NoCrFacts ==
    NoCr \in Cr /\ NoCr.uid = 0 /\ NoCr.deleting = FALSE /\ NoCr.foreground = FALSE
  BY DEF NoCr, Cr, Policies

\* Writing an object changes its resourceVersion only.
LEMMA WriteFacts ==
    ASSUME NEW x \in Cr
    PROVE  /\ Write(x) \in Cr
           /\ Write(x).uid = x.uid /\ Write(x).policy = x.policy
           /\ Write(x).deleting = x.deleting /\ Write(x).foreground = x.foreground
           /\ Write(x).finalizer = x.finalizer
  BY DEF Write, Cr

\* Writing the finalizer changes nothing else of the object.
LEMMA WriteFinalizer ==
    ASSUME NEW x \in Cr, NEW b \in BOOLEAN, NEW z, z = Write([x EXCEPT !.finalizer = b])
    PROVE  z \in Cr /\ z.uid = x.uid /\ z.policy = x.policy /\ z.deleting = x.deleting
           /\ z.foreground = x.foreground /\ z.finalizer = b
<1> DEFINE y == [x EXCEPT !.finalizer = b]
<1>1. y \in Cr
  BY DEF Cr
<1>2. y.uid = x.uid /\ y.policy = x.policy /\ y.deleting = x.deleting
      /\ y.foreground = x.foreground /\ y.finalizer = b
  BY DEF Cr
<1>3. z = Write(y)
  OBVIOUS
<1> HIDE DEF y
<1> QED
  BY <1>1, <1>2, <1>3, WriteFacts

\* Nor does writing the policy.
LEMMA WritePolicy ==
    ASSUME NEW x \in Cr, NEW p \in Policies, NEW z, z = Write([x EXCEPT !.policy = p])
    PROVE  z \in Cr /\ z.uid = x.uid /\ z.policy = p /\ z.deleting = x.deleting
           /\ z.foreground = x.foreground /\ z.finalizer = x.finalizer
<1> DEFINE y == [x EXCEPT !.policy = p]
<1>1. y \in Cr
  BY DEF Cr
<1>2. y.uid = x.uid /\ y.policy = p /\ y.deleting = x.deleting
      /\ y.foreground = x.foreground /\ y.finalizer = x.finalizer
  BY DEF Cr
<1>3. z = Write(y)
  OBVIOUS
<1> HIDE DEF y
<1> QED
  BY <1>1, <1>2, <1>3, WriteFacts

\* Nor does marking it for deletion.
LEMMA WriteDeletion ==
    ASSUME NEW x \in Cr, NEW f \in BOOLEAN, NEW z, z = Write([x EXCEPT !.deleting = TRUE, !.foreground = f])
    PROVE  z \in Cr /\ z.uid = x.uid /\ z.policy = x.policy /\ z.deleting = TRUE
           /\ z.foreground = f /\ z.finalizer = x.finalizer
<1> DEFINE y == [x EXCEPT !.deleting = TRUE, !.foreground = f]
<1>1. y \in Cr
  BY DEF Cr
<1>2. y.uid = x.uid /\ y.policy = x.policy /\ y.deleting = TRUE
      /\ y.foreground = f /\ y.finalizer = x.finalizer
  BY DEF Cr
<1>3. z = Write(y)
  OBVIOUS
<1> HIDE DEF y
<1> QED
  BY <1>1, <1>2, <1>3, WriteFacts

\* What AddFinalizer leaves of the object.
LEMMA AddFinalizerWrites ==
    ASSUME TypeOK, AddFinalizer, ~m.finalizer, m = cr
    PROVE  cr' \in Cr /\ cr'.uid = cr.uid /\ cr'.policy = cr.policy
           /\ cr'.deleting = cr.deleting /\ cr'.foreground = cr.foreground /\ cr'.finalizer = TRUE
<1>1. cr \in Cr /\ cr' = Write([cr EXCEPT !.finalizer = TRUE])
  BY DEF TypeOK, AddFinalizer
<1> QED
  BY <1>1, WriteFinalizer

\* What RemoveFinalizer leaves of the object.
LEMMA RemoveFinalizerWrites ==
    ASSUME TypeOK, RemoveFinalizer
    PROVE  /\ cr' \in Cr
           /\ \/ cr' = cr \/ cr' = NoCr
              \/ /\ m = cr /\ cr'.uid = cr.uid /\ cr'.policy = cr.policy
                 /\ cr'.deleting = cr.deleting
<1> DEFINE z == Write([cr EXCEPT !.finalizer = FALSE])
<1>1. z \in Cr /\ z.uid = cr.uid /\ z.policy = cr.policy /\ z.deleting = cr.deleting
  BY WriteFinalizer DEF TypeOK
<1>2. (m = cr /\ cr' = z) \/ cr' = NoCr \/ cr' = cr
  BY DEF RemoveFinalizer
<1> HIDE DEF z
<1> QED
  BY <1>1, <1>2, NoCrFacts DEF TypeOK

\* What CreateCr makes.
LEMMA CreateCrWrites ==
    ASSUME TypeOK, NEW p \in Policies, CreateCr(p)
    PROVE  cr' \in Cr /\ cr'.uid = uids + 1 /\ cr'.policy = p
           /\ cr'.deleting = FALSE /\ cr'.foreground = FALSE /\ cr'.finalizer = FALSE
<1>1. uids + 1 \in Nat /\ cr' = [NoCr EXCEPT !.uid = uids + 1, !.policy = p]
  BY BoundAssumption DEF TypeOK, CreateCr
<1> QED
  BY <1>1 DEF NoCr, Cr, Policies

\* What EditPolicy leaves of the object.
LEMMA EditPolicyWrites ==
    ASSUME TypeOK, NEW p \in Policies, EditPolicy(p)
    PROVE  cr' \in Cr /\ cr'.uid = cr.uid /\ cr'.policy = p
           /\ cr'.deleting = cr.deleting /\ cr'.foreground = cr.foreground /\ cr'.finalizer = cr.finalizer
<1>1. cr \in Cr /\ cr' = Write([cr EXCEPT !.policy = p])
  BY DEF TypeOK, EditPolicy
<1> QED
  BY <1>1, WritePolicy

\* What DeleteCr leaves of an object that stays for its finalizer.
LEMMA DeleteCrWrites ==
    ASSUME TypeOK, NEW f \in BOOLEAN, DeleteCr(f), cr.finalizer \/ f
    PROVE  cr' \in Cr /\ cr'.uid = cr.uid /\ cr'.policy = cr.policy
           /\ cr'.deleting = TRUE /\ cr'.foreground = f /\ cr'.finalizer = cr.finalizer
<1>1. cr \in Cr /\ cr' = Write([cr EXCEPT !.deleting = TRUE, !.foreground = f])
  BY DEF TypeOK, DeleteCr
<1>2. cr \in Cr /\ f \in BOOLEAN
  BY <1>1
<1> HIDE DEF Write
<1> QED
  BY ONLY <1>1, <1>2, WriteDeletion

\* A resource with another owner, or none, is a resource.
LEMMA OwnerWrites ==
    ASSUME NEW x \in Res, NEW u \in Nat PROVE [x EXCEPT !.owner = u] \in Res
  BY DEF Res

\* Every step of the operator, the user and the collector keeps the types.
LEMMA TypeStep ==
    ASSUME TypeOK, [Next]_vars PROVE TypeOK'
<1> USE BoundAssumption, NoCrFacts DEF TypeOK, Cr, Res, NoRes, Policies
<1>1. CASE Start
  BY <1>1 DEF Start, Return
<1>2. CASE AddFinalizer
  <2>1. CASE m.finalizer
    BY <1>2, <2>1 DEF AddFinalizer
  <2>2. CASE ~m.finalizer /\ m = cr
    BY <1>2, <2>2, AddFinalizerWrites DEF AddFinalizer
  <2>3. CASE ~m.finalizer /\ m # cr
    BY <1>2, <2>3 DEF AddFinalizer, Return
  <2> QED
    BY <2>1, <2>2, <2>3
<1>3. CASE EndOfPass
  BY <1>3 DEF EndOfPass, Return
<1>4. CASE DataRetained
  BY <1>4 DEF DataRetained, Return
<1>5. CASE RemoveFinalizer
  <2>1. cr' \in Cr
    BY <1>5, RemoveFinalizerWrites DEF RemoveFinalizer
  <2> QED
    BY <1>5, <2>1 DEF RemoveFinalizer, Return
<1>6. CASE PassFails
  BY <1>6 DEF PassFails, Return
<1>7. CASE Sync
  BY <1>7 DEF Sync, Return
<1>8. ASSUME NEW r \in Resources, ApplyData(r) PROVE TypeOK'
  <2> DEFINE made == [exists |-> TRUE, owner |-> m.uid]
  <2>0. made \in Res /\ [res[r] EXCEPT !.owner = m.uid] \in Res
    BY OwnerWrites
  <2>1. res' \in [Resources -> Res]
    BY <1>8, <2>0 DEF ApplyData
  <2>2. m' \in Cr /\ pc' \in {"idle", "apply"}
    BY <1>8 DEF ApplyData, Return
  <2>4. todo' \subseteq Resources
    BY <1>8 DEF ApplyData, Return
  <2>3. m'.deleting = FALSE
    BY <1>8 DEF ApplyData, Return
  <2> QED
    BY <1>8, <2>1, <2>2, <2>3, <2>4 DEF ApplyData
<1>9. ASSUME NEW r \in Resources, orphan(r) PROVE TypeOK'
  <2>0. [res[r] EXCEPT !.owner = 0] \in Res
    <3>1. res[r] \in Res /\ 0 \in Nat
      BY <1>9
    <3> QED
      BY <3>1, OwnerWrites
  <2>1. res' \in [Resources -> Res]
    BY <1>9, <2>0 DEF orphan
  <2>2. todo' \subseteq Resources
    BY <1>9 DEF orphan
  <2>3. UNCHANGED <<cr, seen, pc, m, uids, policyOf, edits, faults>>
    BY <1>9 DEF orphan
  <2> QED
    BY <2>1, <2>2, <2>3
<1>10. ASSUME NEW p \in Policies, CreateCr(p) PROVE TypeOK'
  <2>1. cr' \in Cr
    BY <1>10, CreateCrWrites DEF CreateCr
  <2>2. uids' \in 0..MaxUids /\ policyOf' \in [1..MaxUids -> Policies]
    BY <1>10 DEF CreateCr
  <2> QED
    BY <1>10, <2>1, <2>2 DEF CreateCr
<1>11. ASSUME NEW p \in Policies, EditPolicy(p) PROVE TypeOK'
  <2>1. cr' \in Cr
    BY <1>11, EditPolicyWrites DEF EditPolicy
  <2>2. policyOf' \in [1..MaxUids -> Policies]
    BY <1>11 DEF EditPolicy
  <2>3. edits' \in 0..MaxEdits
    BY <1>11 DEF EditPolicy
  <2>4. UNCHANGED <<res, seen, pc, m, todo, uids, faults>>
    BY <1>11 DEF EditPolicy
  <2> QED
    BY <2>1, <2>2, <2>3, <2>4
<1>12. ASSUME NEW f \in Foreground, DeleteCr(f) PROVE TypeOK'
  <2>1. cr' \in Cr
    BY <1>12, ForegroundAssumption, DeleteCrWrites DEF DeleteCr
  <2> QED
    BY <1>12, <2>1 DEF DeleteCr
<1>13. ASSUME NEW r \in Resources, Collect(r) PROVE TypeOK'
  BY <1>13 DEF Collect
<1>14. CASE ForegroundDone
  BY <1>14 DEF ForegroundDone
<1>15. CASE UNCHANGED vars
  BY <1>15 DEF vars
<1> QED
  BY <1>1, <1>2, <1>3, <1>4, <1>5, <1>6, <1>7, <1>8, <1>9, <1>10, <1>11, <1>12, <1>13, <1>14, <1>15 DEF Next, Operator

\* Every step keeps the copies of the object in order.
LEMMA CopyStep ==
    ASSUME TypeOK, CopyInv, [Next]_vars PROVE CopyInv'
<1> USE BoundAssumption, NoCrFacts DEF TypeOK, Cr, Res, NoRes, Policies, CopyInv, LiveCopy, DeletingCopy
<1>1. CASE Start
  BY <1>1 DEF Start, Return
<1>2. CASE AddFinalizer
  <2>1. CASE m.finalizer
    BY <1>2, <2>1 DEF AddFinalizer
  <2>2. CASE ~m.finalizer /\ m = cr
    BY <1>2, <2>2, AddFinalizerWrites DEF AddFinalizer
  <2>3. CASE ~m.finalizer /\ m # cr
    BY <1>2, <2>3 DEF AddFinalizer, Return
  <2> QED
    BY <2>1, <2>2, <2>3
<1>3. CASE EndOfPass
  BY <1>3 DEF EndOfPass, Return
<1>4. CASE DataRetained
  BY <1>4 DEF DataRetained, Return
<1>5. CASE RemoveFinalizer
  <2>1. m.deleting /\ m' = NoCr /\ pc' = "idle" /\ UNCHANGED <<seen, uids, policyOf>>
    BY <1>5 DEF RemoveFinalizer, Return
  <2>2. CASE cr' = cr
    BY <2>1, <2>2
  <2>3. CASE cr' # cr
    <3>1. m = cr /\ (seen.uid = cr.uid => seen.deleting)
      BY <1>5, <2>1, <2>3 DEF RemoveFinalizer
    <3>2. CASE cr' = NoCr
      BY <2>1, <3>1, <3>2
    <3>3. CASE cr'.uid = cr.uid /\ cr'.policy = cr.policy /\ cr'.deleting = cr.deleting
      BY <2>1, <3>1, <3>3
    <3> QED
      BY <1>5, <2>3, <3>2, <3>3, RemoveFinalizerWrites
  <2> QED
    BY <2>2, <2>3
<1>6. CASE PassFails
  BY <1>6 DEF PassFails, Return
<1>7. CASE Sync
  BY <1>7 DEF Sync, Return
<1>8. ASSUME NEW r \in Resources, ApplyData(r) PROVE CopyInv'
  BY <1>8 DEF ApplyData, Return, First
<1>9. ASSUME NEW r \in Resources, orphan(r) PROVE CopyInv'
  BY <1>9 DEF orphan, First
<1>10. ASSUME NEW p \in Policies, CreateCr(p) PROVE CopyInv'
  BY <1>10, CreateCrWrites DEF CreateCr
<1>11. ASSUME NEW p \in Policies, EditPolicy(p) PROVE CopyInv'
  <2>1. cr.uid \in 1..MaxUids
    BY <1>11 DEF EditPolicy
  <2>2. policyOf'[cr.uid] = p
    BY <1>11, <2>1 DEF EditPolicy
  <2> QED
    BY <1>11, <2>2, EditPolicyWrites DEF EditPolicy
<1>12. ASSUME NEW f \in Foreground, DeleteCr(f) PROVE CopyInv'
  <2>1. CASE cr.finalizer \/ f
    BY <1>12, <2>1, ForegroundAssumption, DeleteCrWrites DEF DeleteCr
  <2>2. CASE ~(cr.finalizer \/ f)
    BY <1>12, <2>2 DEF DeleteCr
  <2> QED
    BY <2>1, <2>2
<1>13. ASSUME NEW r \in Resources, Collect(r) PROVE CopyInv'
  BY <1>13 DEF Collect
<1>14. CASE ForegroundDone
  BY <1>14 DEF ForegroundDone
<1>15. CASE UNCHANGED vars
  BY <1>15 DEF vars
<1> QED
  BY <1>1, <1>2, <1>3, <1>4, <1>5, <1>6, <1>7, <1>8, <1>9, <1>10, <1>11, <1>12, <1>13, <1>14, <1>15 DEF Next, Operator

\* Every step keeps the ownership of the data in order.
LEMMA OwnerStep ==
    ASSUME TypeOK, CopyInv, OwnerInv, [Next]_vars PROVE OwnerInv'
<1> USE BoundAssumption, NoCrFacts DEF TypeOK, Cr, Res, NoRes, Policies, CopyInv, LiveCopy, DeletingCopy, OwnerInv
<1>1. CASE Start
  BY <1>1 DEF Start, Return
<1>2. CASE AddFinalizer
  <2>1. CASE m.finalizer
    BY <1>2, <2>1 DEF AddFinalizer
  <2>2. CASE ~m.finalizer /\ m = cr
    BY <1>2, <2>2, AddFinalizerWrites DEF AddFinalizer
  <2>3. CASE ~m.finalizer /\ m # cr
    BY <1>2, <2>3 DEF AddFinalizer, Return
  <2> QED
    BY <2>1, <2>2, <2>3
<1>3. CASE EndOfPass
  BY <1>3 DEF EndOfPass, Return
<1>4. CASE DataRetained
  BY <1>4 DEF DataRetained, Return
<1>5. CASE RemoveFinalizer
  <2>1. CASE m = cr
    <3>1. pc' = "idle" /\ res' = res /\ policyOf' = policyOf /\ uids' = uids /\ m.deleting
      BY <1>5, <2>1 DEF RemoveFinalizer, Return
    <3>2. cr'.uid = 0 \/ (cr'.uid = cr.uid /\ cr'.deleting)
      BY <1>5, <2>1, <3>1, RemoveFinalizerWrites
    <3>3. ASSUME NEW r \in Resources, res[r].owner # 0, cr'.uid = 0
          PROVE  policyOf[res[r].owner] = "Delete"
      BY <1>5, <2>1, <3>3 DEF RemoveFinalizer
    <3>4. CASE cr'.uid = 0
      BY <3>1, <3>3, <3>4
    <3>5. CASE cr'.uid = cr.uid /\ cr'.deleting
      BY <3>1, <3>5
    <3> QED
      BY <3>2, <3>4, <3>5
  <2>2. CASE m # cr
    BY <1>5, <2>2 DEF RemoveFinalizer, Return
  <2> QED
    BY <2>1, <2>2
<1>6. CASE PassFails
  BY <1>6 DEF PassFails, Return
<1>7. CASE Sync
  BY <1>7 DEF Sync, Return
<1>8. ASSUME NEW r \in Resources, ApplyData(r) PROVE OwnerInv'
  <2>1. cr.uid = m.uid /\ cr.finalizer /\ cr.uid # 0
    BY <1>8 DEF ApplyData
  <2>2. ASSUME NEW q \in Resources
        PROVE  res'[q] = res[q] \/ (res'[q].exists /\ res'[q].owner = cr.uid)
    <3>1. CASE res' = [res EXCEPT ![r] = [exists |-> TRUE, owner |-> m.uid]]
      BY <2>1, <3>1
    <3>2. CASE res[r].exists /\ res' = [res EXCEPT ![r].owner = m.uid]
      BY <2>1, <3>2
    <3>3. CASE UNCHANGED res
      BY <3>3
    <3> QED
      BY <1>8, <3>1, <3>2, <3>3 DEF ApplyData
  <2>3. pc' \in {"idle", "apply"} /\ cr' = cr /\ uids' = uids /\ policyOf' = policyOf
    BY <1>8 DEF ApplyData, Return
  <2>4. ASSUME NEW q \in Resources
        PROVE  /\ res'[q].owner <= uids
               /\ res'[q].exists \/ res'[q].owner = 0
               /\ res'[q].owner \notin {0, cr.uid} => policyOf[res'[q].owner] = "Delete"
    BY <2>1, <2>2
  <2> QED
    BY <2>1, <2>3, <2>4
<1>9. ASSUME NEW r \in Resources, orphan(r) PROVE OwnerInv'
  BY <1>9 DEF orphan, First
<1>10. ASSUME NEW p \in Policies, CreateCr(p) PROVE OwnerInv'
  <2>1. \A u \in 1..uids : policyOf'[u] = policyOf[u]
    BY <1>10 DEF CreateCr
  <2>2. \A r \in Resources : res[r].owner \in 0..uids
    OBVIOUS
  <2> QED
    BY <1>10, <2>1, <2>2, CreateCrWrites DEF CreateCr
<1>11. ASSUME NEW p \in Policies, EditPolicy(p) PROVE OwnerInv'
  <2>1. \A u \in 1..MaxUids : u # cr.uid => policyOf'[u] = policyOf[u]
    BY <1>11 DEF EditPolicy
  <2>2. \A r \in Resources : res[r].owner \notin {0, cr.uid} =>
                              policyOf'[res[r].owner] = policyOf[res[r].owner]
    BY <2>1
  <2>3. cr'.uid = cr.uid /\ cr'.finalizer = cr.finalizer /\ cr'.deleting = cr.deleting
    BY <1>11, EditPolicyWrites
  <2>4. UNCHANGED <<res, pc, m, todo, uids>>
    BY <1>11 DEF EditPolicy
  <2> QED
    BY <2>2, <2>3, <2>4
<1>12. ASSUME NEW f \in Foreground, DeleteCr(f) PROVE OwnerInv'
  <2>1. CASE cr.finalizer \/ f
    <3>1. cr'.uid = cr.uid /\ cr'.deleting = TRUE
      BY <1>12, <2>1, ForegroundAssumption, DeleteCrWrites
    <3>2. UNCHANGED <<res, pc, m, todo, uids, policyOf>>
      BY <1>12 DEF DeleteCr
    <3> QED
      BY <3>1, <3>2
  <2>2. CASE ~(cr.finalizer \/ f)
    BY <1>12, <2>2 DEF DeleteCr
  <2> QED
    BY <2>1, <2>2
<1>13. ASSUME NEW r \in Resources, Collect(r) PROVE OwnerInv'
  BY <1>13 DEF Collect
<1>14. CASE ForegroundDone
  BY <1>14 DEF ForegroundDone
<1>15. CASE UNCHANGED vars
  BY <1>15 DEF vars
<1> QED
  BY <1>1, <1>2, <1>3, <1>4, <1>5, <1>6, <1>7, <1>8, <1>9, <1>10, <1>11, <1>12, <1>13, <1>14, <1>15 DEF Next, Operator

\* The invariant holds in every reachable state.
THEOREM RetainInvHolds ==
    Spec => []RetainInv
<1>1. Init => RetainInv
  BY BoundAssumption DEF Init, RetainInv, TypeOK, CopyInv, LiveCopy, DeletingCopy, OwnerInv,
     Cr, NoCr, Res, NoRes, Policies
<1>2. RetainInv /\ [Next]_vars => RetainInv'
  BY TypeStep, CopyStep, OwnerStep DEF RetainInv
<1> QED
  BY <1>1, <1>2, PTL DEF Spec

\* Data is collected only when the object that owned it had policy Delete, or
\* is there and being deleted in the foreground: what retainData, the finalizer and the update on
\* the copy the policy was read from are for.
THEOREM RetainedIsKept ==
    Spec => RetainKeepsData
<1> DEFINE Lost == \A r \in Resources :
                     (res[r].exists /\ ~res'[r].exists)
                        => \/ policyOf[res[r].owner] = "Delete"
                           \/ cr.uid = res[r].owner /\ cr.foreground
<1>1. ASSUME RetainInv, [Next]_vars PROVE Lost \/ UNCHANGED vars
  <2> SUFFICES ASSUME NEW r \in Resources, res[r].exists, ~res'[r].exists
               PROVE  policyOf[res[r].owner] = "Delete" \/ (cr.uid = res[r].owner /\ cr.foreground)
    OBVIOUS
  <2>1. res' # res
    OBVIOUS
  <2>2. PICK q \in Resources : ApplyData(q) \/ orphan(q) \/ Collect(q)
    BY <1>1, <2>1 DEF Next, Operator, Start, AddFinalizer, EndOfPass, DataRetained,
       RemoveFinalizer, PassFails, Sync, CreateCr, EditPolicy, DeleteCr, ForegroundDone, vars
  <2>3. ~ApplyData(q)
    BY <1>1 DEF RetainInv, TypeOK, Res, ApplyData
  <2>4. ~orphan(q)
    BY <1>1 DEF RetainInv, TypeOK, Res, orphan
  <2>5. Collect(q) /\ q = r
    BY <1>1, <2>2, <2>3, <2>4 DEF RetainInv, TypeOK, Res, Collect
  <2> QED
    BY <1>1, <2>5 DEF RetainInv, CopyInv, OwnerInv, TypeOK, Cr, Res, Collect
<1> QED
  BY <1>1, RetainInvHolds, PTL DEF Spec, RetainKeepsData

=============================================================================
