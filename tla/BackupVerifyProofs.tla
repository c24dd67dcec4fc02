------------------------- MODULE BackupVerifyProofs -------------------------
(***************************************************************************)
(* The result of a restore test is in the status before its Cluster goes,  *)
(* and a lagging cache brings at most one test too many.                   *)
(***************************************************************************)
EXTENDS BackupVerify, TLAPS

\* From the read of the Cluster to the record, the result is true of it; from
\* the record to the deletion, the status holds it.
RecordInv ==
    /\ pc = "record" => Proven(result)
    /\ pc = "delete" => status.result \in verdicts /\ Proven(status.result)

VerifyType == status \in Status /\ result \in Results /\ cluster \in Cluster

VerifyInv == VerifyType /\ RecordInv

\* A Cluster that is ready stays ready and one that is out of time stays so; the
\* status ages, but only recordBackupVerification changes its result.
LEMMA VerifyStep == VerifyInv /\ [Next]_vars => VerifyInv'
<1> SUFFICES ASSUME VerifyInv, [Next]_vars
             PROVE  VerifyInv'
  OBVIOUS
<1> USE TimeAssumption DEF VerifyInv, VerifyType, RecordInv, Proven, Results
<1>1. CASE Start
  BY <1>1 DEF Start, objVars, testVars
<1>2. CASE CheckCluster
  <2>1. status' = status /\ cluster' = cluster /\ pc' \in {"create", "end", "record"}
    BY <1>2 DEF CheckCluster, objVars, testVars
  <2>2. CASE cluster.st = "ready"
    BY <1>2, <2>1, <2>2 DEF CheckCluster
  <2>3. CASE cluster.st = "restoring" /\ cluster.age > Timeout
    BY <1>2, <2>1, <2>3 DEF CheckCluster
  <2>4. CASE result' = result /\ pc' # "record"
    BY <2>1, <2>4
  <2> QED  BY <1>2, <2>2, <2>3, <2>4 DEF CheckCluster
<1>3. CASE CreateCluster
  <2>1. cluster' \in Cluster
    BY <1>3 DEF CreateCluster, Cluster
  <2> QED  BY <1>3, <2>1 DEF CreateCluster, objVars
<1>4. CASE recordBackupVerification
  <2>1. result' = result /\ cluster' = cluster
    BY <1>4 DEF recordBackupVerification
  <2>2. CASE IsCurrent
    <3>1. status' = [result |-> result, since |-> 0] /\ verdicts' = verdicts \cup {result}
      BY <1>4, <2>2 DEF recordBackupVerification, Record
    <3>2. pc = "record" /\ pc' = "delete"
      BY <1>4, <2>2 DEF recordBackupVerification
    <3>3. status' \in Status
      BY <3>1 DEF Status
    <3> QED  BY <2>1, <3>1, <3>2, <3>3
  <2>3. CASE ~IsCurrent
    BY <1>4, <2>1, <2>3 DEF recordBackupVerification
  <2> QED  BY <2>2, <2>3
<1>5. CASE DeleteCluster
  <2>1. cluster' \in Cluster
    BY <1>5 DEF DeleteCluster, NoCluster, Cluster
  <2> QED  BY <1>5, <2>1 DEF DeleteCluster, objVars
<1>6. CASE EndPass
  BY <1>6 DEF EndPass, Return, testVars
<1>7. CASE PassFails
  BY <1>7 DEF PassFails, Return, objVars, testVars
<1>8. CASE EditSpec \/ Sync
  BY <1>8 DEF EditSpec, Sync, testVars
<1>9. CASE Restored
  <2>1. /\ cluster' \in Cluster
        /\ cluster'.st = "ready" /\ cluster'.age = cluster.age
    BY <1>9 DEF Restored, Cluster
  <2> QED  BY <1>9, <2>1 DEF Restored, objVars
<1>10. CASE Tick
  <2>1. status' \in Status /\ status'.result = status.result
    BY <1>10 DEF Tick, Older, Status
  <2>2. /\ cluster' \in Cluster /\ cluster'.st = cluster.st
        /\ cluster.age > Timeout => cluster'.age > Timeout
    BY <1>10 DEF Tick, Cluster
  <2> QED  BY <1>10, <2>1, <2>2 DEF Tick
<1>11. CASE UNCHANGED vars
  BY <1>11 DEF vars, objVars, testVars
<1> QED
  BY <1>1, <1>2, <1>3, <1>4, <1>5, <1>6, <1>7, <1>8, <1>9, <1>10, <1>11 DEF Next, Operator

\* For every interval, timeout and bound, and any lag of the cache: the Cluster
\* of a restore test is deleted by the pass that verified it only when the
\* status holds its result (reconcileBackupVerify records before it deletes).
THEOREM ResultIsKept == Spec => RecordedBeforeDeleted
<1>1. Init => VerifyInv
  BY TimeAssumption
  DEF Init, VerifyInv, VerifyType, RecordInv, NoStatus, Status, Results, NoCluster, Cluster
<1>2. VerifyInv => ((pc = "delete" /\ cluster.st # "absent" /\ cluster'.st = "absent")
                      => status.result \in verdicts /\ Proven(status.result))
  BY DEF VerifyInv, RecordInv
<1> QED
  BY <1>1, <1>2, VerifyStep, PTL DEF Spec, RecordedBeforeDeleted

\* The cache is at most one record behind, because a record is made on a cache
\* that shows the one before it; so a pass acts on the status or on the one that
\* the last record replaced.  What it found to be due stays due: its copy ages.
DueInv ==
    /\ seenStatus \in Status /\ m \in Status /\ prev \in Status
    /\ status.result = "none" => status.since = Interval
    /\ prev.result = "none" => prev.since = Interval
    /\ CacheLag => seenStatus \in {status, prev} /\ (current => seenStatus = status)
    /\ pc \in {"check", "create"} => m \in {status, prev}
    /\ pc = "create" => backupVerifyDue(m)

\* Time only makes a status older.
LEMMA OlderFacts ==
    ASSUME NEW v \in Status
    PROVE  /\ Older(v) \in Status /\ Older(v).result = v.result
           /\ v.since = Interval => Older(v).since = Interval
           /\ backupVerifyDue(v) => backupVerifyDue(Older(v))
  BY TimeAssumption DEF Older, Status, backupVerifyDue

\* Every step keeps what is due due.
LEMMA DueStep == VerifyInv /\ DueInv /\ [Next]_vars => DueInv'
<1> SUFFICES ASSUME VerifyInv, DueInv, [Next]_vars
             PROVE  DueInv'
  OBVIOUS
<1>1. NoStatus \in Status /\ status \in Status
  BY TimeAssumption DEF VerifyInv, VerifyType, NoStatus, Status, Results
<1> USE <1>1 DEF DueInv
<1>2. CASE Start
  <2>1. UNCHANGED <<status, seenStatus, current, prev>> /\ m' = GetStatus /\ pc' # "create"
    BY <1>2 DEF Start, objVars, testVars
  <2>2. GetStatus \in {status, prev} /\ GetStatus \in Status
    BY DEF GetStatus
  <2> QED  BY <2>1, <2>2
<1>3. CASE CheckCluster
  BY <1>3 DEF CheckCluster, objVars, testVars
<1>4. CASE CreateCluster \/ DeleteCluster
  BY <1>4 DEF CreateCluster, DeleteCluster, objVars
<1>5. CASE recordBackupVerification
  <2>1. pc' \notin {"check", "create"} /\ UNCHANGED <<seenStatus, m>>
    BY <1>5 DEF recordBackupVerification
  <2>2. CASE ~IsCurrent
    <3>1. UNCHANGED <<status, current, prev>>
      BY <1>5, <2>2 DEF recordBackupVerification
    <3> QED  BY <2>1, <3>1
  <2>3. CASE IsCurrent
    <3>1. status' = [result |-> result, since |-> 0] /\ prev' = status /\ ~current'
      BY <1>5, <2>3 DEF recordBackupVerification, Record
    <3>2. result # "none"
      BY <1>5 DEF recordBackupVerification, VerifyInv, RecordInv, Proven
    <3>3. CacheLag => seenStatus = status
      BY <2>3 DEF IsCurrent
    <3> QED  BY <2>1, <3>1, <3>2, <3>3
  <2> QED  BY <2>2, <2>3
<1>6. CASE EndPass \/ PassFails
  BY <1>6 DEF EndPass, PassFails, Return, objVars, testVars
<1>7. CASE EditSpec \/ Restored \/ Sync
  BY <1>7 DEF EditSpec, Restored, Sync, objVars, testVars
<1>8. CASE Tick
  <2>1. /\ status' = Older(status) /\ seenStatus' = Older(seenStatus)
        /\ m' = Older(m) /\ prev' = Older(prev) /\ UNCHANGED <<pc, current>>
    BY <1>8 DEF Tick
  <2>2. /\ seenStatus' \in Status /\ m' \in Status /\ prev' \in Status
        /\ status'.result = "none" => status'.since = Interval
        /\ prev'.result = "none" => prev'.since = Interval
        /\ pc' = "create" => backupVerifyDue(m')
    BY <2>1, OlderFacts
  <2>3. /\ CacheLag => seenStatus' \in {status', prev'} /\ (current' => seenStatus' = status')
        /\ pc' \in {"check", "create"} => m' \in {status', prev'}
    BY <2>1
  <2> QED  BY <2>2, <2>3 DEF backupVerifyDue
<1>9. CASE UNCHANGED vars
  BY <1>9 DEF vars, objVars, testVars
<1> QED
  BY <1>2, <1>3, <1>4, <1>5, <1>6, <1>7, <1>8, <1>9 DEF Next, Operator

\* For every interval, timeout and bound, and any lag of the cache: a restore
\* test starts only when the interval has passed since the last record or since
\* the one before it (backupVerifyDue on a read of recordBackupVerification's
\* status that may be behind).
THEOREM LagCostsOneTest == Spec => AtMostOneExtra
<1>1. Init => VerifyInv /\ DueInv
  BY TimeAssumption
  DEF Init, VerifyInv, VerifyType, RecordInv, DueInv, NoStatus, Status, Results, NoCluster, Cluster
<1>2. VerifyInv /\ DueInv /\ [Next]_vars
        => [(cluster.st = "absent" /\ cluster'.st # "absent")
              => status.since >= Interval \/ prev.since >= Interval]_vars
  <2> SUFFICES ASSUME VerifyInv, DueInv, Next, cluster.st = "absent", cluster'.st # "absent"
               PROVE  status.since >= Interval \/ prev.since >= Interval
    OBVIOUS
  <2>1. pc = "create"
    BY DEF Next, Operator, Start, CheckCluster, CreateCluster, recordBackupVerification,
           DeleteCluster, EndPass, PassFails, EditSpec, Restored, Sync, Tick, NoCluster, testVars
  <2>2. m.since >= Interval
    BY <2>1, TimeAssumption DEF DueInv, backupVerifyDue
  <2> QED  BY <2>1, <2>2 DEF DueInv
<1> QED
  BY <1>1, <1>2, VerifyStep, DueStep, PTL DEF Spec, AtMostOneExtra

\* Every state is well typed.  The verdicts need RecordInv: only a result that a
\* look at the Cluster gave is ever recorded (recordBackupVerification).
THEOREM VerifyTypes == Spec => []TypeOK
<1>1. Init => VerifyInv /\ DueInv /\ TypeOK
  BY TimeAssumption, ModeAssumption, BoundAssumption
  DEF Init, VerifyInv, VerifyType, RecordInv, DueInv, TypeOK, NoStatus, Status, Results,
      NoCluster, Cluster
<1>2. VerifyInv /\ DueInv /\ TypeOK /\ [Next]_vars => TypeOK'
  <2> SUFFICES ASSUME VerifyInv, DueInv, TypeOK, [Next]_vars
               PROVE  TypeOK'
    OBVIOUS
  <2>1. /\ status' \in Status /\ seenStatus' \in Status /\ m' \in Status
        /\ prev' \in Status /\ cluster' \in Cluster /\ result' \in Results
    BY VerifyStep, DueStep DEF VerifyInv, VerifyType, DueInv
  <2> USE <2>1, ModeAssumption, BoundAssumption
      DEF TypeOK, objVars, testVars, boundVars
  <2>2. CASE Start
    BY <2>2 DEF Start
  <2>3. CASE CheckCluster
    BY <2>3 DEF CheckCluster
  <2>4. CASE CreateCluster \/ DeleteCluster
    BY <2>4 DEF CreateCluster, DeleteCluster
  <2>5. CASE recordBackupVerification
    <3>1. result \in {"Succeeded", "Failed"}
      BY <2>5 DEF recordBackupVerification, VerifyInv, RecordInv, Proven
    <3>2. verdicts' \subseteq {"Succeeded", "Failed"}
      BY <2>5, <3>1 DEF recordBackupVerification, Record
    <3> QED  BY <2>5, <3>2 DEF recordBackupVerification, Record
  <2>6. CASE EndPass \/ PassFails
    <3>1. pc' = "idle" /\ current' \in BOOLEAN
      BY <2>6 DEF EndPass, PassFails, Return
    <3>2. writes' \in 0..MaxWrites /\ faults' \in 0..MaxFaults
      BY <2>6 DEF EndPass, PassFails
    <3>3. UNCHANGED <<mode, seenMode, verdicts, edits>>
      BY <2>6 DEF EndPass, PassFails
    <3> QED  BY <3>1, <3>2, <3>3
  <2>7. CASE EditSpec \/ Restored \/ Sync \/ Tick
    <3>1. mode' \in Modes /\ seenMode' \in Modes /\ current' \in BOOLEAN
      BY <2>7 DEF EditSpec, Restored, Sync, Tick
    <3>2. edits' \in 0..MaxEdits
      BY <2>7 DEF EditSpec, Restored, Sync, Tick
    <3>3. UNCHANGED <<verdicts, pc, writes, faults>>
      BY <2>7 DEF EditSpec, Restored, Sync, Tick
    <3> QED  BY <3>1, <3>2, <3>3
  <2>8. CASE UNCHANGED vars
    BY <2>8 DEF vars
  <2> QED
    BY <2>2, <2>3, <2>4, <2>5, <2>6, <2>7, <2>8 DEF Next, Operator
<1> QED
  BY <1>1, <1>2, VerifyStep, DueStep, PTL DEF Spec

=============================================================================
