---------------------------- MODULE BackupVerify ----------------------------
(***************************************************************************)
(* The scheduled restore test of the backups: a throwaway CNPG Cluster is  *)
(* created when a test is due, its outcome is written to the status and    *)
(* the Cluster is deleted.                                                 *)
(*                                                                         *)
(* The Cluster is read live, the Misskey object with its status from the   *)
(* informer cache.  Time is kept as ages, counted up to the interval and   *)
(* just beyond the timeout, which is all the code compares.                *)
(***************************************************************************)
EXTENDS Naturals

CONSTANTS
    Interval, Timeout,  \* verify.interval and verify.timeout, in ticks
    Modes,          \* what the user sets: backups verified, not verified, external database
    CacheLag,       \* FALSE: the object is always read as it is
    MaxEdits,       \* bound: edits of the object
    MaxWrites,      \* bound: passes after which updateStatus has something to write
    MaxFaults       \* bound: failed calls and crashes

ASSUME TimeAssumption == Interval \in Nat \ {0} /\ Timeout \in Nat \ {0}
ASSUME ModeAssumption == Modes \subseteq {"verify", "off", "external"} /\ "verify" \in Modes
ASSUME LagAssumption == CacheLag \in BOOLEAN
ASSUME BoundAssumption == MaxEdits \in Nat /\ MaxWrites \in Nat /\ MaxFaults \in Nat

VARIABLES
    mode, status,           \* the object: its spec and status.backupVerification
    seenMode, seenStatus,   \* in the cache
    current,                \* the cache shows the last write of the object
    cluster,                \* the throwaway Cluster
    verdicts,               \* history: results recorded for it so far
    prev,                   \* history: the status that the last record replaced
    pc, m, result,          \* locals: the status read, and the result to record
    edits, writes, faults

objVars   == <<mode, status, seenMode, seenStatus, current>>
testVars  == <<cluster, verdicts, prev>>
boundVars == <<edits, writes, faults>>
vars      == <<objVars, testVars, pc, m, result, boundVars>>

Results == {"none", "Succeeded", "Failed"}

\* BackupVerificationStatus; since is now - lastVerifiedTime.
Status   == [result : Results, since : 0..Interval]
NoStatus == [result |-> "none", since |-> Interval]

Cluster   == [st : {"absent", "restoring", "ready"}, age : 0..(Timeout + 1)]
NoCluster == [st |-> "absent", age |-> 0]

TypeOK ==
    /\ mode \in Modes /\ seenMode \in Modes
    /\ status \in Status /\ seenStatus \in Status /\ m \in Status /\ prev \in Status
    /\ current \in BOOLEAN
    /\ cluster \in Cluster /\ verdicts \subseteq {"Succeeded", "Failed"}
    /\ pc \in {"idle", "check", "create", "record", "discard", "delete", "end"}
    /\ result \in Results
    /\ edits \in 0..MaxEdits /\ writes \in 0..MaxWrites /\ faults \in 0..MaxFaults

Init ==
    /\ mode = "verify" /\ seenMode = "verify"
    /\ status = NoStatus /\ seenStatus = NoStatus /\ current = TRUE
    /\ cluster = NoCluster /\ verdicts = {} /\ prev = NoStatus
    /\ pc = "idle" /\ m = NoStatus /\ result = "none"
    /\ edits = 0 /\ writes = 0 /\ faults = 0

GetMode   == IF CacheLag THEN seenMode ELSE mode
GetStatus == IF CacheLag THEN seenStatus ELSE status
IsCurrent == CacheLag => current

Return == pc' = "idle" /\ m' = NoStatus /\ result' = "none"

(***************************************************************************)
(* reconcileBackupVerify, within one pass of Reconcile.                    *)
(***************************************************************************)

\* Reconcile reads the object.  With an external database the function is not
\* called; without verify the Cluster is deleted.
Start ==
    /\ pc = "idle"
    /\ m' = GetStatus
    /\ pc' = IF GetMode = "verify" THEN "check" ELSE IF GetMode = "off" THEN "discard" ELSE "end"
    /\ UNCHANGED <<objVars, testVars, result, boundVars>>

\* Slip: an instance verified once is never due again.
backupVerifyDueOnce(v) == v.result = "none"

backupVerifyDue(v) == v.result = "none" \/ v.since >= Interval

\* Slip: a Cluster that is not ready is given all the time it takes.
CheckClusterPatient ==
    /\ pc = "check"
    /\ \/ /\ cluster.st = "absent"
          /\ pc' = (IF backupVerifyDue(m) THEN "create" ELSE "end") /\ UNCHANGED result
       \/ /\ cluster.st = "ready"
          /\ pc' = "record" /\ result' = "Succeeded"
       \/ /\ cluster.st = "restoring"
          /\ pc' = "end" /\ UNCHANGED result
    /\ UNCHANGED <<objVars, testVars, m, boundVars>>

\* The Cluster is read: none, and a test may be due; ready; or out of time.
CheckCluster ==
    /\ pc = "check"
    /\ \/ /\ cluster.st = "absent"
          /\ pc' = (IF backupVerifyDue(m) THEN "create" ELSE "end") /\ UNCHANGED result
       \/ /\ cluster.st = "ready"
          /\ pc' = "record" /\ result' = "Succeeded"
       \/ /\ cluster.st = "restoring" /\ cluster.age > Timeout
          /\ pc' = "record" /\ result' = "Failed"
       \/ /\ cluster.st = "restoring" /\ cluster.age <= Timeout
          /\ pc' = "end" /\ UNCHANGED result
    /\ UNCHANGED <<objVars, testVars, m, boundVars>>

CreateCluster ==
    /\ pc = "create"
    /\ cluster' = [st |-> "restoring", age |-> 0]
    /\ verdicts' = {}
    /\ pc' = "end"
    /\ UNCHANGED <<objVars, prev, m, result, boundVars>>

Record ==
    /\ status' = [result |-> result, since |-> 0]
    /\ current' = FALSE
    /\ verdicts' = verdicts \cup {result} /\ prev' = status

\* Slip: a conflict is taken for done.
recordBackupVerificationUnchecked ==
    /\ pc = "record" /\ pc' = "delete"
    /\ IF IsCurrent THEN Record ELSE UNCHANGED <<status, current, verdicts, prev>>
    /\ UNCHANGED <<mode, seenMode, seenStatus, cluster, m, result, boundVars>>

\* Slip: the status is written over whatever there is.
recordBackupVerificationForced ==
    /\ pc = "record" /\ pc' = "delete"
    /\ Record
    /\ UNCHANGED <<mode, seenMode, seenStatus, cluster, m, result, boundVars>>

\* recordBackupVerification: the status is written on a fresh read of the
\* object.  A stale one is a conflict, and when the retries are used up the pass
\* fails with the Cluster still there.
recordBackupVerification ==
    /\ pc = "record"
    /\ \/ IsCurrent /\ Record /\ pc' = "delete"
       \/ ~IsCurrent /\ pc' = "end" /\ UNCHANGED <<status, current, verdicts, prev>>
    /\ UNCHANGED <<mode, seenMode, seenStatus, cluster, m, result, boundVars>>

\* deleteIfExists, after the record or because verify is off.
DeleteCluster ==
    /\ pc \in {"delete", "discard"}
    /\ cluster' = NoCluster
    /\ pc' = "end"
    /\ UNCHANGED <<objVars, verdicts, prev, m, result, boundVars>>

\* The pass ends with updateStatus, which keeps backupVerification as it reads
\* it and may have other fields to write.
EndPass ==
    /\ pc = "end"
    /\ Return
    /\ \/ UNCHANGED <<current, writes>>
       \/ /\ IsCurrent /\ writes < MaxWrites
          /\ writes' = writes + 1 /\ current' = FALSE
    /\ UNCHANGED <<mode, status, seenMode, seenStatus, testVars, edits, faults>>

\* A call fails, or the operator dies.
PassFails ==
    /\ pc # "idle" /\ faults < MaxFaults /\ faults' = faults + 1
    /\ Return
    /\ UNCHANGED <<objVars, testVars, edits, writes>>

(***************************************************************************)
(* The user, CNPG, the informer and time.                                  *)
(***************************************************************************)

EditSpec ==
    /\ edits < MaxEdits /\ edits' = edits + 1
    /\ \E x \in Modes : x # mode /\ mode' = x
    /\ current' = FALSE
    /\ UNCHANGED <<status, seenMode, seenStatus, testVars, pc, m, result, writes, faults>>

\* CNPG has restored the backup: readyInstances becomes 1.  It may never be.
Restored ==
    /\ cluster.st = "restoring"
    /\ cluster' = [cluster EXCEPT !.st = "ready"]
    /\ UNCHANGED <<objVars, verdicts, prev, pc, m, result, boundVars>>

Sync ==
    /\ ~current
    /\ seenMode' = mode /\ seenStatus' = status /\ current' = TRUE
    /\ UNCHANGED <<mode, status, testVars, pc, m, result, boundVars>>

Older(v) == [v EXCEPT !.since = IF @ < Interval THEN @ + 1 ELSE @]

Tick ==
    /\ status' = Older(status) /\ seenStatus' = Older(seenStatus) /\ m' = Older(m)
    /\ prev' = Older(prev)
    /\ cluster' = IF cluster.st = "absent" \/ cluster.age > Timeout THEN cluster
                  ELSE [cluster EXCEPT !.age = @ + 1]
    /\ UNCHANGED <<mode, seenMode, current, verdicts, pc, result, boundVars>>

-----------------------------------------------------------------------------
(* Specification *)

Operator ==
    \/ Start \/ CheckCluster \/ CreateCluster \/ recordBackupVerification
    \/ DeleteCluster \/ EndPass

Next == Operator \/ PassFails \/ EditSpec \/ Restored \/ Sync \/ Tick

Spec == Init /\ [][Next]_vars

\* The drift requeue runs Reconcile again and again, the informer delivers and
\* time passes; CNPG owes nothing.
Fairness == WF_vars(Operator) /\ WF_vars(Sync) /\ WF_vars(Tick)

FairSpec == Spec /\ Fairness

-----------------------------------------------------------------------------
(* Properties *)

\* However far the cache lags, and through failed tests, conflicts and crashes, a
\* restore test starts only when the interval has passed since the last record or
\* since the one before it.  A pass may act on a status that lacks the last
\* record (backupVerifyDue), so a test too many can come; but its own record
\* needs a fresh read of the object, so there is never a second one in a row.
AtMostOneExtra ==
    [][(cluster.st = "absent" /\ cluster'.st # "absent")
          => status.since >= Interval \/ prev.since >= Interval]_vars

\* The result r is true of the Cluster: it is ready, or it has used up its time.
Proven(r) == \/ r = "Succeeded" /\ cluster.st = "ready"
             \/ r = "Failed" /\ cluster.age > Timeout

\* The Cluster of a test goes only when the status holds a result of this very
\* test that is true of it, whatever conflicts and crashes come between: the
\* result is kept nowhere else (reconcileBackupVerify records, then deletes).
RecordedBeforeDeleted ==
    [][(pc = "delete" /\ cluster.st # "absent" /\ cluster'.st = "absent")
          => status.result \in verdicts /\ Proven(status.result)]_vars

\* Every throwaway Cluster is deleted in the end, ready or not, while the
\* database is managed: an external one ends the calls of reconcileBackupVerify.
TestEnds == cluster.st # "absent" ~> (cluster.st = "absent" \/ mode = "external")

\* While verify stays on, tests keep being recorded.
KeepsVerifying == []<>(mode # "verify" \/ status.since < Interval)

=============================================================================
