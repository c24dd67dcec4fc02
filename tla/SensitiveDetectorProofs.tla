---------------------- MODULE SensitiveDetectorProofs ----------------------
(***************************************************************************)
(* An instance whose spec never had a sensitiveDetector block, for any     *)
(* modes and bounds.  UntouchedWithoutBlock is not inductive: the row is   *)
(* safe because no pass gets to the calls that make a Job, and that is so  *)
(* because the ConfigMap that marks a configured instance is never made,   *)
(* nor was it ever seen.                                                   *)
(***************************************************************************)
EXTENDS SensitiveDetector, TLAPS

NeverConfigured ==
    ~touched =>
        /\ meta.url = "user" /\ jobs = {} /\ pods = {}
        /\ ~state.exists /\ ~seen /\ ~exists
        /\ spec.mode = "off" /\ m.mode = "off"
        /\ pc \notin {"secret", "detector", "jobs", "state", "job"}

\* A step that leaves the row, the Jobs and the ConfigMap alone, and does not
\* enter the configuration, keeps NeverConfigured.
LEMMA NeverConfiguredFrame ==
    ASSUME NeverConfigured,
           UNCHANGED <<touched, spec, meta, jobs, pods, state, seen, exists, m>>,
           pc' = pc \/ pc' \notin {"secret", "detector", "jobs", "state", "job"}
    PROVE  NeverConfigured'
BY DEF NeverConfigured

\* Every step keeps NeverConfigured.
LEMMA NeverConfiguredStep == NeverConfigured /\ [Next]_vars => NeverConfigured'
<1> SUFFICES ASSUME NeverConfigured, [Next]_vars
             PROVE  NeverConfigured'
  OBVIOUS
<1> USE DEF world, pass, hist, Goto, Disturbed
<1>1. CASE StartPass
  BY <1>1 DEF StartPass, NeverConfigured, managed
<1>2. CASE reconcileSensitiveDetectorSecret \/ reconcileSensitiveDetector
           \/ cleanupSensitiveDetectorConfigJobs \/ ApplyConfigState
           \/ reconcileSensitiveDetectorConfig
  <2>1. pc \in {"secret", "detector", "jobs", "state", "job"} /\ UNCHANGED touched
    BY <1>2 DEF reconcileSensitiveDetectorSecret, reconcileSensitiveDetector,
       cleanupSensitiveDetectorConfigJobs, ApplyConfigState, reconcileSensitiveDetectorConfig
  <2> QED
    BY <2>1 DEF NeverConfigured
<1>3. CASE readSensitiveDetectorConfigState
  <2>1. UNCHANGED <<touched, spec, meta, jobs, pods, state, m>> /\ seen' = state.exists
    BY <1>3 DEF readSensitiveDetectorConfigState
  <2>2. exists' = state.exists \/ exists' = seen
    BY <1>3 DEF readSensitiveDetectorConfigState
  <2>3. pc' \in {"suspendApp", "gate"}
    BY <1>3 DEF readSensitiveDetectorConfigState
  <2> QED
    BY <2>1, <2>2, <2>3 DEF NeverConfigured
<1>4. CASE suspendWorkloads
  BY <1>4, NeverConfiguredFrame DEF suspendWorkloads, suspendWorkload, suspendDetector
<1>5. CASE PassGate
  BY <1>5 DEF PassGate, NeedsConfig, enabled, NeverConfigured
<1>6. CASE RollGate
  BY <1>6, NeverConfiguredFrame DEF RollGate
<1>7. CASE Roll("app", "worker") \/ Roll("worker", "finalize")
  BY <1>7, NeverConfiguredFrame DEF Roll
<1>8. CASE finalizeSensitiveDetectorCleanup
  BY <1>8, NeverConfiguredFrame DEF finalizeSensitiveDetectorCleanup, FinalizeNext
<1>9. CASE cleanupSensitiveDetector
  BY <1>9, NeverConfiguredFrame DEF cleanupSensitiveDetector
<1>10. CASE cleanupGeneratedSensitiveDetectorSecret
  BY <1>10, NeverConfiguredFrame DEF cleanupGeneratedSensitiveDetectorSecret
<1>11. CASE cleanupSensitiveDetectorConfigState
  BY <1>11 DEF cleanupSensitiveDetectorConfigState, Orphans, NeverConfigured
<1>12. CASE updateStatus
  BY <1>12 DEF updateStatus, NoPass, NeverConfigured
<1>13. CASE CallFails
  BY <1>13, NeverConfiguredFrame DEF CallFails
<1>14. CASE EditSpec
  <2>1. CASE touched'
    BY <2>1 DEF NeverConfigured
  <2>2. CASE ~touched'
    <3>1. ~touched /\ spec'.mode = "off" /\ UNCHANGED <<world, pass>>
      BY <1>14, <2>2 DEF EditSpec, enabled
    <3> QED
      BY <3>1 DEF NeverConfigured
  <2> QED
    BY <2>1, <2>2
<1>15. ASSUME NEW p \in pods, PodStarts(p) \/ PodCommits(p) \/ PodCollected(p)
       PROVE  NeverConfigured'
  <2>1. UNCHANGED touched
    BY <1>15 DEF PodStarts, PodCommits, PodCollected
  <2> QED
    BY <2>1, <1>15 DEF NeverConfigured
<1>16. ASSUME NEW r \in Roles, RollPods(r)
       PROVE  NeverConfigured'
  BY <1>16, NeverConfiguredFrame DEF RollPods
<1>17. CASE PodsCreated \/ DetectorRolls
  BY <1>17, NeverConfiguredFrame DEF PodsCreated, DetectorRolls
<1>18. CASE UNCHANGED vars
  BY <1>18, NeverConfiguredFrame DEF vars
<1> QED
  BY <1>1, <1>2, <1>3, <1>4, <1>5, <1>6, <1>7, <1>8, <1>9, <1>10, <1>11, <1>12, <1>13,
     <1>14, <1>15, <1>16, <1>17, <1>18 DEF Next, Pass, OrphanRuns, Settling

\* Without a block in the spec, now or before, the operator never makes a
\* configuration Job and the administrator's row stays: through suspensions,
\* failed calls, closed gates and stale reads.
THEOREM BlockOrUntouched == Spec => []UntouchedWithoutBlock
<1>1. Init => NeverConfigured
  <2> SUFFICES ASSUME Init PROVE NeverConfigured
    OBVIOUS
  <2>1. ~touched => spec.mode = "off"
    BY Zenon DEF Init
  <2>2. meta.url = "user" /\ ~state.exists /\ m.mode = "off"
    <3>1. meta = [url |-> "user", key |-> NoKey] /\ m = NoPass
          /\ state = [exists |-> FALSE, sql |-> "reset", hash |-> NoHash]
      BY DEF Init
    <3> QED
      BY <3>1 DEF NoPass
  <2>3. jobs = {} /\ pods = {} /\ ~seen /\ ~exists /\ pc = "idle"
    BY Zenon DEF Init
  <2> QED
    BY <2>1, <2>2, <2>3 DEF NeverConfigured
<1>2. NeverConfigured => UntouchedWithoutBlock
  BY DEF NeverConfigured, UntouchedWithoutBlock
<1> QED
  BY <1>1, <1>2, NeverConfiguredStep, PTL DEF Spec

=============================================================================
