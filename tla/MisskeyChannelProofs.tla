------------------------ MODULE MisskeyChannelProofs ------------------------
(***************************************************************************)
(* The rollout of channelImageFor for every batch size, interval and       *)
(* bucket, where the runs have a few, and the types of the channel model.  *)
(***************************************************************************)
EXTENDS MisskeyChannel, FiniteSetTheorems, TLAPS

\* The defaults make both numbers positive.
LEMMA RolloutFacts ==
    ASSUME NEW r \in Rollout
    PROVE  /\ BatchPercent(r) \in 1..100
           /\ Interval(r) \in Nat \ {0}
  BY IntervalAssumption DEF Rollout, BatchPercent, Interval

\* Integer division by a positive number is monotone, and exact on multiples.
LEMMA DivFacts ==
    ASSUME NEW n \in Nat \ {0}, NEW a \in Nat, NEW b \in Nat
    PROVE  /\ a \div n \in Nat
           /\ a <= b => a \div n <= b \div n
  OBVIOUS

\* The threshold grows with the age of the rollout.
LEMMA ThresholdGrows ==
    ASSUME NEW r \in Rollout, NEW a \in Nat, NEW b \in Nat, a <= b
    PROVE  Threshold(r, a) \in Nat /\ Threshold(r, b) \in Nat /\ Threshold(r, a) <= Threshold(r, b)
<1> DEFINE p == BatchPercent(r)
           x == a \div Interval(r) + 1
           y == b \div Interval(r) + 1
<1>1. p \in Nat /\ x \in Nat /\ y \in Nat /\ x <= y
  <2>1. p \in Nat /\ Interval(r) \in Nat \ {0}
    BY RolloutFacts
  <2>2. a \div Interval(r) \in Nat /\ b \div Interval(r) \in Nat
        /\ a \div Interval(r) <= b \div Interval(r)
    BY <2>1, DivFacts
  <2> QED
    BY <2>1, <2>2
<1>2. Threshold(r, a) = p * x /\ Threshold(r, b) = p * y
  BY DEF Threshold
<1> HIDE DEF p, x, y
<1>3. p * x \in Nat /\ p * y \in Nat /\ p * x <= p * y
  BY <1>1
<1> QED
  BY <1>2, <1>3

\* A status differs from an earlier one in its age and its counters only: the
\* channel has distributed nothing new in between.
SameRollout(st, later) ==
    later.image = st.image /\ later.previousImage = st.previousImage /\ st.age <= later.age

\* For every batch size and interval: an instance that channelImageFor has sent
\* to the channel's image is not sent back as the rollout ages.
THEOREM BatchesOnlyWiden ==
    ASSUME NEW c \in Channel, NEW st \in Status, NEW later \in Status, SameRollout(st, later),
           NEW bucket \in 0..99, st.image # None,
           channelImageFor(c, st, bucket) = st.image
    PROVE  channelImageFor(c, later, bucket) = later.image
<1>1. CASE later.previousImage \in {None, later.image} \/ c.rollout = None
  BY <1>1 DEF channelImageFor, SameRollout
<1>2. CASE ~(later.previousImage \in {None, later.image} \/ c.rollout = None)
  <2>1. c.rollout \in Rollout /\ st.age \in Nat /\ later.age \in Nat
    BY <1>2, BoundAssumption DEF Channel, Status
  <2>2. bucket < Threshold(c.rollout, st.age)
    BY <1>2 DEF channelImageFor, SameRollout
  <2>3. bucket < Threshold(c.rollout, later.age)
    BY <2>1, <2>2, ThresholdGrows DEF SameRollout
  <2> QED
    BY <2>3 DEF channelImageFor, SameRollout
<1> QED
  BY <1>1, <1>2

\* For every batch size and interval, also where the batches do not add up to
\* 100: after 99 intervals channelImageFor sends every bucket to the new image.
THEOREM EveryBatchComes ==
    ASSUME NEW c \in Channel, NEW st \in Status, NEW bucket \in 0..99, st.image # None,
           c.rollout # None => st.age >= 99 * Interval(c.rollout)
    PROVE  channelImageFor(c, st, bucket) = st.image
<1>1. CASE c.rollout = None
  BY <1>1 DEF channelImageFor
<1>2. CASE c.rollout # None
  <2>1. c.rollout \in Rollout /\ st.age \in Nat
    BY <1>2, BoundAssumption DEF Channel, Status
  <2> DEFINE p == BatchPercent(c.rollout)
             n == Interval(c.rollout)
             q == st.age \div n
  <2>2. p \in 1..100 /\ n \in Nat \ {0} /\ st.age >= 99 * n
    BY <1>2, <2>1, RolloutFacts
  <2>3. q \in Nat /\ q >= 99
    <3> HIDE DEF n
    <3> QED BY <2>1, <2>2
  <2>4. Threshold(c.rollout, st.age) = p * (q + 1)
    BY DEF Threshold
  <2> HIDE DEF p, n, q
  <2>5. p * (q + 1) >= q + 1
    BY <2>2, <2>3
  <2>6. p * (q + 1) \in Nat
    BY <2>2, <2>3
  <2>7. bucket < Threshold(c.rollout, st.age)
    BY <2>3, <2>4, <2>5, <2>6
  <2> QED
    BY <2>7 DEF channelImageFor
<1> QED
  BY <1>1, <1>2

-----------------------------------------------------------------------------
(* Types. *)

\* The status that a pass writes.
LEMMA NewStatusType ==
    ASSUME TypeOK, NEW st \in Status
    PROVE  NewStatus(st) \in Status
<1> DEFINE counted == [st EXCEPT !.updatedInstances = updated]
<1>1. target \in ImageRef \cup {None} /\ updated \in Nat
  BY DEF TypeOK
<1>2. counted \in Status
  BY <1>1 DEF Status
<1>3. st.image \in ImageRef \cup {None} /\ 0 \in 0..MaxAge
  BY BoundAssumption DEF Status
<1> HIDE DEF counted
<1>4. /\ [counted EXCEPT !.image = target] \in Status
      /\ [counted EXCEPT !.image = target, !.previousImage = st.image, !.age = 0] \in Status
  BY <1>1, <1>2, <1>3 DEF Status
<1> QED
  BY <1>2, <1>4 DEF NewStatus, counted

\* Counting the instances gives a number: there are finitely many.
LEMMA CountType ==
    ASSUME NEW S \in SUBSET Instances
    PROVE  Cardinality(S) \in Nat
  BY BucketAssumption, FS_Subset, FS_CardinalityType

\* The constants the passes start from are well typed.
LEMMA FirstTypes ==
    FirstChannel \in Channel /\ FirstStatus \in Status
  BY ValueAssumption, RolloutAssumption, FlagAssumption, BoundAssumption
  DEF FirstChannel, FirstStatus, Channel, Status

\* Every state of the channel model is well typed: what a pass publishes is an
\* image reference and a count, whatever was edited, pushed or restarted.
THEOREM ChannelTypes == Spec => []TypeOK
<1>1. Init => TypeOK
  <2> SUFFICES ASSUME Init PROVE TypeOK
    OBVIOUS
  <2>1. channel \in Channel /\ seenChannel \in Channel /\ ch \in Channel
        /\ status \in Status /\ seenStatus \in Status
    BY FirstTypes DEF Init
  <2>2. registry \in [Tags -> Digests] /\ cache \in [Tags -> Digests \cup {None}]
    BY ValueAssumption DEF Init
  <2> QED
    BY <2>1, <2>2 DEF Init, TypeOK
<1>2. TypeOK /\ [Next]_vars => TypeOK'
  <2> SUFFICES ASSUME TypeOK, [Next]_vars
               PROVE  TypeOK'
    OBVIOUS
  <2> USE DEF TypeOK, apiVars, cacheVars, digestVars, chanVars, instVars, histVars
  <2>1. CASE ChannelStart
    <3>1. seenChannel.image \in Tags /\ seenStatus.image \in ImageRef \cup {None}
      BY DEF Channel, Status
    <3>2. \A d \in Digests : [tag |-> seenChannel.image, digest |-> d] \in ImageRef
      BY <3>1 DEF ImageRef
    <3>3. Bare(seenChannel.image) \in ImageRef
      BY <3>1 DEF Bare, ImageRef
    <3>4. target' \in ImageRef \cup {None}
      BY <2>1, <3>1, <3>2, <3>3 DEF ChannelStart
    <3>5. cache' \in [Tags -> Digests \cup {None}] /\ expired' \subseteq Tags /\ events' \in Nat
      BY <2>1, <3>1 DEF ChannelStart, Event
    <3> QED
      BY <2>1, <3>4, <3>5 DEF ChannelStart
  <2>2. CASE CountInstances
    <3>1. updated' \in Nat
      BY <2>2, CountType DEF CountInstances
    <3> QED
      BY <2>2, <3>1 DEF CountInstances
  <2>3. CASE WriteChannelStatus
    <3>1. status' \in Status
      BY <2>3, NewStatusType DEF WriteChannelStatus
    <3>2. queued' \in BOOLEAN
      BY <2>3 DEF WriteChannelStatus
    <3> QED
      BY <2>3, <3>1, <3>2, FirstTypes DEF WriteChannelStatus, Idle
  <2>4. CASE ChannelStatusConflict
    BY <2>4, FirstTypes DEF ChannelStatusConflict, Idle
  <2>5. ASSUME NEW i \in Instances, resolveImage(i)
        PROVE  TypeOK'
    <3>1. Bare(seenChannel.image) \in ImageRef
      BY DEF Bare, ImageRef, Channel
    <3>2. /\ seenStatus.image \in ImageRef \cup {None}
          /\ seenStatus.previousImage \in ImageRef \cup {None}
      BY DEF Status
    <3>3. resolved' \in ImageRef \cup {None}
      BY <2>5, <3>1, <3>2 DEF resolveImage, channelImageFor
    <3> QED
      BY <2>5, <3>3 DEF resolveImage
  <2>6. CASE ReportImage
    BY <2>6 DEF ReportImage
  <2>7. CASE EditSpec
    <3>1. channel' \in Channel
      <4>1. Edited \subseteq Channel
        BY FlagAssumption, RolloutAssumption DEF Edited, Channel
      <4>2. \A c \in Channel : [c EXCEPT !.gen = @ + 1] \in Channel
        BY DEF Channel
      <4> QED
        BY <2>7, <4>1, <4>2 DEF EditSpec
    <3>2. steady' \in BOOLEAN
      BY <2>7, Zenon DEF EditSpec
    <3>3. events' \in Nat
      <4>1. events' = events + 1
        BY <2>7 DEF EditSpec, Event
      <4> QED
        BY <4>1
    <3> QED
      BY <2>7, <3>1, <3>2, <3>3 DEF EditSpec
  <2>8. CASE Push
    <3>1. steady' \in BOOLEAN
      BY <2>8, Zenon DEF Push
    <3>2. events' \in Nat
      BY <2>8 DEF Push, Event
    <3>3. registry' \in [Tags -> Digests]
      BY <2>8 DEF Push
    <3>4. UNCHANGED <<channel, status, image, cacheVars, digestVars, chanVars, instVars>>
      BY <2>8 DEF Push
    <3> QED
      BY <3>1, <3>2, <3>3, <3>4
  <2>9. CASE Tick
    <3>1. \A st \in Status : Older(st) \in Status
      BY BoundAssumption DEF Older, Status
    <3> QED
      BY <2>9, <3>1 DEF Tick
  <2>10. CASE TtlExpires
    BY <2>10 DEF TtlExpires, Channel
  <2>11. CASE SyncChannel \/ SyncInstances
    BY <2>11 DEF SyncChannel, SyncInstances
  <2>12. CASE Restart
    <3>1. ch' \in Channel /\ target' = None /\ updated' = 0 /\ pc' = "idle" /\ events' \in Nat
      BY <2>12, FirstTypes DEF Restart, Event, Idle
    <3>2. cache' \in [Tags -> Digests \cup {None}] /\ expired' = {} /\ queued' = TRUE
      BY <2>12 DEF Restart
    <3>3. seenChannel' = channel /\ seenStatus' = status /\ seenImage' = image
          /\ work' = None /\ resolved' = None /\ UNCHANGED <<channel, status, image, registry, steady>>
      BY <2>12 DEF Restart
    <3> QED
      BY <3>1, <3>2, <3>3
  <2>13. CASE UNCHANGED vars
    BY <2>13 DEF vars
  <2> QED
    BY <2>1, <2>2, <2>3, <2>4, <2>5, <2>6, <2>7, <2>8, <2>9, <2>10, <2>11, <2>12, <2>13 DEF Next
<1> QED
  BY <1>1, <1>2, PTL DEF Spec

=============================================================================
