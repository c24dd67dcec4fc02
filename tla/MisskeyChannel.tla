--------------------------- MODULE MisskeyChannel ---------------------------
(***************************************************************************)
(* One MisskeyChannel and the instances that follow it: the channel        *)
(* controller that publishes the image in status, the staged rollout over  *)
(* hashed buckets, digest pinning, and the Misskey controller resolving    *)
(* each instance's image from what it sees of the channel.                 *)
(*                                                                         *)
(* Both controllers run in one process, one worker each, and read channel  *)
(* and instances through the same lagging informer cache.                  *)
(***************************************************************************)
EXTENDS Naturals, FiniteSets

CONSTANTS
    Instances,      \* the Misskey objects with imageFrom.channel
    Bucket,         \* channelBucket of each instance, 0..99
    Tags,           \* the values of spec.image
    Digests,        \* the contents pushed under a tag
    None,           \* the empty string, or no digest
    Tracks,         \* the values the user gives spec.trackImageDigest
    Rollouts,       \* the values the user gives spec.rollout
    DefaultInterval,\* one hour, in ticks
    FirstTag, FirstTrack, FirstDigest, FirstRollout,
    MaxAge,         \* bound: ticks since imageChangedAt, counted no further
    MaxEvents       \* bound: edits of the spec, pushes under a tag, failed registry
                    \* requests and operator restarts, together; one that cuts a
                    \* rollout short or edits the pace is the last

\* ChannelRollout; None stands for a spec without rollout.
Rollout == [batchPercent : 0..100, interval : Nat]

ASSUME BucketAssumption == Bucket \in [Instances -> 0..99] /\ IsFiniteSet(Instances)
ASSUME ValueAssumption == None \notin Digests /\ FirstTag \in Tags /\ FirstDigest \in Digests
ASSUME RolloutAssumption ==
    Rollouts \subseteq Rollout \cup {None} /\ FirstRollout \in Rollout \cup {None}
ASSUME IntervalAssumption == DefaultInterval \in Nat \ {0}
ASSUME FlagAssumption == Tracks \subseteq BOOLEAN /\ FirstTrack \in BOOLEAN
ASSUME BoundAssumption == MaxAge \in Nat /\ MaxEvents \in Nat

VARIABLES
    \* API server and registry.
    channel,        \* spec and generation of the MisskeyChannel
    status,         \* its status subresource
    image,          \* status.image of each instance
    registry,       \* the digest behind each tag
    \* Informer cache of the operator and its DigestResolver.
    seenChannel, seenStatus, seenImage,
    cache, expired, \* the digest cached for each tag; its TTL is over
    \* The channel controller: queue and locals of one Reconcile.
    queued, pc, ch, target, updated,
    \* The Misskey controller: the instance at work and the image resolved for it.
    work, resolved,
    \* History: no rollout was cut short and no pace was edited.
    steady,
    \* Bound.
    events

apiVars    == <<channel, status, image, registry>>
cacheVars  == <<seenChannel, seenStatus, seenImage>>
digestVars == <<cache, expired>>
chanVars   == <<queued, pc, ch, target, updated>>
instVars   == <<work, resolved>>
histVars   == <<steady, events>>
vars       == <<apiVars, cacheVars, digestVars, chanVars, instVars, histVars>>

-----------------------------------------------------------------------------
(* Types *)

\* An image reference: a bare tag or tag@digest.
ImageRef == [tag : Tags, digest : Digests \cup {None}]
Bare(t)  == [tag |-> t, digest |-> None]

\* MisskeyChannelSpec with metadata.generation.
Channel == [image : Tags, track : BOOLEAN, rollout : Rollout \cup {None}, gen : Nat]

\* MisskeyChannelStatus, without observedGeneration, which nothing reads; age
\* stands for now - imageChangedAt.
Status == [image : ImageRef \cup {None}, previousImage : ImageRef \cup {None},
           age : 0..MaxAge, updatedInstances : Nat]

FirstChannel == [image |-> FirstTag, track |-> FirstTrack, rollout |-> FirstRollout, gen |-> 0]
FirstStatus  == [image |-> None, previousImage |-> None, age |-> 0,
                 updatedInstances |-> 0]

TypeOK ==
    /\ channel \in Channel /\ seenChannel \in Channel /\ ch \in Channel
    /\ status \in Status /\ seenStatus \in Status
    /\ image \in [Instances -> ImageRef \cup {None}]
    /\ seenImage \in [Instances -> ImageRef \cup {None}]
    /\ registry \in [Tags -> Digests]
    /\ cache \in [Tags -> Digests \cup {None}] /\ expired \subseteq Tags
    /\ queued \in BOOLEAN /\ pc \in {"idle", "count", "write"}
    /\ target \in ImageRef \cup {None} /\ updated \in Nat
    /\ work \in Instances \cup {None} /\ resolved \in ImageRef \cup {None}
    /\ steady \in BOOLEAN /\ events \in Nat

Init ==
    /\ channel = FirstChannel /\ seenChannel = FirstChannel /\ ch = FirstChannel
    /\ status = FirstStatus /\ seenStatus = FirstStatus
    /\ image = [i \in Instances |-> None] /\ seenImage = [i \in Instances |-> None]
    /\ registry = [t \in Tags |-> FirstDigest]
    /\ cache = [t \in Tags |-> None] /\ expired = {}
    /\ queued = TRUE /\ pc = "idle"
    /\ target = None /\ updated = 0
    /\ work = None /\ resolved = None
    /\ steady = TRUE /\ events = 0

Event == steady /\ events < MaxEvents /\ events' = events + 1

-----------------------------------------------------------------------------
(* The rollout *)

\* Zero and unset fall back to the defaults.
BatchPercent(r) == IF r.batchPercent = 0 THEN 20 ELSE r.batchPercent
Interval(r)     == IF r.interval = 0 THEN DefaultInterval ELSE r.interval

\* The first batch switches at once, and one more per interval.
Threshold(r, age) == BatchPercent(r) * (age \div Interval(r) + 1)

\* Slip: only the batch due now is on the new image, not the earlier ones.
channelImageForOneBatch(c, st, bucket) ==
    IF st.image = None THEN Bare(c.image)
    ELSE IF \/ st.previousImage \in {None, st.image} \/ c.rollout = None
            \/ /\ bucket < Threshold(c.rollout, st.age)
               /\ bucket + BatchPercent(c.rollout) >= Threshold(c.rollout, st.age)
         THEN st.image ELSE st.previousImage

\* Slip: the bucket at the threshold switches too.
channelImageForAtMost(c, st, bucket) ==
    IF st.image = None THEN Bare(c.image)
    ELSE IF \/ st.previousImage \in {None, st.image} \/ c.rollout = None
            \/ bucket <= Threshold(c.rollout, st.age)
         THEN st.image ELSE st.previousImage

\* Slip: the elapsed time is left out.
channelImageForFirstBatch(c, st, bucket) ==
    IF st.image = None THEN Bare(c.image)
    ELSE IF \/ st.previousImage \in {None, st.image} \/ c.rollout = None
            \/ bucket < Threshold(c.rollout, 0)
         THEN st.image ELSE st.previousImage

\* channelImageFor: which image an instance with this bucket follows.
channelImageFor(c, st, bucket) ==
    IF st.image = None THEN Bare(c.image)
    ELSE IF \/ st.previousImage \in {None, st.image}
            \/ c.rollout = None
            \/ bucket < Threshold(c.rollout, st.age)
         THEN st.image
         ELSE st.previousImage

(***************************************************************************)
(* The channel controller.                                                 *)
(***************************************************************************)

\* Reconcile begins: the channel is read from the cache and the image to
\* distribute is settled.  A tag is pinned from the digest cache while its TTL
\* lasts, else from the registry; when that fails, from the expired entry, and
\* without one the status read just now is kept.
ChannelStart ==
    /\ pc = "idle" /\ queued
    /\ queued' = FALSE /\ pc' = "count"
    /\ ch' = seenChannel
    /\ LET t == seenChannel.image
           Pinned(d) == target' = [tag |-> t, digest |-> d]
       IN  \/ /\ ~seenChannel.track
              /\ target' = Bare(t)
              /\ UNCHANGED <<digestVars, events>>
           \/ /\ seenChannel.track /\ cache[t] # None /\ t \notin expired
              /\ Pinned(cache[t])
              /\ UNCHANGED <<digestVars, events>>
           \/ /\ seenChannel.track /\ (cache[t] = None \/ t \in expired)
              /\ Pinned(registry[t])
              /\ cache' = [cache EXCEPT ![t] = registry[t]] /\ expired' = expired \ {t}
              /\ UNCHANGED events
           \/ /\ seenChannel.track /\ cache[t] # None /\ t \in expired /\ Event
              /\ Pinned(cache[t])
              /\ UNCHANGED digestVars
           \/ /\ seenChannel.track /\ cache[t] = None /\ Event
              /\ target' = seenStatus.image
              /\ UNCHANGED digestVars
    /\ UNCHANGED <<apiVars, cacheVars, updated, instVars, steady>>

\* The instances that report the target are counted from the cached list.
CountInstances ==
    /\ pc = "count"
    /\ updated' = Cardinality({i \in Instances : target # None /\ seenImage[i] = target})
    /\ pc' = "write"
    /\ UNCHANGED <<apiVars, cacheVars, digestVars, queued, ch, target,
                   instVars, histVars>>

Idle == pc' = "idle" /\ ch' = FirstChannel /\ target' = None /\ updated' = 0

\* The status is read again and written; a new target starts a rollout.
NewStatus(st) ==
    LET counted == [st EXCEPT !.updatedInstances = updated]
    IN  IF target = None \/ target = st.image THEN counted
        ELSE IF st.image = None THEN [counted EXCEPT !.image = target]
        ELSE [counted EXCEPT !.image = target, !.previousImage = st.image, !.age = 0]

WriteChannelStatus ==
    /\ pc = "write"
    /\ seenChannel = channel /\ seenStatus = status
    /\ status' = NewStatus(seenStatus)
    /\ queued' = (queued \/ ch.track \/ (ch.rollout # None /\ updated < Cardinality(Instances)))
    /\ Idle
    /\ UNCHANGED <<channel, image, registry, cacheVars, digestVars, instVars, histVars>>

\* RetryOnConflict gives up against a stale cache: the queue tries again.
ChannelStatusConflict ==
    /\ pc = "write"
    /\ seenChannel # channel \/ seenStatus # status
    /\ queued' = TRUE /\ Idle
    /\ UNCHANGED <<apiVars, cacheVars, digestVars, instVars, histVars>>

(***************************************************************************)
(* The Misskey controller, as far as the image goes.                       *)
(***************************************************************************)

\* resolveImage of the instance the worker takes up.
resolveImage(i) ==
    /\ work = None
    /\ work' = i
    /\ resolved' = channelImageFor(seenChannel, seenStatus, Bucket[i])
    /\ UNCHANGED <<apiVars, cacheVars, digestVars, chanVars, histVars>>

\* updateStatus publishes it, unless the cached instance is stale.
ReportImage ==
    /\ work # None
    /\ \/ /\ seenImage[work] = image[work]
          /\ image' = [image EXCEPT ![work] = resolved]
       \/ /\ seenImage[work] # image[work]
          /\ UNCHANGED image
    /\ work' = None /\ resolved' = None
    /\ UNCHANGED <<channel, status, registry, cacheVars, digestVars, chanVars, histVars>>

(***************************************************************************)
(* Everyone else.                                                          *)
(***************************************************************************)

\* What the channel should distribute now.
Published == [tag |-> channel.image,
              digest |-> IF channel.track THEN registry[channel.image] ELSE None]

Settled == status.image = Published /\ \A i \in Instances : image[i] = Published

\* The specs that differ from the present one in one field.
Edited == {[channel EXCEPT !.image = t] : t \in Tags}
          \cup {[channel EXCEPT !.track = k] : k \in Tracks}
          \cup {[channel EXCEPT !.rollout = r] : r \in Rollouts}

EditSpec ==
    /\ Event
    /\ \E c \in Edited : c # channel /\ channel' = [c EXCEPT !.gen = @ + 1]
    /\ steady' = (steady /\ channel'.rollout = channel.rollout /\ Settled)
    /\ UNCHANGED <<status, image, registry, cacheVars, digestVars, chanVars, instVars>>

\* New content is pushed under the tag.
Push ==
    /\ channel.track /\ Event
    /\ \E d \in Digests \ {registry[channel.image]} :
          registry' = [registry EXCEPT ![channel.image] = d]
    /\ steady' = (steady /\ Settled)
    /\ UNCHANGED <<channel, status, image, cacheVars, digestVars, chanVars, instVars>>

Older(st) == IF st.previousImage = None \/ st.age = MaxAge THEN st
             ELSE [st EXCEPT !.age = @ + 1]

\* Time passes.
Tick ==
    /\ Older(status) # status \/ Older(seenStatus) # seenStatus
    /\ status' = Older(status) /\ seenStatus' = Older(seenStatus)
    /\ UNCHANGED <<channel, image, registry, seenChannel, seenImage, digestVars, chanVars,
                   instVars, histVars>>

\* The TTL of the entry that the next pass looks up is over.
TtlExpires ==
    /\ LET t == seenChannel.image IN
          seenChannel.track /\ cache[t] # None /\ t \notin expired /\ expired' = expired \cup {t}
    /\ UNCHANGED <<apiVars, cacheVars, cache, chanVars, instVars, histVars>>

\* The informers deliver and wake the channel controller.
SyncChannel ==
    /\ seenChannel # channel \/ seenStatus # status
    /\ seenChannel' = channel /\ seenStatus' = status
    /\ queued' = TRUE
    /\ UNCHANGED <<apiVars, seenImage, digestVars, pc, ch, target, updated,
                   instVars, histVars>>

\* Slip: the channel controller does not watch the instances.
SyncInstancesUnwatched ==
    /\ seenImage # image
    /\ seenImage' = image
    /\ UNCHANGED <<apiVars, seenChannel, seenStatus, digestVars, chanVars, instVars, histVars>>

\* channelOfMisskey maps a changed instance to its channel.
SyncInstances ==
    /\ seenImage # image
    /\ seenImage' = image
    /\ queued' = TRUE
    /\ UNCHANGED <<apiVars, seenChannel, seenStatus, digestVars, pc, ch, target,
                   updated, instVars, histVars>>

\* The operator restarts: cache listed anew, digest cache empty, all queued.
Restart ==
    /\ Event
    /\ seenChannel' = channel /\ seenStatus' = status /\ seenImage' = image
    /\ cache' = [t \in Tags |-> None] /\ expired' = {}
    /\ queued' = TRUE /\ Idle
    /\ work' = None /\ resolved' = None
    /\ UNCHANGED <<apiVars, steady>>

-----------------------------------------------------------------------------
(* Specification *)

Next ==
    \/ ChannelStart \/ CountInstances \/ WriteChannelStatus \/ ChannelStatusConflict
    \/ (\E i \in Instances : resolveImage(i)) \/ ReportImage
    \/ EditSpec \/ Push \/ Tick \/ TtlExpires
    \/ SyncChannel \/ SyncInstances \/ Restart

Spec == Init /\ [][Next]_vars

\* The work queues run what is queued, every instance is queued again and again
\* (drift requeue), the informers deliver, and time passes.
Fairness ==
    /\ WF_vars(ChannelStart) /\ WF_vars(CountInstances)
    /\ WF_vars(WriteChannelStatus \/ ChannelStatusConflict)
    /\ \A i \in Instances : SF_vars(resolveImage(i))
    /\ WF_vars(ReportImage)
    /\ WF_vars(Tick) /\ WF_vars(TtlExpires)
    /\ WF_vars(SyncChannel) /\ WF_vars(SyncInstances)

FairSpec == Spec /\ Fairness

(***************************************************************************)
(* Safety.                                                                 *)
(***************************************************************************)

\* The step in which the Misskey controller settles the image of i.
Resolves(i) == work # i /\ work' = i

\* While rollouts are let run to their end, an instance that reports the
\* channel's image is not taken off it as long as the channel distributes it:
\* batches only widen (channelImageFor).
SwitchedStays ==
    [][\A i \in Instances :
         (steady /\ Resolves(i) /\ image[i] = seenStatus.image /\ image[i] # None)
            => resolved' = image[i]]_vars

\* While rollouts are let run to their end, no instance is moved before its batch
\* is due, through lag, faults and restarts: with a previous image in the status,
\* a move needs a bucket below the threshold of the rollout's age.
Paced ==
    [][\A i \in Instances :
         (/\ steady /\ image[i] # None /\ image'[i] # image[i]
          /\ channel.rollout # None /\ status.previousImage # None)
            => Bucket[i] < Threshold(channel.rollout, status.age)]_vars

(***************************************************************************)
(* Liveness, once edits, pushes and faults have stopped.                   *)
(***************************************************************************)

\* Every instance ends up with what the channel distributes, whatever rollouts
\* were cut short and however the pace was edited.
FleetConverges == <>[](\A i \in Instances : image[i] = Published)

\* The published counter ends up right: no change of an instance is missed.
CountConverges ==
    <>[](status.updatedInstances = Cardinality({i \in Instances : image[i] = status.image}))

=============================================================================
