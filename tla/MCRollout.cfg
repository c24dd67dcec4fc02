\* Staged rollouts of new images, of new content behind a tracked tag and of
\* pinning the tag, let run to their end or cut short; paces edited on the way;
\* registry failures, restarts, a lagging cache.
SPECIFICATION FairSpec
CONSTANTS
    Instances <- MCEdge
    Bucket <- MCEdgeBucket
    Tags = {"t1", "t2"}
    Digests = {"d1", "d2"}
    None = None
    Tracks = {FALSE, TRUE}
    FirstTrack = FALSE
    Rollouts <- MCPaces
    DefaultInterval = 1
    FirstTag = "t1"
    FirstDigest = "d1"
    FirstRollout <- Uneven
    MaxAge = 2
    MaxEvents = 2
PROPERTIES SwitchedStays Paced FleetConverges CountConverges
