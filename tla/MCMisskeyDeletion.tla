------------------------- MODULE MCMisskeyDeletion --------------------------
(* Instances of MisskeyDeletion for TLC. *)
EXTENDS MisskeyDeletion

\* reconcileAll: the key Secret, the CNPG Cluster, the MeiliSearch StatefulSet.
MCApplyRank == [r \in Resources |-> CASE r = "meiliSecret" -> 1
                                      [] r = "cluster" -> 2
                                      [] r = "meili" -> 3]

\* retainData: the Cluster, the StatefulSet, the Secret.
MCRetainRank == [r \in Resources |-> CASE r = "cluster" -> 1
                                       [] r = "meili" -> 2
                                       [] r = "meiliSecret" -> 3]

=============================================================================
