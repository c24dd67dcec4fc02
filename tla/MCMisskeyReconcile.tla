------------------------- MODULE MCMisskeyReconcile -------------------------
(* Instances of MisskeyReconcile for TLC. *)
EXTENDS MisskeyReconcile

MCImages  == {"v1", "v2"}
MCConfigs == {"c1", "c2"}
MCFirst   == [image |-> "v1", cfg |-> "c1", suspend |-> FALSE, preBackup |-> FALSE]
MCFirstBackup == [image |-> "v1", cfg |-> "c1", suspend |-> FALSE, preBackup |-> TRUE]
MCOne     == {"c1"}
=============================================================================
