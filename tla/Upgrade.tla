------------------------------ MODULE Upgrade ------------------------------
(***************************************************************************)
(* What the operator promises about upgrades, without saying how: the      *)
(* database is migrated for an image, each workload is rolled to images    *)
(* the database is migrated for, stopping a workload forgets nothing, and  *)
(* an image is reported Running only when it is migrated.                  *)
(* MisskeyReconcile implements it.                                         *)
(***************************************************************************)
CONSTANTS Images, Roles, None

VARIABLES
    migrated,   \* images the database is migrated for
    image, up,  \* the image a workload has, and whether it runs
    reported    \* the image reported Running

vars == <<migrated, image, up, reported>>

Init ==
    /\ migrated = {}
    /\ image = [r \in Roles |-> None] /\ up = [r \in Roles |-> FALSE]
    /\ reported = None

Migrate(i) ==
    /\ migrated' = migrated \cup {i}
    /\ UNCHANGED <<image, up, reported>>

Roll(r, i) ==
    /\ i \in migrated
    /\ image' = [image EXCEPT ![r] = i] /\ up' = [up EXCEPT ![r] = TRUE]
    /\ UNCHANGED <<migrated, reported>>

Stop(r) ==
    /\ up' = [up EXCEPT ![r] = FALSE]
    /\ UNCHANGED <<migrated, image, reported>>

Report ==
    /\ reported' \in migrated \cup {None}
    /\ UNCHANGED <<migrated, image, up>>

Next ==
    \/ \E i \in Images : Migrate(i)
    \/ \E r \in Roles : Stop(r) \/ \E i \in Images : Roll(r, i)
    \/ Report

Spec == Init /\ [][Next]_vars
=============================================================================
