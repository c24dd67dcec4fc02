------------------------ MODULE MCSensitiveDetector ------------------------
(***************************************************************************)
(* SensitiveDetector with every kind of detector and two disturbances, in  *)
(* any combination: edits of the spec (its kind, suspend, a rotation),     *)
(* failing calls, stale reads and closed gates.  A superseded Job, a       *)
(* cleanup under way when the next spec comes, and a pass that stops       *)
(* between any two of its calls all happen.                                *)
(***************************************************************************)
EXTENDS SensitiveDetector
=============================================================================
