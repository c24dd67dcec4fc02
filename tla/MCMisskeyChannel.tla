-------------------------- MODULE MCMisskeyChannel --------------------------
(* Instances of MisskeyChannel for TLC. *)
EXTENDS MisskeyChannel

\* Batches of 40 do not add up to 100.  At their edges: i2 switches at once, i3
\* with the third batch, which is cut off at 100.
MCEdge       == {"i2", "i3"}
MCEdgeBucket == [i \in MCEdge |-> IF i = "i2" THEN 39 ELSE 80]

Uneven  == [batchPercent |-> 40, interval |-> 1]
Slow    == [batchPercent |-> 80, interval |-> 2]
MCPaces == {Uneven, Slow, None}

=============================================================================
