-------------------------- MODULE MCDigestResolver --------------------------
(* Instances of DigestResolver for TLC. *)
EXTENDS DigestResolver, TLC

Symmetry == Permutations(Callers) \cup Permutations(Keys) \cup Permutations(Digests)
=============================================================================
