----------------------------- MODULE MCFailover -----------------------------
(* Failover on small instances: three endpoints and a few tasks. *)
EXTENDS Failover, TLC

Interchangeable == Permutations(Conns)

=============================================================================
