------------------------ MODULE MCGatewayConnection ------------------------
(* GatewayConnection on small instances. *)
EXTENDS GatewayConnection, TLC

Interchangeable == Permutations(Conns)

=============================================================================
