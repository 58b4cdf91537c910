-------------------------- MODULE MCTransportService -------------------------
(* TransportService on small instances. *)
EXTENDS TransportService
==============================================================================
