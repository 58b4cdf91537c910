------------------------------ MODULE MCRekey ------------------------------
(* Rekey on small instances. *)
EXTENDS Rekey
=============================================================================
