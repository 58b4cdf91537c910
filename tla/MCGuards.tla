------------------------------- MODULE MCGuards ------------------------------
(***************************************************************************)
(* Guards on small instances.  The components are independent, so that a   *)
(* state of one is reached whatever the others do: of each behaviour only  *)
(* the steps of one component, chosen at the start, are explored, and the  *)
(* states are a sum instead of a product.                                  *)
(***************************************************************************)
EXTENDS Guards, TLC

CONSTANT MaxCounter   \* bound: the largest counter that can arrive

MCCounters == 0..MaxCounter

VARIABLE moving       \* the component whose steps are explored

MCInit == GuardsInit /\ moving \in {"replay", "bucket", "limiter", "promo", "keys"}

MCNext ==
    /\ \/ moving = "replay" /\ ReplayStep
       \/ moving = "bucket" /\ BucketStep
       \/ moving = "limiter" /\ LimiterStep
       \/ moving = "promo" /\ PromoStep
       \/ moving = "keys" /\ KeysStep
    /\ UNCHANGED moving

MCSpec == MCInit /\ [][MCNext]_<<guardVars, moving>>

Interchangeable == Permutations(Tasks) \cup Permutations(IPs) \cup Permutations(Users)
==============================================================================
