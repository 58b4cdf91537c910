-------------------------------- MODULE Guards -------------------------------
(***************************************************************************)
(* The parts that keep a running system within its limits, side by side:   *)
(* the replay window of a session, the token bucket of the relays, the     *)
(* gateway's limiter per address, its promo codes and its HMAC keys.  None *)
(* reads or writes the state of another: AuthManager and PromoManager have *)
(* keys of their own, and each limiter has its own mutex.                  *)
(***************************************************************************)
EXTENDS ReplayReceiver, TokenBucket, IpRateLimiter, Promo, HmacKeys

replayVars == vars
guardVars == <<replayVars, bucketVars, limiterVars, promoVars, keyVars>>

GuardsInit == Init /\ BucketInit /\ LimiterInit /\ PromoInit /\ KeysInit

ReplayStep == Next /\ UNCHANGED <<bucketVars, limiterVars, promoVars, keyVars>>
BucketStep == BucketNext /\ UNCHANGED <<replayVars, limiterVars, promoVars, keyVars>>
LimiterStep == LimiterNext /\ UNCHANGED <<replayVars, bucketVars, promoVars, keyVars>>
PromoStep == PromoNext /\ UNCHANGED <<replayVars, bucketVars, limiterVars, keyVars>>
KeysStep == KeysNext /\ UNCHANGED <<replayVars, bucketVars, limiterVars, promoVars>>

GuardsNext == ReplayStep \/ BucketStep \/ LimiterStep \/ PromoStep \/ KeysStep

GuardsSpec == GuardsInit /\ [][GuardsNext]_guardVars
==============================================================================
