----------------------------- MODULE Subscription ----------------------------
(***************************************************************************)
(* The app's subscription (SubscriptionService) and the promo codes that   *)
(* change it (PromoService).  init runs before the first screen, with      *)
(* several writes; after it a change and the call that saves it are one    *)
(* event, except that a promo code is applied in one and recorded as used  *)
(* in a later one.                                                         *)
(*                                                                         *)
(* A subscription is its owner and its tier.  Operations that change other *)
(* parts of it (services, devices, boost) and the locally made JWT, which  *)
(* nothing reads, are left out.                                            *)
(***************************************************************************)
EXTENDS Naturals

CONSTANTS
    Redeemers,    \* activations under way at once
    PromoCodes,   \* _validCodes
    Tiers         \* what a subscription can be upgraded to

VARIABLES
    user,         \* _userId, named after the launch that made it, 0 when not yet set
    sub,          \* _currentSubscription, or NoSub
    step,         \* init: "user", "trial", "save" or "ready"
    prefs,        \* user_id, trial_started_at, current_subscription, activated_promo_codes
    redeeming,    \* per task: the code it has applied and the list it has read, or Idle
    launches,     \* history: processes so far
    applied,      \* history: per code, how often it was applied
    excused,      \* history: codes of activations that overlapped or were killed
    trialLost     \* history: a process was killed between the two writes of the trial

subVars == <<user, sub, step, prefs, redeeming, launches, applied, excused, trialLost>>

NoSub == [user |-> 0, tier |-> "none"]
Idle == [code |-> "none", list |-> {}]

ASSUME IdleAssumption == "none" \notin PromoCodes

SubscriptionInit ==
    /\ user = 0 /\ sub = NoSub /\ step = "user"
    /\ prefs = [user_id |-> 0, trial_started |-> FALSE, sub |-> NoSub, activated |-> {}]
    /\ redeeming = [t \in Redeemers |-> Idle]
    /\ launches = 1
    /\ applied = [c \in PromoCodes |-> 0]
    /\ excused = {} /\ trialLost = FALSE

-----------------------------------------------------------------------------
(* init *)

LoadUser ==
    /\ step = "user"
    /\ user' = IF prefs.user_id = 0 THEN launches ELSE prefs.user_id
    /\ prefs' = [prefs EXCEPT !.user_id = user']
    /\ step' = "trial"
    /\ UNCHANGED <<sub, redeeming, launches, applied, excused, trialLost>>

\* The saved subscription is read.  If there is none and no trial was ever started,
\* _startTrialIfNeeded marks the trial as started.
LoadSubscription ==
    /\ step = "trial"
    /\ sub' = prefs.sub
    /\ IF prefs.sub = NoSub /\ ~prefs.trial_started
       THEN prefs' = [prefs EXCEPT !.trial_started = TRUE] /\ step' = "save"
       ELSE step' = "ready" /\ UNCHANGED prefs
    /\ UNCHANGED <<user, redeeming, launches, applied, excused, trialLost>>

\* _saveSubscription writes what memory holds.
Save(new) == sub' = new /\ prefs' = [prefs EXCEPT !.sub = new]

\* Mutant of StartTrial: the trial is kept in memory until something changes it.
StartTrial_Unsaved ==
    /\ step = "save"
    /\ sub' = [user |-> user, tier |-> "trial"]
    /\ step' = "ready"
    /\ UNCHANGED <<user, prefs, redeeming, launches, applied, excused, trialLost>>

StartTrial ==
    /\ step = "save"
    /\ Save([user |-> user, tier |-> "trial"])
    /\ step' = "ready"
    /\ UNCHANGED <<user, redeeming, launches, applied, excused, trialLost>>

SubscriptionLoads == LoadUser \/ LoadSubscription \/ StartTrial

-----------------------------------------------------------------------------
(* Operations *)

upgradeToTier(tier) ==
    /\ sub # NoSub
    /\ Save([sub EXCEPT !.tier = tier])
    /\ UNCHANGED <<user, step, redeeming, launches, applied, excused, trialLost>>

Redeemed == {redeeming[t].code : t \in {u \in Redeemers : redeeming[u] # Idle}}

\* Mutant of Activate: the code is recorded first.
Activate_RecordsFirst(t, c) ==
    /\ redeeming[t] = Idle
    /\ c \notin prefs.activated
    /\ redeeming' = [redeeming EXCEPT ![t] = [code |-> c, list |-> prefs.activated]]
    /\ prefs' = [prefs EXCEPT !.activated = @ \cup {c}]
    /\ UNCHANGED <<sub, applied, excused, user, step, launches, trialLost>>

\* activate of a code that is not in the list: the list is kept across the await of
\* applyPromoCode, whose verdict nobody looks at: without a subscription it does
\* nothing.
Activate(t, c) ==
    /\ redeeming[t] = Idle
    /\ c \notin prefs.activated
    /\ redeeming' = [redeeming EXCEPT ![t] = [code |-> c, list |-> prefs.activated]]
    /\ IF sub # NoSub
       THEN /\ Save([user |-> user, tier |-> "pro"])
            /\ applied' = [applied EXCEPT ![c] = @ + 1]
       ELSE UNCHANGED <<sub, prefs, applied>>
    /\ excused' = IF Redeemed = {} THEN excused ELSE excused \cup Redeemed \cup {c}
    /\ UNCHANGED <<user, step, launches, trialLost>>

\* Mutant of Record: the list starts anew.
Record_Alone(t) ==
    /\ redeeming[t] # Idle
    /\ prefs' = [prefs EXCEPT !.activated = {redeeming[t].code}]
    /\ redeeming' = [redeeming EXCEPT ![t] = Idle]
    /\ UNCHANGED <<user, sub, step, launches, applied, excused, trialLost>>

\* The rest of activate: the list as it was read, with the code, is saved.
Record(t) ==
    /\ redeeming[t] # Idle
    /\ prefs' = [prefs EXCEPT !.activated = redeeming[t].list \cup {redeeming[t].code}]
    /\ redeeming' = [redeeming EXCEPT ![t] = Idle]
    /\ UNCHANGED <<user, sub, step, launches, applied, excused, trialLost>>

SubscriptionCall ==
    \/ \E tier \in Tiers : upgradeToTier(tier)
    \/ \E t \in Redeemers, c \in PromoCodes : Activate(t, c)

SubscriptionKilled ==
    /\ user' = 0 /\ sub' = NoSub /\ step' = "user"
    /\ redeeming' = [t \in Redeemers |-> Idle]
    /\ launches' = launches + 1
    /\ excused' = excused \cup Redeemed
    /\ trialLost' = (trialLost \/ step = "save")
    /\ UNCHANGED <<prefs, applied>>

-----------------------------------------------------------------------------
(* An app that has started has a subscription of the user it goes by,      *)
(* wherever earlier processes were killed.  It is without one, which no    *)
(* operation can give back, only after a kill between marking the trial as *)
(* started and saving it (_startTrialIfNeeded, subscription_service.dart). *)
TrialGiven ==
    step = "ready" => IF sub = NoSub THEN trialLost ELSE sub.user = user

(* A promo code is applied once.  The exceptions are a kill between        *)
(* applying and recording it, and activations that overlap: each saves the *)
(* list it has read, so one forgets the other's code (promo_service.dart). *)
PromoOnce == \A c \in PromoCodes \ excused : applied[c] <= 1

(* A code that is recorded as used has been applied, wherever a process    *)
(* was killed.  The exception is an app without a subscription: activate   *)
(* ignores that applyPromoCode refuses, and uses the code up.              *)
PromoNotWasted == \A c \in prefs.activated : applied[c] > 0 \/ trialLost
==============================================================================
