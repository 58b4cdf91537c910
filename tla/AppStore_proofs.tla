---------------------------- MODULE AppStore_proofs ---------------------------
(***************************************************************************)
(* What the app's services keep across kills, for every number of tasks,   *)
(* services, endpoints, promo codes, calls and kills.  The three services  *)
(* share no state, so each has an inductive invariant of its own, and a    *)
(* step of the app is a step of each or leaves it alone.                   *)
(***************************************************************************)
EXTENDS AppStore, TLAPS

-----------------------------------------------------------------------------
(* The catalog's inductive invariant *)

Selection ==
    [plan : {"none", "base", "extended"}, base : Seq(Ids),
     extra : SUBSET Ids, custom : SUBSET Custom]

CatalogTyped ==
    /\ held \in Selection /\ saved \in Selection
    /\ shown \subseteq Ids
    /\ persisting \in [Tasks -> {0, 2, 3, 4}]
    /\ overlapped \in BOOLEAN

\* No id has two slots.
Distinct(s) == \A i, j \in DOMAIN s : s[i] = s[j] => i = j

Slots ==
    /\ Len(held.base) <= kBaseSlots /\ Distinct(held.base)
    /\ Len(saved.base) <= kBaseSlots /\ Distinct(saved.base)

Idling == \A t \in Tasks : persisting[t] = 0
Due(K) == \E t \in Tasks : persisting[t] \in K

\* What is not saved yet, some task is still to write.
WriteDue ==
    /\ saved.plan = held.plan
    /\ saved.base = held.base \/ Due({2})
    /\ saved.extra = held.extra \/ Due({2, 3})
    /\ saved.custom = held.custom \/ Due({2, 3, 4})

Announced == Idling => shown = Known(held)

Chosen(c) == Entries(c.base) \cup c.extra

\* One operation at a time: memory's selection is in the catalog on disk too, as
\* the catalog is written last.
Alone ==
    ~overlapped =>
        /\ \A t, u \in Tasks : persisting[t] # 0 /\ persisting[u] # 0 => t = u
        /\ Chosen(held) \subseteq Known(held)
        /\ Chosen(held) \subseteq Known(saved)
        /\ Chosen(saved) \subseteq Known(saved)

CatalogInv == CatalogTyped /\ Slots /\ WriteDue /\ Announced /\ Alone

-----------------------------------------------------------------------------
(* The settings' inductive invariant *)

Listed == [host : Hosts, port : Nat, flaw : Flaws \cup LegacyFlaws]

SettingsTyped ==
    /\ endpoints \in Seq(Listed)
    /\ before \in {<<>>} \cup {<<e>> : e \in [host : Hosts, port : Ports, flaw : LegacyFlaws]}
    /\ stored # NotStored => stored \in Seq(Listed)
    /\ loading \in {"load", "done"} \cup AllLegacy
    /\ edited \in BOOLEAN

\* There is an endpoint to migrate.
HadEndpoint == before # <<>> /\ before[1].flaw # "no host"

\* The legacy keys are whole until the list is stored, and what is stored is what
\* the migration makes of them until the user edits it.
Migration ==
    /\ stored = NotStored => legacy = IF before = <<>> THEN {} ELSE AllLegacy
    /\ ~edited => stored = NotStored \/ (HadEndpoint /\ stored = Migrated)
    /\ loading \in AllLegacy => HadEndpoint /\ endpoints = Migrated /\ stored # NotStored

NoneTwice == NoDuplicates(endpoints) /\ (stored # NotStored => NoDuplicates(stored))

SettingsInv == SettingsTyped /\ Migration /\ MigrationKept /\ NoneTwice

-----------------------------------------------------------------------------
(* The subscription's inductive invariant *)

SubscriptionTyped ==
    /\ user \in Nat /\ launches \in Nat \ {0}
    /\ step \in {"user", "trial", "save", "ready"}
    /\ prefs \in [user_id : Nat, trial_started : BOOLEAN,
                  sub : [user : Nat, tier : Tiers \cup {"none", "trial", "pro"}],
                  activated : SUBSET PromoCodes]
    /\ redeeming \in [Redeemers -> [code : PromoCodes \cup {"none"}, list : SUBSET PromoCodes]]
    /\ \A t \in Redeemers : redeeming[t] # Idle => redeeming[t].code \in PromoCodes
    /\ applied \in [PromoCodes -> Nat]
    /\ trialLost \in BOOLEAN

\* A saved subscription is the saved user's.
Owned ==
    /\ prefs.sub # NoSub => prefs.sub.user = prefs.user_id /\ prefs.user_id # 0
    /\ step # "user" => user = prefs.user_id /\ user # 0

\* A trial that is marked as started is saved, about to be saved, or lost.
Trial ==
    /\ step = "save" => prefs.trial_started /\ prefs.sub = NoSub
    /\ step \in {"user", "trial"} /\ prefs.trial_started /\ prefs.sub = NoSub => trialLost
    /\ step = "ready" => sub = prefs.sub /\ (sub = NoSub => trialLost)

Pending == {t \in Redeemers : redeeming[t] # Idle}

\* A code that was applied without mishap is being recorded by the one activation
\* under way, or is recorded where no activation under way will forget it.
OnceInv ==
    \A c \in PromoCodes \ excused : applied[c] = 0 \/
        /\ applied[c] = 1
        /\ \/ \E t \in Pending : redeeming[t].code = c /\ Pending = {t}
           \/ c \in prefs.activated /\ \A t \in Pending : c \in redeeming[t].list

Spent(c) == applied[c] > 0 \/ trialLost

NotWastedInv ==
    /\ \A c \in prefs.activated : Spent(c)
    /\ \A t \in Pending : Spent(redeeming[t].code) /\ \A c \in redeeming[t].list : Spent(c)

SubscriptionInv == SubscriptionTyped /\ Owned /\ Trial /\ OnceInv /\ NotWastedInv

AppInv == CatalogInv /\ SettingsInv /\ SubscriptionInv

-----------------------------------------------------------------------------
(* A step of the app, service by service *)

CatalogStep ==
    \/ \E t \in Tasks : CatalogCall(t) \/ Persist(t)
    \/ CatalogRestarts
    \/ UNCHANGED catalogVars

SettingsStep ==
    \/ LoadSettings
    \/ RemoveLegacy
    \/ loading = "done" /\ SettingsCall
    \/ SettingsKilled
    \/ UNCHANGED settingsVars

SubscriptionStep ==
    \/ SubscriptionLoads
    \/ step = "ready" /\ SubscriptionCall
    \/ \E t \in Redeemers : Record(t)
    \/ SubscriptionKilled
    \/ UNCHANGED subVars

(* Whatever the app does (main.dart), each service takes a step of its own *)
(* or none.                                                                *)
LEMMA Separate ==
    [AppNext]_appVars => CatalogStep /\ SettingsStep /\ SubscriptionStep
<1> SUFFICES ASSUME [AppNext]_appVars
             PROVE  CatalogStep /\ SettingsStep /\ SubscriptionStep
    OBVIOUS
<1> USE DEF CatalogStep, SettingsStep, SubscriptionStep
<1>1. CASE Load
    BY <1>1 DEF Load
<1>2. CASE Call
    BY <1>2 DEF Call, Ready
<1>3. CASE Continue
    BY <1>3 DEF Continue
<1>4. CASE Kill
    BY <1>4 DEF Kill
<1>5. CASE UNCHANGED appVars
    BY <1>5 DEF appVars
<1> QED
    BY <1>1, <1>2, <1>3, <1>4, <1>5 DEF AppNext

-----------------------------------------------------------------------------
(* The subscription *)

LEMMA SubscriptionStarts == SubscriptionInit => SubscriptionInv
<1> SUFFICES ASSUME SubscriptionInit PROVE SubscriptionInv
    OBVIOUS
<1> USE DEF SubscriptionInit
<1>1. SubscriptionTyped
  <2>1. redeeming \in [Redeemers -> [code : PromoCodes \cup {"none"}, list : SUBSET PromoCodes]]
    BY DEF Idle
  <2>2. NoSub \in [user : Nat, tier : Tiers \cup {"none", "trial", "pro"}]
    BY DEF NoSub
  <2>3. prefs \in [user_id : Nat, trial_started : BOOLEAN,
                   sub : [user : Nat, tier : Tiers \cup {"none", "trial", "pro"}],
                   activated : SUBSET PromoCodes]
    BY <2>2
  <2>4. \A t \in Redeemers : redeeming[t] = Idle
    OBVIOUS
  <2>5. applied \in [PromoCodes -> Nat] /\ trialLost \in BOOLEAN
    OBVIOUS
  <2>6. user \in Nat /\ launches \in Nat \ {0}
    OBVIOUS
  <2> QED
    BY <2>1, <2>3, <2>4, <2>5, <2>6 DEF SubscriptionTyped
<1>2. Owned /\ Trial
    BY DEF Owned, Trial
<1>3. Pending = {}
    BY DEF Pending
<1>4. OnceInv /\ NotWastedInv
    BY <1>3 DEF OnceInv, NotWastedInv
<1> QED
    BY <1>1, <1>2, <1>4 DEF SubscriptionInv

(* _userId is made once and saved at once.                                 *)
LEMMA LoadUserKeeps == SubscriptionInv /\ LoadUser => SubscriptionInv'
<1> SUFFICES ASSUME SubscriptionInv, LoadUser PROVE SubscriptionInv'
    OBVIOUS
<1> USE DEF SubscriptionInv, LoadUser
<1>1. SubscriptionTyped'
    BY DEF SubscriptionTyped
<1>2. Owned'
    BY DEF Owned, SubscriptionTyped
<1>3. Trial'
    BY DEF Trial, SubscriptionTyped
<1>4. Pending' = Pending /\ prefs'.activated = prefs.activated
    BY DEF Pending, SubscriptionTyped
<1>5. OnceInv'
    BY <1>4 DEF OnceInv
<1>6. NotWastedInv'
    BY <1>4 DEF NotWastedInv, Spent
<1> QED
    BY <1>1, <1>2, <1>3, <1>5, <1>6

LEMMA LoadSubscriptionKeeps == SubscriptionInv /\ LoadSubscription => SubscriptionInv'
<1> SUFFICES ASSUME SubscriptionInv, LoadSubscription PROVE SubscriptionInv'
    OBVIOUS
<1> USE DEF SubscriptionInv, LoadSubscription
<1>0. /\ prefs'.activated = prefs.activated /\ prefs'.sub = prefs.sub
      /\ prefs'.user_id = prefs.user_id
    BY DEF SubscriptionTyped
<1>1. SubscriptionTyped'
    BY DEF SubscriptionTyped
<1>2. Owned'
    BY <1>0 DEF Owned, SubscriptionTyped
<1>3. Trial'
    BY <1>0 DEF Trial, SubscriptionTyped
<1>4. Pending' = Pending
    BY DEF Pending
<1>5. OnceInv'
    BY <1>0, <1>4 DEF OnceInv
<1>6. NotWastedInv'
    BY <1>0, <1>4 DEF NotWastedInv, Spent
<1> QED
    BY <1>1, <1>2, <1>3, <1>5, <1>6

LEMMA StartTrialKeeps == SubscriptionInv /\ StartTrial => SubscriptionInv'
<1> SUFFICES ASSUME SubscriptionInv, StartTrial PROVE SubscriptionInv'
    OBVIOUS
<1> USE DEF SubscriptionInv, StartTrial, Save
<1>0. /\ prefs'.activated = prefs.activated
      /\ prefs'.sub = [user |-> user, tier |-> "trial"]
      /\ prefs'.user_id = prefs.user_id
    BY DEF SubscriptionTyped
<1>1. SubscriptionTyped'
    BY DEF SubscriptionTyped
<1>2. Owned'
    BY <1>0 DEF Owned, SubscriptionTyped
<1>3. Trial'
    BY <1>0 DEF Trial, Owned, NoSub
<1>4. Pending' = Pending
    BY DEF Pending
<1>5. OnceInv'
    BY <1>0, <1>4 DEF OnceInv
<1>6. NotWastedInv'
    BY <1>0, <1>4 DEF NotWastedInv, Spent
<1> QED
    BY <1>1, <1>2, <1>3, <1>5, <1>6

LEMMA UpgradeKeeps ==
    ASSUME SubscriptionInv, step = "ready", NEW tier \in Tiers, upgradeToTier(tier)
    PROVE  SubscriptionInv'
<1> USE DEF SubscriptionInv, upgradeToTier, Save
<1>0. /\ prefs'.activated = prefs.activated
      /\ prefs'.sub = [prefs.sub EXCEPT !.tier = tier]
      /\ prefs'.user_id = prefs.user_id
      /\ sub' = prefs'.sub /\ sub = prefs.sub /\ sub # NoSub
    BY DEF SubscriptionTyped, Trial
<1>1. SubscriptionTyped'
    BY <1>0 DEF SubscriptionTyped
<1>2. Owned'
    BY <1>0 DEF Owned, SubscriptionTyped
<1>3. Trial'
  <2>1. prefs'.sub.user # 0
    BY <1>0 DEF Owned, SubscriptionTyped
  <2> QED
    BY <1>0, <2>1 DEF Trial, NoSub
<1>4. Pending' = Pending
    BY DEF Pending
<1>5. OnceInv'
    BY <1>0, <1>4 DEF OnceInv
<1>6. NotWastedInv'
    BY <1>0, <1>4 DEF NotWastedInv, Spent
<1> QED
    BY <1>1, <1>2, <1>3, <1>5, <1>6

(* activate, up to the await of applyPromoCode: the code is applied and the *)
(* list it was not in is kept.                                             *)
LEMMA ActivateKeeps ==
    ASSUME SubscriptionInv, step = "ready", NEW t \in Redeemers, NEW c \in PromoCodes,
           Activate(t, c)
    PROVE  SubscriptionInv'
<1> USE DEF SubscriptionInv
<1>0. /\ redeeming[t] = Idle /\ c \notin prefs.activated
      /\ redeeming' = [redeeming EXCEPT ![t] = [code |-> c, list |-> prefs.activated]]
      /\ user' = user /\ step' = step /\ launches' = launches /\ trialLost' = trialLost
      /\ prefs'.activated = prefs.activated /\ prefs'.user_id = prefs.user_id
      /\ sub' = prefs'.sub
    BY DEF Activate, Save, SubscriptionTyped, Trial
<1>a. redeeming'[t] = [code |-> c, list |-> prefs.activated] /\ redeeming'[t] # Idle
    BY <1>0, IdleAssumption DEF Idle, SubscriptionTyped
<1>b. \A u \in Redeemers \ {t} : redeeming'[u] = redeeming[u]
    BY <1>0 DEF SubscriptionTyped
<1>c. Pending' = Pending \cup {t} /\ t \notin Pending
    BY <1>0, <1>a, <1>b DEF Pending
<1>d. /\ applied' \in [PromoCodes -> Nat]
      /\ \A d \in PromoCodes \ {c} : applied'[d] = applied[d]
      /\ applied'[c] = applied[c] + 1 \/ (sub = NoSub /\ applied'[c] = applied[c])
    BY DEF Activate, SubscriptionTyped
<1>e. \/ sub = NoSub /\ prefs' = prefs /\ sub' = sub
      \/ /\ sub # NoSub
         /\ prefs' = [prefs EXCEPT !.sub = [user |-> user, tier |-> "pro"]]
    BY DEF Activate, Save
<1>1. SubscriptionTyped'
  <2>1. redeeming' \in [Redeemers -> [code : PromoCodes \cup {"none"}, list : SUBSET PromoCodes]]
    BY <1>0 DEF SubscriptionTyped
  <2>2. prefs' \in [user_id : Nat, trial_started : BOOLEAN,
                    sub : [user : Nat, tier : Tiers \cup {"none", "trial", "pro"}],
                    activated : SUBSET PromoCodes]
    BY <1>e DEF SubscriptionTyped
  <2>3. \A u \in Redeemers : redeeming'[u] # Idle => redeeming'[u].code \in PromoCodes
    BY <1>a, <1>b DEF SubscriptionTyped
  <2> QED
    BY <1>0, <1>d, <2>1, <2>2, <2>3 DEF SubscriptionTyped
<1>2. Owned'
    BY <1>0, <1>e DEF Owned, SubscriptionTyped
<1>3. Trial'
    BY <1>0, <1>e DEF Trial, Owned, NoSub, SubscriptionTyped
<1>4. OnceInv'
  <2> SUFFICES ASSUME NEW d \in PromoCodes \ excused', applied'[d] # 0
               PROVE  /\ applied'[d] = 1
                      /\ \/ \E u \in Pending' : redeeming'[u].code = d /\ Pending' = {u}
                         \/ d \in prefs'.activated /\ \A u \in Pending' : d \in redeeming'[u].list
      BY DEF OnceInv
  <2>1. CASE Pending = {}
    <3>1. d \notin excused
      BY DEF Activate
    <3>2. CASE d = c
      <4>1. applied[c] = 0
        BY <1>0, <2>1, <3>1, <3>2 DEF OnceInv
      <4>2. applied'[c] = 1
        BY <1>d, <3>2, <4>1
      <4>3. Pending' = {t}
        BY <1>c, <2>1
      <4> QED
        BY <1>a, <3>2, <4>2, <4>3
    <3>3. CASE d # c
      <4>1. applied'[d] = applied[d] /\ applied[d] = 1 /\ d \in prefs.activated
        BY <1>d, <2>1, <3>1, <3>3 DEF OnceInv
      <4> QED
        BY <1>0, <1>a, <1>c, <2>1, <4>1
    <3> QED
      BY <3>2, <3>3
  <2>2. CASE Pending # {}
    <3>1. Redeemed = {redeeming[u].code : u \in Pending}
      BY DEF Redeemed, Pending
    <3>2. Redeemed # {}
      BY <2>2, <3>1
    <3>3. d \notin excused /\ d \notin Redeemed /\ d # c
      BY <3>2 DEF Activate
    <3>4. applied'[d] = applied[d]
      BY <1>d, <3>3
    <3>5. applied[d] = 1 /\ d \in prefs.activated /\ \A u \in Pending : d \in redeeming[u].list
      BY <3>1, <3>3, <3>4 DEF OnceInv
    <3>6. \A u \in Pending : redeeming'[u] = redeeming[u]
      BY <1>b, <1>c DEF Pending
    <3> QED
      BY <1>0, <1>a, <1>c, <3>4, <3>5, <3>6
  <2> QED
    BY <2>1, <2>2
<1>5. NotWastedInv'
  <2>1. \A d \in PromoCodes : Spent(d) => Spent(d)'
    BY <1>0, <1>d DEF Spent, SubscriptionTyped
  <2>2. Spent(c)'
    <3>1. CASE sub = NoSub
      BY <1>0, <3>1 DEF Trial, Spent
    <3>2. CASE sub # NoSub
      BY <1>d, <3>2 DEF Spent, SubscriptionTyped
    <3> QED
      BY <3>1, <3>2
  <2>3. prefs.activated \subseteq PromoCodes /\ \A d \in prefs.activated : Spent(d)'
    BY <2>1 DEF NotWastedInv, SubscriptionTyped
  <2>4. ASSUME NEW u \in Pending'
        PROVE  Spent(redeeming[u].code)' /\ \A d \in redeeming'[u].list : Spent(d)'
    <3>1. CASE u = t
      BY <1>a, <2>2, <2>3, <3>1
    <3>2. CASE u # t
      <4>1. u \in Pending /\ u \in Redeemers /\ redeeming'[u] = redeeming[u]
        BY <1>b, <1>c, <3>2 DEF Pending
      <4>2. redeeming[u].code \in PromoCodes /\ redeeming[u].list \subseteq PromoCodes
        BY <4>1 DEF SubscriptionTyped, Pending
      <4> QED
        BY <2>1, <4>1, <4>2 DEF NotWastedInv
    <3> QED
      BY <3>1, <3>2
  <2> QED
    BY <1>0, <2>3, <2>4 DEF NotWastedInv
<1> QED
    BY <1>1, <1>2, <1>3, <1>4, <1>5

(* The rest of activate: the list as it was read is saved with the code.   *)
LEMMA RecordKeeps ==
    ASSUME SubscriptionInv, NEW t \in Redeemers, Record(t)
    PROVE  SubscriptionInv'
<1> USE DEF SubscriptionInv
<1>0. /\ redeeming[t] # Idle /\ redeeming' = [redeeming EXCEPT ![t] = Idle]
      /\ prefs' = [prefs EXCEPT !.activated = redeeming[t].list \cup {redeeming[t].code}]
      /\ UNCHANGED <<user, sub, step, launches, applied, excused, trialLost>>
    BY DEF Record
<1>a. /\ prefs'.activated = redeeming[t].list \cup {redeeming[t].code}
      /\ prefs'.sub = prefs.sub /\ prefs'.user_id = prefs.user_id
      /\ prefs'.trial_started = prefs.trial_started
    BY <1>0 DEF SubscriptionTyped
<1>b. redeeming'[t] = Idle /\ \A u \in Redeemers \ {t} : redeeming'[u] = redeeming[u]
    BY <1>0 DEF SubscriptionTyped
<1>c. Pending' = Pending \ {t} /\ t \in Pending
    BY <1>0, <1>b DEF Pending
<1>d. redeeming[t].list \subseteq PromoCodes /\ redeeming[t].code \in PromoCodes
    BY <1>0 DEF SubscriptionTyped
<1>1. SubscriptionTyped'
  <2>1. redeeming' \in [Redeemers -> [code : PromoCodes \cup {"none"}, list : SUBSET PromoCodes]]
    BY <1>0 DEF SubscriptionTyped, Idle
  <2>2. prefs' \in [user_id : Nat, trial_started : BOOLEAN,
                    sub : [user : Nat, tier : Tiers \cup {"none", "trial", "pro"}],
                    activated : SUBSET PromoCodes]
    BY <1>0, <1>d DEF SubscriptionTyped
  <2>3. \A u \in Redeemers : redeeming'[u] # Idle => redeeming'[u].code \in PromoCodes
    BY <1>b DEF SubscriptionTyped
  <2> QED
    BY <1>0, <2>1, <2>2, <2>3 DEF SubscriptionTyped
<1>2. Owned'
    BY <1>0, <1>a DEF Owned
<1>3. Trial'
    BY <1>0, <1>a DEF Trial
<1>4. OnceInv'
  <2> SUFFICES ASSUME NEW d \in PromoCodes \ excused, applied[d] # 0
               PROVE  /\ applied[d] = 1
                      /\ d \in prefs'.activated /\ \A u \in Pending' : d \in redeeming'[u].list
      BY <1>0 DEF OnceInv
  <2>1. CASE \E u \in Pending : redeeming[u].code = d /\ Pending = {u}
    <3>1. redeeming[t].code = d /\ Pending' = {}
      BY <1>c, <2>1
    <3> QED
      BY <1>a, <3>1 DEF OnceInv
  <2>2. CASE d \in prefs.activated /\ \A u \in Pending : d \in redeeming[u].list
    <3>1. \A u \in Pending' : redeeming'[u] = redeeming[u] /\ u \in Pending
      BY <1>b, <1>c DEF Pending
    <3> QED
      BY <1>a, <1>c, <2>2, <3>1 DEF OnceInv
  <2> QED
    BY <2>1, <2>2 DEF OnceInv
<1>5. NotWastedInv'
  <2>1. \A u \in Pending' : redeeming'[u] = redeeming[u] /\ u \in Pending
    BY <1>b, <1>c DEF Pending
  <2> QED
    BY <1>0, <1>a, <1>c, <2>1 DEF NotWastedInv, Spent
<1> QED
    BY <1>1, <1>2, <1>3, <1>4, <1>5

(* A kill loses the trial between its two writes, and excuses the codes of *)
(* the activations under way.                                              *)
LEMMA SubscriptionKilledKeeps == SubscriptionInv /\ SubscriptionKilled => SubscriptionInv'
<1> SUFFICES ASSUME SubscriptionInv, SubscriptionKilled PROVE SubscriptionInv'
    OBVIOUS
<1> USE DEF SubscriptionInv
<1>0. /\ user' = 0 /\ sub' = NoSub /\ step' = "user"
      /\ redeeming' = [t \in Redeemers |-> Idle]
      /\ launches' = launches + 1
      /\ excused' = excused \cup Redeemed
      /\ prefs' = prefs /\ applied' = applied
    BY DEF SubscriptionKilled
<1>l. trialLost' <=> (trialLost \/ step = "save")
    BY DEF SubscriptionKilled
<1>a. Pending' = {}
    BY <1>0 DEF Pending
<1>1. SubscriptionTyped'
  <2>1. redeeming' \in [Redeemers -> [code : PromoCodes \cup {"none"}, list : SUBSET PromoCodes]]
    BY <1>0 DEF Idle
  <2>2. trialLost' \in BOOLEAN
    BY DEF SubscriptionKilled
  <2>3. user' \in Nat /\ launches' \in Nat \ {0}
    BY <1>0 DEF SubscriptionTyped
  <2> QED
    BY <1>0, <2>1, <2>2, <2>3 DEF SubscriptionTyped
<1>2. Owned'
    BY <1>0 DEF Owned
<1>3. Trial'
  <2>1. ASSUME prefs.trial_started, prefs.sub = NoSub PROVE trialLost \/ step = "save"
    <3>1. CASE step = "ready"
      BY <2>1, <3>1 DEF Trial
    <3>2. CASE step \in {"user", "trial"}
      BY <2>1, <3>2 DEF Trial
    <3> QED
      BY <3>1, <3>2 DEF SubscriptionTyped
  <2> QED
    BY <1>0, <1>l, <2>1 DEF Trial
<1>4. OnceInv'
  <2>1. Redeemed = {redeeming[u].code : u \in Pending}
    BY DEF Redeemed, Pending
  <2> QED
    BY <1>0, <1>a, <2>1 DEF OnceInv
<1>5. NotWastedInv'
    BY <1>0, <1>l, <1>a DEF NotWastedInv, Spent
<1> QED
    BY <1>1, <1>2, <1>3, <1>4, <1>5

LEMMA SubscriptionKept == SubscriptionInv /\ SubscriptionStep => SubscriptionInv'
<1> SUFFICES ASSUME SubscriptionInv, SubscriptionStep PROVE SubscriptionInv'
    OBVIOUS
<1>1. CASE SubscriptionLoads
    BY <1>1, LoadUserKeeps, LoadSubscriptionKeeps, StartTrialKeeps DEF SubscriptionLoads
<1>2. CASE step = "ready" /\ SubscriptionCall
    BY <1>2, UpgradeKeeps, ActivateKeeps DEF SubscriptionCall
<1>3. CASE \E t \in Redeemers : Record(t)
    BY <1>3, RecordKeeps
<1>4. CASE SubscriptionKilled
    BY <1>4, SubscriptionKilledKeeps
<1>5. CASE UNCHANGED subVars
    BY <1>5 DEF subVars, SubscriptionInv, SubscriptionTyped, Owned, Trial, OnceInv,
                NotWastedInv, Pending, Spent
<1> QED
    BY <1>1, <1>2, <1>3, <1>4, <1>5 DEF SubscriptionStep

-----------------------------------------------------------------------------
(* The settings *)

(* A list of endpoints is never what stands for no list.                   *)
LEMMA ListsAreStored == \A list \in Seq(Listed) : list # NotStored
<1> SUFFICES ASSUME NEW list \in Seq(Listed), list = NotStored PROVE FALSE
    OBVIOUS
<1>1. Len(list) = 1 /\ list[1] = [host |-> "nowhere", port |-> 0, flaw |-> "none"]
    BY DEF NotStored
<1>2. 1 \in 1..Len(list)
    BY <1>1
<1>3. list[1] \in Listed
    BY <1>2
<1> QED
    BY <1>1, <1>3, NotStoredAssumption DEF Listed

LEMMA SettingsStart == SettingsInit => SettingsInv
<1> SUFFICES ASSUME SettingsInit PROVE SettingsInv
    OBVIOUS
<1>1. before \in {<<>>} \cup {<<e>> : e \in [host : Hosts, port : Ports, flaw : LegacyFlaws]}
    BY DEF SettingsInit
<1>2. SettingsTyped
  <2>1. endpoints \in Seq(Listed) /\ stored = NotStored /\ loading = "load"
    BY DEF SettingsInit
  <2>2. edited \in BOOLEAN
    BY DEF SettingsInit
  <2> QED
    BY <1>1, <2>1, <2>2 DEF SettingsTyped
<1>3. Migration
    BY DEF SettingsInit, Migration, AllLegacy, LegacyKeys
<1>4. MigrationKept /\ NoneTwice
    BY DEF SettingsInit, MigrationKept, NoneTwice, NoDuplicates
<1> QED
    BY <1>2, <1>3, <1>4 DEF SettingsInv

LEMMA LegacyNames ==
    /\ AllLegacy = {"gateway_host", "gateway_port", "sni_list", "server_public", "client_psk"}
    /\ DOMAIN LegacyKeys = 1..5 /\ Len(LegacyKeys) = 5
    /\ \A i \in 1..5 : LegacyKeys[i] \in AllLegacy
    BY DEF AllLegacy, LegacyKeys

LEMMA AtMostOne == ASSUME NEW s \in Seq(Listed), Len(s) <= 1 PROVE NoDuplicates(s)
    BY DEF NoDuplicates

(* What _migrateLegacyIfPresent makes of the five keys is a list of one    *)
(* endpoint with a port in range, the port it had if that was one.         *)
LEMMA MigratedIsList ==
    ASSUME SettingsTyped, HadEndpoint
    PROVE  /\ Migrated \in Seq(Listed) /\ Len(Migrated) = 1
           /\ MadeOf(Migrated, before[1])
<1>1. PICK e \in [host : Hosts, port : Ports, flaw : LegacyFlaws] : before = <<e>>
    BY DEF SettingsTyped, HadEndpoint
<1> DEFINE p == clampPort(e.port)
<1>2. e.port \in Nat /\ before[1] = e
    BY <1>1, PortsAssumption
<1>3. p \in Ports \cup {18080} /\ p \in Nat /\ InRange(p) /\ (InRange(e.port) => p = e.port)
    BY <1>2 DEF clampPort, InRange
<1>4. Migrated = <<[e EXCEPT !.port = p]>>
    BY <1>2 DEF Migrated
<1> HIDE DEF p
<1>5. [e EXCEPT !.port = p] \in Listed
    BY <1>3 DEF Listed
<1>6. Migrated \in Seq(Listed) /\ Len(Migrated) = 1
    BY <1>4, <1>5
<1>7. MadeOf(Migrated, e)
    BY <1>3, <1>4 DEF MadeOf
<1> QED
    BY <1>2, <1>6, <1>7

(* load: what is stored, or else what version 0.1.0 left, which is stored  *)
(* before any of its keys is removed (settings_service.dart:140-150).      *)
LEMMA LoadSettingsKeeps == SettingsInv /\ LoadSettings => SettingsInv'
<1> SUFFICES ASSUME SettingsInv, LoadSettings PROVE SettingsInv'
    OBVIOUS
<1> USE DEF SettingsInv
<1>0. loading = "load" /\ legacy' = legacy /\ before' = before /\ edited' = edited
    BY DEF LoadSettings
<1>1. CASE stored # NotStored
  <2>1. endpoints' = stored /\ loading' = "done" /\ stored' = stored
    BY <1>1 DEF LoadSettings
  <2>2. SettingsTyped'
    BY <1>0, <1>1, <2>1 DEF SettingsTyped
  <2>3. Migration'
    BY <1>0, <1>1, <2>1, LegacyNames DEF Migration, Migrated, HadEndpoint
  <2>4. MigrationKept'
    BY <1>0, <1>1, <2>1, MigratedIsList DEF MigrationKept, Migration, HadEndpoint
  <2>5. NoneTwice'
    BY <1>1, <2>1 DEF NoneTwice
  <2> QED
    BY <2>2, <2>3, <2>4, <2>5
<1>2. CASE stored = NotStored /\ LegacyPresent
  <2>1. HadEndpoint
    BY <1>2 DEF Migration, LegacyPresent, HadEndpoint
  <2>2. endpoints' = Migrated /\ stored' = Migrated /\ loading' = "gateway_host"
    BY <1>2 DEF LoadSettings, LegacyKeys
  <2>3. Migrated \in Seq(Listed) /\ Migrated # NotStored /\ NoDuplicates(Migrated)
    <3>0. SettingsTyped
      OBVIOUS
    <3>1. Migrated \in Seq(Listed) /\ Len(Migrated) <= 1
      <4>1. Migrated \in Seq(Listed) /\ Len(Migrated) = 1
        BY <2>1, <3>0, MigratedIsList, Zenon
      <4> QED
        BY <4>1
    <3> QED
      BY <3>1, ListsAreStored, AtMostOne
  <2>4. SettingsTyped'
    BY <1>0, <2>2, <2>3, LegacyNames DEF SettingsTyped
  <2>5. Migrated' = Migrated /\ HadEndpoint'
    BY <1>0, <2>1 DEF Migrated, HadEndpoint
  <2>6. Migration' /\ MigrationKept' /\ NoneTwice'
    <3> HIDE DEF SettingsInv
    <3> QED
      BY <1>0, <2>2, <2>3, <2>5 DEF Migration, MigrationKept, NoneTwice
  <2> QED
    BY <2>4, <2>6
<1>3. CASE stored = NotStored /\ ~LegacyPresent
  <2>1. ~HadEndpoint
    BY <1>3, LegacyNames DEF Migration, LegacyPresent, HadEndpoint
  <2>2. endpoints' = <<>> /\ stored' = stored /\ loading' = "done"
    BY <1>3 DEF LoadSettings
  <2>3. SettingsTyped'
    BY <1>0, <2>2 DEF SettingsTyped
  <2>4. Migration'
    BY <1>0, <1>3, <2>2, LegacyNames DEF Migration
  <2>5. MigrationKept'
    BY <1>0, <2>1, <2>2 DEF MigrationKept, HadEndpoint
  <2>6. NoneTwice'
    BY <2>2, <1>3 DEF NoneTwice, NoDuplicates
  <2> QED
    BY <2>3, <2>4, <2>5, <2>6
<1> QED
    BY <1>1, <1>2, <1>3

LEMMA RemoveLegacyKeeps == SettingsInv /\ RemoveLegacy => SettingsInv'
<1> SUFFICES ASSUME SettingsInv, RemoveLegacy PROVE SettingsInv'
    OBVIOUS
<1> USE DEF SettingsInv
<1>0. loading \in AllLegacy /\ UNCHANGED <<endpoints, stored, before, edited>>
    BY LegacyNames DEF RemoveLegacy
<1>1. loading' \in {"done"} \cup AllLegacy
  <2>1. PICK i \in 1..5 : loading' = IF i = 5 THEN "done" ELSE LegacyKeys[i + 1]
    BY LegacyNames DEF RemoveLegacy
  <2>2. CASE i = 5
    BY <2>1, <2>2
  <2>3. CASE i # 5
    <3>1. i + 1 \in 1..5
      BY <2>3
    <3> QED
      BY <2>1, <2>3, <3>1, LegacyNames
  <2> QED
    BY <2>2, <2>3
<1>2. HadEndpoint /\ endpoints = Migrated /\ stored # NotStored
    BY <1>0 DEF Migration
<1>3. SettingsTyped'
    BY <1>0, <1>1 DEF SettingsTyped
<1>4. Migrated' = Migrated /\ HadEndpoint'
    BY <1>0, <1>2 DEF Migrated, HadEndpoint
<1>5. Migration' /\ NoneTwice'
    BY <1>0, <1>2, <1>4 DEF Migration, NoneTwice
<1>6. MigrationKept'
    BY <1>0, <1>2, MigratedIsList DEF MigrationKept, HadEndpoint
<1> QED
    BY <1>3, <1>5, <1>6

(* Every edit stores a list in which no address is twice.                  *)
LEMMA EditKeeps ==
    ASSUME SettingsInv, loading = "done",
           NEW list \in Seq(Listed), NoDuplicates(list), Edit(list)
    PROVE  SettingsInv'
<1> USE DEF SettingsInv, Edit
<1>1. SettingsTyped'
    BY DEF SettingsTyped
<1>2. list # NotStored
    BY ListsAreStored
<1>3. Migration'
    BY <1>2, LegacyNames DEF Migration
<1>4. MigrationKept' /\ NoneTwice'
    BY DEF MigrationKept, NoneTwice
<1> QED
    BY <1>1, <1>3, <1>4

LEMMA DroppedIsList ==
    ASSUME NEW list \in Seq(Listed), NoDuplicates(list), NEW i \in DOMAIN list
    PROVE  Dropped(list, i) \in Seq(Listed) /\ NoDuplicates(Dropped(list, i))
<1> DEFINE d == Dropped(list, i)
<1>1. Len(list) \in Nat /\ Len(list) # 0 /\ i \in 1..Len(list)
    OBVIOUS
<1>2. \A k \in 1..Len(list)-1 : d[k] \in Listed
    BY <1>1 DEF Dropped
<1>3. d \in Seq(Listed) /\ DOMAIN d = 1..Len(list)-1
    BY <1>1, <1>2 DEF Dropped
<1>4. ASSUME NEW j \in 1..Len(list)-1, NEW k \in 1..Len(list)-1, hostPortKey(d[j]) = hostPortKey(d[k])
      PROVE  j = k
    BY <1>1, <1>4 DEF Dropped, NoDuplicates
<1> QED
    BY <1>3, <1>4 DEF NoDuplicates

LEMMA MovedIsList ==
    ASSUME NEW list \in Seq(Listed), NoDuplicates(list),
           NEW i \in DOMAIN list, NEW j \in DOMAIN list
    PROVE  Moved(list, i, j) \in Seq(Listed) /\ NoDuplicates(Moved(list, i, j))
<1> DEFINE m == Moved(list, i, j)
           src(k) == IF k = j THEN i
                     ELSE LET r == IF k < j THEN k ELSE k - 1 IN IF r < i THEN r ELSE r + 1
<1>1. Len(list) \in Nat /\ DOMAIN list = 1..Len(list) /\ i \in 1..Len(list) /\ j \in 1..Len(list)
    OBVIOUS
<1>2. \A k \in 1..Len(list) : src(k) \in 1..Len(list)
    BY <1>1
<1>3. \A k, l \in 1..Len(list) : src(k) = src(l) => k = l
    BY <1>1
<1>4. \A k \in 1..Len(list) : m[k] = list[src(k)]
    BY <1>1 DEF Moved, Dropped
<1>5. m = [k \in 1..Len(list) |-> m[k]]
    BY <1>1 DEF Moved
<1> HIDE DEF m, src
<1>6. \A k \in 1..Len(list) : m[k] \in Listed
    BY <1>2, <1>4
<1>7. m \in Seq(Listed) /\ DOMAIN m = 1..Len(list)
    BY <1>1, <1>5, <1>6
<1>8. ASSUME NEW k \in 1..Len(list), NEW l \in 1..Len(list), hostPortKey(m[k]) = hostPortKey(m[l])
      PROVE  k = l
    <2>1. hostPortKey(list[src(k)]) = hostPortKey(list[src(l)]) /\ src(k) \in DOMAIN list /\ src(l) \in DOMAIN list
        BY <1>1, <1>2, <1>4, <1>8
    <2>2. src(k) = src(l)
        BY <2>1 DEF NoDuplicates
    <2> QED
        BY <1>3, <2>2
<1>9. NoDuplicates(m)
    BY <1>7, <1>8 DEF NoDuplicates
<1> QED
    BY <1>7, <1>9 DEF m

(* addEndpoint, replaceEndpoint, removeEndpoint, reorderEndpoint and       *)
(* setEndpoints all keep the addresses apart.                              *)
LEMMA SettingsCallKeeps ==
    SettingsInv /\ loading = "done" /\ SettingsCall => SettingsInv'
<1> SUFFICES ASSUME SettingsInv, loading = "done", SettingsCall PROVE SettingsInv'
    OBVIOUS
<1>0. endpoints \in Seq(Listed) /\ NoDuplicates(endpoints)
    BY DEF SettingsInv, SettingsTyped, NoneTwice
<1>e. Entered \subseteq Listed
    BY PortsAssumption DEF Entered, Endpoint, Listed
<1>1. ASSUME NEW e \in Entered, addEndpoint(e) PROVE SettingsInv'
  <2> DEFINE list == Append(endpoints, e)
  <2>1. list \in Seq(Listed) /\ Edit(list)
    BY <1>0, <1>e, <1>1 DEF addEndpoint
  <2>2. NoDuplicates(list)
    BY <1>0, <1>e, <1>1 DEF addEndpoint, NoDuplicates
  <2> QED
    BY <2>1, <2>2, EditKeeps
<1>2. ASSUME NEW e, removeEndpoint(e) PROVE SettingsInv'
    BY <1>0, <1>2, DroppedIsList, EditKeeps DEF removeEndpoint
<1>3. ASSUME NEW old, NEW e \in Entered, replaceEndpoint(old, e) PROVE SettingsInv'
  <2>1. PICK i \in DOMAIN endpoints :
            /\ \A j \in DOMAIN endpoints \ {i} : hostPortKey(endpoints[j]) # hostPortKey(e)
            /\ Edit([endpoints EXCEPT ![i] = e])
    BY <1>3 DEF replaceEndpoint
  <2> DEFINE list == [endpoints EXCEPT ![i] = e]
  <2>2. list \in Seq(Listed) /\ Edit(list)
    BY <1>0, <1>e, <2>1
  <2>3. NoDuplicates(list)
    BY <1>0, <2>1 DEF NoDuplicates
  <2> QED
    BY <2>2, <2>3, EditKeeps
<1>4. ASSUME NEW i \in DOMAIN endpoints, NEW j \in DOMAIN endpoints, reorderEndpoint(i, j)
      PROVE  SettingsInv'
    BY <1>0, <1>4, MovedIsList, EditKeeps DEF reorderEndpoint
<1>5. ASSUME NEW e \in Entered, NEW f \in Entered, setEndpoints(<<e, f>>) PROVE SettingsInv'
  <2>1. <<e, f>> \in Seq(Listed)
    BY <1>e
  <2> QED
    BY <1>5, <2>1, EditKeeps DEF setEndpoints
<1> QED
    BY <1>1, <1>2, <1>3, <1>4, <1>5 DEF SettingsCall

LEMMA SettingsKept == SettingsInv /\ SettingsStep => SettingsInv'
<1> SUFFICES ASSUME SettingsInv, SettingsStep PROVE SettingsInv'
    OBVIOUS
<1>1. CASE SettingsKilled
    BY <1>1, LegacyNames DEF SettingsKilled, SettingsInv, SettingsTyped, Migration, MigrationKept,
                NoneTwice, Migrated, HadEndpoint
<1>2. CASE UNCHANGED settingsVars
    BY <1>2 DEF settingsVars, SettingsInv, SettingsTyped, Migration, MigrationKept, NoneTwice,
                Migrated, HadEndpoint
<1> QED
    BY <1>1, <1>2, LoadSettingsKeeps, RemoveLegacyKeeps, SettingsCallKeeps DEF SettingsStep

-----------------------------------------------------------------------------
(* The catalog *)

LEMMA CatalogStarts == CatalogInit => CatalogInv
<1> SUFFICES ASSUME CatalogInit PROVE CatalogInv
    OBVIOUS
<1>1. /\ saved.plan \in {"none", "base"} /\ saved.base = <<>> /\ saved.extra = {}
      /\ saved.custom \subseteq Custom
      /\ saved = [plan |-> saved.plan, base |-> saved.base, extra |-> saved.extra,
                  custom |-> saved.custom]
    BY DEF CatalogInit, Fresh, Settled
<1>2. saved \in Selection /\ held = saved
  <2>1. saved.base \in Seq(Ids) /\ saved.extra \in SUBSET Ids
    BY <1>1
  <2> QED
    BY <1>1, <2>1 DEF CatalogInit, Selection
<1>3. shown = Known(held) /\ Idling
    BY DEF CatalogInit, Idling
<1>4. CatalogTyped
  <2>1. persisting \in [Tasks -> {0, 2, 3, 4}]
    BY DEF CatalogInit
  <2>2. overlapped \in BOOLEAN
    BY DEF CatalogInit
  <2>3. shown \subseteq Ids
    BY <1>1, <1>2, <1>3 DEF Known, Ids
  <2> QED
    BY <1>2, <2>1, <2>2, <2>3 DEF CatalogTyped
<1>5. Slots
    BY <1>1, <1>2, SlotsAssumption DEF Slots, Distinct
<1>6. WriteDue /\ Announced
    BY <1>2, <1>3 DEF WriteDue, Announced
<1>7. Chosen(held) = {} /\ Chosen(saved) = {}
    BY <1>1, <1>2 DEF Chosen, Entries
<1>8. Alone
    BY <1>3, <1>7 DEF Alone, Idling
<1> QED
    BY <1>4, <1>5, <1>6, <1>8 DEF CatalogInv

(* _baseSelected.remove: one slot is free, the id is gone and the others   *)
(* stay.                                                                   *)
LEMMA WithoutIsList ==
    ASSUME NEW s \in Seq(Ids), Distinct(s), NEW id
    PROVE  /\ Without(s, id) \in Seq(Ids) /\ Distinct(Without(s, id))
           /\ Len(Without(s, id)) <= Len(s)
           /\ id \in Entries(s) => Len(Without(s, id)) = Len(s) - 1
           /\ Entries(Without(s, id)) \subseteq Entries(s) \ {id}
<1>1. CASE id \notin Entries(s)
  <2>1. Without(s, id) = s
    BY <1>1 DEF Without
  <2> QED
    BY <1>1, <2>1
<1>2. CASE id \in Entries(s)
  <2> DEFINE P(i) == s[i] = id /\ \A j \in 1..i-1 : s[j] # id
             at == CHOOSE i \in DOMAIN s : P(i)
             w == Without(s, id)
  <2>1. PICK k \in DOMAIN s : s[k] = id
    BY <1>2 DEF Entries
  <2>2. P(k)
    BY <2>1 DEF Distinct
  <2>3. at \in DOMAIN s /\ s[at] = id
    BY <2>2
  <2>4. w = [i \in 1..Len(s)-1 |-> IF i < at THEN s[i] ELSE s[i + 1]]
    BY <1>2 DEF Without
  <2> HIDE DEF at, w, P
  <2>5. Len(s) \in Nat /\ Len(s) # 0 /\ at \in 1..Len(s) /\ DOMAIN s = 1..Len(s)
    BY <2>3
  <2>6. \A i \in 1..Len(s)-1 : w[i] \in Ids
    BY <2>4, <2>5
  <2>7. w \in Seq(Ids) /\ Len(w) = Len(s) - 1 /\ DOMAIN w = 1..Len(s)-1
    BY <2>4, <2>5, <2>6
  <2>8. ASSUME NEW i \in 1..Len(s)-1, NEW j \in 1..Len(s)-1, w[i] = w[j] PROVE i = j
    <3> DEFINE src(n) == IF n < at THEN n ELSE n + 1
    <3>1. w[i] = s[src(i)] /\ w[j] = s[src(j)]
      BY <2>4
    <3>2. src(i) \in DOMAIN s /\ src(j) \in DOMAIN s
      BY <2>5
    <3>3. src(i) = src(j)
      <4> HIDE DEF src
      <4> QED
        BY <2>8, <3>1, <3>2 DEF Distinct
    <3> QED
      BY <2>5, <3>3
  <2>9. ASSUME NEW i \in 1..Len(s)-1 PROVE w[i] \in Entries(s) \ {id}
    <3>1. CASE i < at
      BY <2>3, <2>4, <2>5, <3>1 DEF Distinct, Entries
    <3>2. CASE ~(i < at)
      <4>1. w[i] = s[i + 1] /\ i + 1 \in DOMAIN s /\ i + 1 # at
        BY <2>4, <2>5, <3>2
      <4> QED
        BY <2>3, <4>1 DEF Distinct, Entries
    <3> QED
      BY <3>1, <3>2
  <2>10. Distinct(w)
    BY <2>7, <2>8 DEF Distinct
  <2>11. Entries(w) \subseteq Entries(s) \ {id}
    BY <2>7, <2>9 DEF Entries
  <2>12. Len(w) <= Len(s)
    BY <2>5, <2>7
  <2> QED
    BY <2>7, <2>10, <2>11, <2>12 DEF w
<1> QED
    BY <1>1, <1>2

(* _baseSelected.add of an id that is not there.                           *)
LEMMA AppendedIsList ==
    ASSUME NEW s \in Seq(Ids), Distinct(s), NEW id \in Ids, id \notin Entries(s)
    PROVE  /\ Append(s, id) \in Seq(Ids) /\ Distinct(Append(s, id))
           /\ Len(Append(s, id)) = Len(s) + 1
           /\ Entries(Append(s, id)) \subseteq Entries(s) \cup {id}
<1> DEFINE a == Append(s, id)
<1>1. a \in Seq(Ids) /\ Len(a) = Len(s) + 1 /\ DOMAIN a = 1..Len(s)+1
    OBVIOUS
<1>2. a[Len(s)+1] = id /\ \A i \in 1..Len(s) : a[i] = s[i]
    OBVIOUS
<1>3. \A i \in 1..Len(s) : s[i] # id
    BY DEF Entries
<1> HIDE DEF a
<1>4. Distinct(a)
    BY <1>1, <1>2, <1>3 DEF Distinct
<1>5. Entries(a) \subseteq Entries(s) \cup {id}
    BY <1>1, <1>2 DEF Entries
<1> QED
    BY <1>1, <1>4, <1>5 DEF a

\* An operation may come with this: it keeps the slots, and what it selects is in
\* the catalog that it leaves and, unless it removes a service, in the one it found.
Admissible(new) ==
    /\ new \in Selection
    /\ Len(new.base) <= kBaseSlots /\ Distinct(new.base)
    /\ ~overlapped /\ Idling => Chosen(new) \subseteq Known(held) /\ Chosen(new) \subseteq Known(new)

(* The first of the four writes.                                           *)
LEMMA ChangeKeeps ==
    ASSUME CatalogInv, NEW t \in Tasks, NEW new, Admissible(new), Change(t, new)
    PROVE  CatalogInv'
<1> USE DEF CatalogInv
<1>0. /\ persisting[t] = 0 /\ held' = new /\ shown' = shown
      /\ saved' = [saved EXCEPT !.plan = new.plan]
      /\ persisting' = [persisting EXCEPT ![t] = 2]
    BY DEF Change, Keys
<1>o. overlapped' <=> (overlapped \/ ~Idling)
    BY DEF Change, Idling
<1>a. /\ saved'.plan = new.plan /\ saved'.base = saved.base /\ saved'.extra = saved.extra
      /\ saved'.custom = saved.custom
    BY <1>0 DEF CatalogTyped, Selection, Admissible
<1>b. persisting'[t] = 2 /\ \A u \in Tasks \ {t} : persisting'[u] = persisting[u]
    BY <1>0 DEF CatalogTyped
<1>1. CatalogTyped'
  <2>1. saved' \in Selection
    BY <1>0 DEF CatalogTyped, Selection, Admissible
  <2>2. persisting' \in [Tasks -> {0, 2, 3, 4}]
    BY <1>0 DEF CatalogTyped
  <2>3. overlapped' \in BOOLEAN
    BY DEF Change
  <2> QED
    BY <1>0, <2>1, <2>2, <2>3 DEF CatalogTyped, Admissible
<1>2. Slots'
    BY <1>0, <1>a DEF Slots, Admissible
<1>3. WriteDue'
  <2>1. Due({2})' /\ Due({2, 3})' /\ Due({2, 3, 4})'
    BY <1>b DEF Due
  <2> QED
    BY <1>0, <1>a, <2>1 DEF WriteDue
<1>4. Announced'
    BY <1>b DEF Announced, Idling
<1>5. Alone'
  <2> SUFFICES ASSUME ~overlapped, Idling PROVE Alone'
      BY <1>o DEF Alone
  <2>1. \A u \in Tasks : persisting'[u] # 0 => u = t
    BY <1>b DEF Idling
  <2>2. ~Due({2}) /\ ~Due({2, 3}) /\ ~Due({2, 3, 4})
    BY DEF Due, Idling
  <2>3. saved.custom = held.custom
    BY <2>2 DEF WriteDue
  <2>4. Known(saved)' = Known(held) /\ Known(held)' = Known(new) /\ Known(saved) = Known(held)
    BY <1>0, <1>a, <2>3 DEF Known
  <2>5. Chosen(held)' = Chosen(new) /\ Chosen(saved)' = Chosen(saved)
    BY <1>0, <1>a DEF Chosen
  <2> QED
    BY <2>1, <2>4, <2>5 DEF Alone, Admissible
<1> QED
    BY <1>1, <1>2, <1>3, <1>4, <1>5

(* Every operation of CatalogService comes with an admissible selection.   *)
LEMMA CatalogCallKeeps ==
    ASSUME CatalogInv, NEW t \in Tasks, CatalogCall(t) PROVE CatalogInv'
<1> USE DEF CatalogInv
<1>0. /\ held \in Selection /\ Len(held.base) <= kBaseSlots /\ Distinct(held.base)
      /\ held.base \in Seq(Ids) /\ held.extra \subseteq Ids /\ held.custom \subseteq Custom
      /\ held.plan \in {"none", "base", "extended"}
    BY DEF CatalogTyped, Slots, Selection
<1>k. ~overlapped /\ Idling => Chosen(held) \subseteq Known(held)
    BY DEF Alone
<1>o. Offered \subseteq Ids /\ (Idling => Offered = Known(held))
    BY <1>0 DEF Offered, Known, Ids, CatalogTyped, Announced
<1>s. Custom \subseteq Ids
    BY DEF Ids
<1>1. CASE activateBase(t) \/ activateExtended(t)
  <2>1. PICK plan \in {"base", "extended"} : Change(t, [held EXCEPT !.plan = plan])
    BY <1>1 DEF activateBase, activateExtended
  <2> DEFINE new == [held EXCEPT !.plan = plan]
  <2>2. new \in Selection /\ new.base = held.base /\ new.extra = held.extra /\ new.custom = held.custom
    BY <1>0 DEF Selection
  <2>3. Chosen(new) = Chosen(held) /\ Known(new) = Known(held)
    BY <2>2 DEF Chosen, Known
  <2>4. Admissible(new)
    BY <1>0, <1>k, <2>2, <2>3 DEF Admissible
  <2> QED
    BY <2>1, <2>4, ChangeKeeps
<1>2. CASE ownerEditService(t)
    BY <1>0, <1>2, <1>k, ChangeKeeps DEF ownerEditService, Admissible
<1>3. ASSUME NEW id \in Custom, ownerAddService(t, id) PROVE CatalogInv'
  <2> DEFINE new == [held EXCEPT !.custom = @ \cup {id}]
  <2>1. new \in Selection /\ new.base = held.base /\ new.extra = held.extra
    BY <1>0 DEF Selection
  <2>2. new.custom = held.custom \cup {id}
    BY <1>0 DEF Selection
  <2>3. Chosen(new) = Chosen(held) /\ Known(held) \subseteq Known(new)
    BY <2>1, <2>2 DEF Chosen, Known
  <2>4. Admissible(new)
    BY <1>0, <1>k, <2>1, <2>3 DEF Admissible
  <2> QED
    BY <1>3, <2>4, ChangeKeeps DEF ownerAddService
<1>4. ASSUME NEW id \in Offered, selectBase(t, id) PROVE CatalogInv'
  <2> DEFINE new == [held EXCEPT !.base = Append(@, id)]
  <2>1. id \notin Entries(held.base) /\ Len(held.base) < kBaseSlots
    BY <1>4 DEF selectBase
  <2>2. /\ Append(held.base, id) \in Seq(Ids) /\ Distinct(Append(held.base, id))
        /\ Len(Append(held.base, id)) = Len(held.base) + 1
        /\ Entries(Append(held.base, id)) \subseteq Entries(held.base) \cup {id}
    BY <1>0, <1>o, <2>1, AppendedIsList
  <2>3. /\ new \in Selection /\ new.base = Append(held.base, id)
        /\ new.extra = held.extra /\ new.custom = held.custom
    BY <1>0, <2>2 DEF Selection
  <2>4. Len(new.base) <= kBaseSlots
    BY <1>0, <2>1, <2>2, <2>3, SlotsAssumption
  <2>5. Chosen(new) \subseteq Chosen(held) \cup {id} /\ Known(new) = Known(held)
    BY <2>2, <2>3 DEF Chosen, Known
  <2>6. Admissible(new)
    <3> HIDE DEF new
    <3>1. ~overlapped /\ Idling => Chosen(new) \subseteq Known(held)
      BY <1>k, <1>o, <2>5
    <3> QED
      BY <2>2, <2>3, <2>4, <2>5, <3>1 DEF Admissible
  <2> QED
    BY <1>4, <2>6, ChangeKeeps DEF selectBase
<1>5. ASSUME NEW id, deselectBase(t, id) PROVE CatalogInv'
  <2> DEFINE new == [held EXCEPT !.base = Without(@, id)]
  <2>1. /\ Without(held.base, id) \in Seq(Ids) /\ Distinct(Without(held.base, id))
        /\ Len(Without(held.base, id)) <= Len(held.base)
        /\ Entries(Without(held.base, id)) \subseteq Entries(held.base)
    BY <1>0, WithoutIsList
  <2>2. /\ new \in Selection /\ new.base = Without(held.base, id)
        /\ new.extra = held.extra /\ new.custom = held.custom
    BY <1>0, <2>1 DEF Selection
  <2>3. Len(new.base) <= kBaseSlots
    BY <1>0, <2>1, <2>2, SlotsAssumption
  <2>4. Chosen(new) \subseteq Chosen(held) /\ Known(new) = Known(held)
    BY <2>1, <2>2 DEF Chosen, Known
  <2>5. Admissible(new)
    BY <1>k, <2>1, <2>2, <2>3, <2>4 DEF Admissible
  <2> QED
    BY <1>5, <2>5, ChangeKeeps DEF deselectBase
<1>6. ASSUME NEW old \in Ids, NEW id \in Offered, SwapOffered(old, id), swapBase(t, old, id)
      PROVE  CatalogInv'
  <2> DEFINE w == Without(held.base, old)
             new == [held EXCEPT !.base = Append(w, id)]
  <2>1. id \notin Entries(held.base) /\ old \in Entries(held.base)
    BY <1>6 DEF SwapOffered
  <2>2. /\ w \in Seq(Ids) /\ Distinct(w) /\ Len(w) = Len(held.base) - 1
        /\ Entries(w) \subseteq Entries(held.base)
    BY <1>0, <2>1, WithoutIsList
  <2>3. id \notin Entries(w)
    BY <2>1, <2>2
  <2>4. /\ Append(w, id) \in Seq(Ids) /\ Distinct(Append(w, id))
        /\ Len(Append(w, id)) = Len(w) + 1
        /\ Entries(Append(w, id)) \subseteq Entries(w) \cup {id}
    <3> HIDE DEF w
    <3> QED
      BY <1>o, <2>2, <2>3, AppendedIsList
  <2>5. /\ new \in Selection /\ new.base = Append(w, id)
        /\ new.extra = held.extra /\ new.custom = held.custom
    BY <1>0, <2>4 DEF Selection
  <2>6. Len(new.base) <= kBaseSlots
    BY <1>0, <2>2, <2>4, <2>5, SlotsAssumption
  <2>7. Chosen(new) \subseteq Chosen(held) \cup {id} /\ Known(new) = Known(held)
    BY <2>2, <2>4, <2>5 DEF Chosen, Known
  <2>8. Admissible(new)
    <3> HIDE DEF new, w
    <3>1. ~overlapped /\ Idling => Chosen(new) \subseteq Known(held)
      BY <1>k, <1>o, <2>7
    <3> QED
      BY <2>4, <2>5, <2>6, <2>7, <3>1 DEF Admissible
  <2>9. Len(w) < kBaseSlots
    BY <1>0, <2>2, SlotsAssumption
  <2>10. Change(t, new)
    <3> HIDE DEF w
    <3>1. Change(t, [held EXCEPT !.base = IF Len(w) < kBaseSlots THEN Append(w, id) ELSE w])
      BY <1>6 DEF swapBase, w
    <3> QED
      BY <2>9, <3>1
  <2> QED
    BY <2>8, <2>10, ChangeKeeps
<1>7. ASSUME NEW id \in Offered, unlockExtra(t, id) PROVE CatalogInv'
  <2> DEFINE new == [held EXCEPT !.extra = @ \cup {id},
                                 !.plan = IF @ = "base" THEN "extended" ELSE @]
  <2>1. /\ new \in Selection /\ new.base = held.base
        /\ new.extra = held.extra \cup {id} /\ new.custom = held.custom
    BY <1>0, <1>o DEF Selection
  <2>2. Chosen(new) = Chosen(held) \cup {id} /\ Known(new) = Known(held)
    BY <2>1 DEF Chosen, Known
  <2>3. Admissible(new)
    BY <1>0, <1>k, <1>o, <2>1, <2>2 DEF Admissible
  <2> QED
    BY <1>7, <2>3, ChangeKeeps DEF unlockExtra
<1>8. ASSUME NEW id, revokeExtra(t, id) PROVE CatalogInv'
  <2> DEFINE new == [held EXCEPT !.extra = @ \ {id},
                                 !.plan = IF held.extra \subseteq {id} /\ @ = "extended"
                                          THEN "base" ELSE @]
  <2>1. /\ new \in Selection /\ new.base = held.base
        /\ new.extra = held.extra \ {id} /\ new.custom = held.custom
    BY <1>0 DEF Selection
  <2>2. Chosen(new) \subseteq Chosen(held) /\ Known(new) = Known(held)
    BY <2>1 DEF Chosen, Known
  <2>3. Admissible(new)
    BY <1>0, <1>k, <2>1, <2>2 DEF Admissible
  <2> QED
    BY <1>8, <2>3, ChangeKeeps DEF revokeExtra
<1>9. ASSUME NEW id, ownerRemoveService(t, id) PROVE CatalogInv'
  <2> DEFINE new == [held EXCEPT !.custom = @ \ {id}, !.extra = @ \ {id},
                                 !.base = Without(@, id)]
  <2>1. /\ Without(held.base, id) \in Seq(Ids) /\ Distinct(Without(held.base, id))
        /\ Len(Without(held.base, id)) <= Len(held.base)
        /\ Entries(Without(held.base, id)) \subseteq Entries(held.base) \ {id}
    BY <1>0, WithoutIsList
  <2>2. /\ new \in Selection /\ new.base = Without(held.base, id)
        /\ new.extra = held.extra \ {id} /\ new.custom = held.custom \ {id}
    BY <1>0, <2>1 DEF Selection
  <2>3. Len(new.base) <= kBaseSlots
    BY <1>0, <2>1, <2>2, SlotsAssumption
  <2>4. Chosen(new) \subseteq Chosen(held) \ {id} /\ Known(held) \ {id} \subseteq Known(new)
    BY <2>1, <2>2 DEF Chosen, Known
  <2>5. Admissible(new)
    BY <1>k, <2>1, <2>2, <2>3, <2>4 DEF Admissible
  <2> QED
    BY <1>9, <2>5, ChangeKeeps DEF ownerRemoveService
<1> QED
    BY <1>1, <1>2, <1>3, <1>4, <1>5, <1>6, <1>7, <1>8, <1>9 DEF CatalogCall

(* A later write: it takes what memory holds by then, so it leaves nothing *)
(* unsaved that no other task is to write.                                 *)
LEMMA PersistKeeps ==
    ASSUME CatalogInv, NEW t \in Tasks, Persist(t) PROVE CatalogInv'
<1> USE DEF CatalogInv
<1>0. held' = held /\ overlapped' = overlapped
    BY DEF Persist
<1>k. persisting[t] \in {2, 3, 4}
    BY DEF Persist, CatalogTyped
<1>w. /\ persisting[t] = 2 => saved' = [saved EXCEPT !.base = held.base]
      /\ persisting[t] = 3 => saved' = [saved EXCEPT !.extra = held.extra]
      /\ persisting[t] = 4 => saved' = [saved EXCEPT !.custom = held.custom]
  <2>1. Keys[2] = "base" /\ Keys[3] = "extra" /\ Keys[4] = "custom"
    BY DEF Keys
  <2>2. saved' = [saved EXCEPT ![Keys[persisting[t]]] = held[Keys[persisting[t]]]]
    BY DEF Persist
  <2> QED
    BY <2>1, <2>2
<1>s. shown' = IF persisting[t] = 4 THEN Known(held) ELSE shown
    BY DEF Persist, Keys
<1>p. persisting' = [persisting EXCEPT ![t] = IF persisting[t] = 4 THEN 0 ELSE persisting[t] + 1]
    BY DEF Persist, Keys
<1>b. /\ persisting'[t] = IF persisting[t] = 4 THEN 0 ELSE persisting[t] + 1
      /\ \A u \in Tasks \ {t} : persisting'[u] = persisting[u]
    BY <1>p DEF CatalogTyped
<1>a. /\ saved' \in Selection
      /\ saved'.plan = saved.plan
      /\ saved'.base = IF persisting[t] = 2 THEN held.base ELSE saved.base
      /\ saved'.extra = IF persisting[t] = 3 THEN held.extra ELSE saved.extra
      /\ saved'.custom = IF persisting[t] = 4 THEN held.custom ELSE saved.custom
  <2>1. CASE persisting[t] = 2
    BY <1>w, <2>1 DEF CatalogTyped, Selection
  <2>2. CASE persisting[t] = 3
    BY <1>w, <2>2 DEF CatalogTyped, Selection
  <2>3. CASE persisting[t] = 4
    BY <1>w, <2>3 DEF CatalogTyped, Selection
  <2> QED
    BY <1>k, <2>1, <2>2, <2>3
<1>1. CatalogTyped'
  <2>1. persisting' \in [Tasks -> {0, 2, 3, 4}]
    BY <1>k, <1>p DEF CatalogTyped
  <2>2. Known(held) \subseteq Ids
    BY DEF CatalogTyped, Selection, Known, Ids
  <2>3. shown' \subseteq Ids
    BY <1>s, <2>2 DEF CatalogTyped
  <2>4. overlapped' \in BOOLEAN
    BY <1>0 DEF CatalogTyped
  <2> QED
    BY <1>0, <1>a, <2>1, <2>3, <2>4 DEF CatalogTyped
<1>2. Slots'
    BY <1>0, <1>a DEF Slots
<1>3. WriteDue'
  <2>1. Due({2}) => persisting[t] = 2 \/ Due({2})'
    BY <1>b DEF Due
  <2>2. Due({2, 3}) => persisting[t] = 3 \/ Due({2, 3})'
    BY <1>b DEF Due
  <2>3. Due({2, 3, 4}) => persisting[t] = 4 \/ Due({2, 3, 4})'
    BY <1>b DEF Due
  <2> QED
    BY <1>0, <1>a, <2>1, <2>2, <2>3 DEF WriteDue
<1>4. Announced'
  <2> SUFFICES ASSUME Idling' PROVE shown' = Known(held)'
      BY DEF Announced
  <2>1. persisting[t] = 4
    BY <1>k, <1>b DEF Idling
  <2> QED
    BY <1>0, <1>s, <2>1 DEF Known
<1>5. Alone'
  <2> SUFFICES ASSUME ~overlapped PROVE Alone'
      BY <1>0 DEF Alone
  <2>1. \A u \in Tasks : persisting[u] # 0 => u = t
    BY <1>k DEF Alone
  <2>2. \A u \in Tasks : persisting'[u] # 0 => u = t
    BY <1>b, <2>1
  <2>3. Known(held)' = Known(held) /\ Chosen(held)' = Chosen(held)
    BY <1>0 DEF Known, Chosen
  <2>4. CASE persisting[t] = 4
    <3>1. ~Due({2}) /\ ~Due({2, 3})
      BY <2>1, <2>4 DEF Due
    <3>2. saved.base = held.base /\ saved.extra = held.extra
      BY <3>1 DEF WriteDue
    <3>3. Chosen(saved)' = Chosen(held) /\ Known(saved)' = Known(held)
      BY <1>a, <2>4, <3>2 DEF Chosen, Known
    <3> QED
      BY <2>2, <2>3, <3>3 DEF Alone
  <2>5. CASE persisting[t] # 4
    <3>1. Known(saved)' = Known(saved)
      BY <1>a, <2>5 DEF Known
    <3>2. Chosen(saved)' \subseteq Chosen(saved) \cup Chosen(held)
      BY <1>a DEF Chosen
    <3> QED
      BY <2>2, <2>3, <3>1, <3>2 DEF Alone
  <2> QED
    BY <2>4, <2>5
<1> QED
    BY <1>1, <1>2, <1>3, <1>4, <1>5

(* load takes what was saved, wherever the writes had got to.              *)
LEMMA CatalogRestartsKeeps == CatalogInv /\ CatalogRestarts => CatalogInv'
<1> SUFFICES ASSUME CatalogInv, CatalogRestarts PROVE CatalogInv'
    OBVIOUS
<1> USE DEF CatalogInv
<1>0. held' = saved /\ saved' = saved /\ shown' = Known(saved) /\ overlapped' = overlapped
    BY DEF CatalogRestarts
<1>p. \A t \in Tasks : persisting'[t] = 0
    BY DEF CatalogRestarts
<1>1. CatalogTyped'
  <2>1. persisting' \in [Tasks -> {0, 2, 3, 4}]
    BY DEF CatalogRestarts
  <2>2. Known(saved) \subseteq Ids
    BY DEF CatalogTyped, Selection, Known, Ids
  <2> QED
    BY <1>0, <2>1, <2>2 DEF CatalogTyped
<1>2. Slots' /\ WriteDue'
    BY <1>0 DEF Slots, WriteDue
<1>3. Announced'
    BY <1>0 DEF Announced, Known
<1>4. Alone'
    BY <1>0, <1>p DEF Alone, Known, Chosen
<1> QED
    BY <1>1, <1>2, <1>3, <1>4

LEMMA CatalogKept == CatalogInv /\ CatalogStep => CatalogInv'
<1> SUFFICES ASSUME CatalogInv, CatalogStep PROVE CatalogInv'
    OBVIOUS
<1>1. CASE UNCHANGED catalogVars
    BY <1>1 DEF catalogVars, CatalogInv, CatalogTyped, Slots, WriteDue, Due, Announced, Idling,
                Alone, Known, Chosen
<1> QED
    BY <1>1, CatalogCallKeeps, PersistKeeps, CatalogRestartsKeeps DEF CatalogStep

-----------------------------------------------------------------------------
(* The theorems *)

(* Whatever the user calls and wherever the process is killed, the three   *)
(* services keep their invariants: main.dart and the services it loads.    *)
THEOREM AppInvariant == AppSpec => []AppInv
<1>1. AppInit => AppInv
    BY CatalogStarts, SettingsStart, SubscriptionStarts DEF AppInit, AppInv
<1>2. AppInv /\ [AppNext]_appVars => AppInv'
    BY Separate, CatalogKept, SettingsKept, SubscriptionKept DEF AppInv
<1> QED
    BY <1>1, <1>2, PTL DEF AppSpec

(* Once no write of _persist is due, what is saved is what memory holds,   *)
(* for any number of operations under way at once.                         *)
THEOREM SavedInTheEnd == AppSpec => []CatalogSaved
<1>1. AppInv => CatalogSaved
  <2> SUFFICES ASSUME AppInv, Idling PROVE saved = held
      BY DEF CatalogSaved, Idling
  <2>1. ~Due({2}) /\ ~Due({2, 3}) /\ ~Due({2, 3, 4})
    BY DEF Due, Idling
  <2>2. /\ saved.plan = held.plan /\ saved.base = held.base /\ saved.extra = held.extra
        /\ saved.custom = held.custom
    BY <2>1 DEF AppInv, CatalogInv, WriteDue
  <2> QED
    BY <2>2 DEF AppInv, CatalogInv, CatalogTyped, Selection
<1> QED
    BY <1>1, AppInvariant, PTL

(* The base slots are never exceeded, and without overlapping operations   *)
(* no kill between two writes of _persist leaves a selected service that   *)
(* is not in the catalog.                                                  *)
THEOREM SoundSelections == AppSpec => []SelectionsSound
<1>1. AppInv => SelectionsSound
    BY DEF AppInv, CatalogInv, Slots, Alone, Chosen, SelectionsSound
<1> QED
    BY <1>1, AppInvariant, PTL

(* However often the process is killed while load migrates the endpoint of *)
(* version 0.1.0, the endpoint is there until the list is edited, with its *)
(* host and, unless that was out of range, its port (settings_service.dart,*)
(* _migrateLegacyIfPresent).                                               *)
THEOREM MigrationKeepsEndpoint == AppSpec => []MigrationKept
<1>1. AppInv => MigrationKept
    BY DEF AppInv, SettingsInv
<1> QED
    BY <1>1, AppInvariant, PTL

(* A list the app takes for configured is one parse_endpoints accepts, but *)
(* for a blank SNI and for more than MAX_ENDPOINTS entries, however long   *)
(* the list and whatever sequence of edits made it.                        *)
THEOREM ConfiguredIsAccepted == AppSpec => []ConfiguredAccepted
<1>0. ASSUME NEW list \in Seq(Listed) PROVE Len(list) > MAX_ENDPOINTS \/ Len(list) <= MAX_ENDPOINTS
    BY MaxEndpointsAssumption
<1>1. AppInv => ConfiguredAccepted
  <2> SUFFICES ASSUME AppInv, isConfigured,
                      \A i \in DOMAIN endpoints : endpoints[i].flaw # "blank sni",
                      ~(Len(endpoints) > MAX_ENDPOINTS)
               PROVE  parse_endpoints(endpoints)
      BY DEF ConfiguredAccepted
  <2>1. NoDuplicates(endpoints) /\ endpoints \in Seq(Listed)
    BY DEF AppInv, SettingsInv, NoneTwice, SettingsTyped
  <2>2. \A i \in DOMAIN endpoints : Acceptable(endpoints[i])
    BY DEF isConfigured, isValid, Acceptable
  <2>3. Len(endpoints) <= MAX_ENDPOINTS
    BY <1>0, <2>1, Zenon
  <2> QED
    BY <2>1, <2>2, <2>3 DEF parse_endpoints, isConfigured
<1> QED
    BY <1>1, AppInvariant, PTL

(* An app that has started has a subscription of its user, or a process    *)
(* was killed between marking the trial as started and saving it.          *)
THEOREM TrialIsGiven == AppSpec => []TrialGiven
<1>1. AppInv => TrialGiven
    BY DEF AppInv, SubscriptionInv, Owned, Trial, TrialGiven
<1> QED
    BY <1>1, AppInvariant, PTL

(* However many activations there are, a code is applied at most once if   *)
(* none of its activations overlapped another or was killed.               *)
THEOREM CodesOnce == AppSpec => []PromoOnce
<1>1. AppInv => PromoOnce
    BY DEF AppInv, SubscriptionInv, OnceInv, PromoOnce
<1> QED
    BY <1>1, AppInvariant, PTL

(* A code recorded as used was applied, or the trial was lost: overlapping *)
(* activations and kills included.                                         *)
THEOREM CodesNotWasted == AppSpec => []PromoNotWasted
<1>1. AppInv => PromoNotWasted
    BY DEF AppInv, SubscriptionInv, NotWastedInv, Spent, PromoNotWasted
<1> QED
    BY <1>1, AppInvariant, PTL
==============================================================================
