---------------------------- MODULE Gateway_proofs ----------------------------
(***************************************************************************)
(* Proofs about the parts of Guards other than the replay window: Promo,   *)
(* for any finite set of users and any set of codes, HmacKeys, for every   *)
(* width of active_kid, the token bucket, for any number of relays, the    *)
(* limiter per address, for any set of addresses, and that the five parts  *)
(* side by side leave each other alone.                                    *)
(***************************************************************************)
EXTENDS Guards, FiniteSetTheorems,
        SequenceTheorems, WellFoundedInduction, TLAPS

-----------------------------------------------------------------------------
(* Promo codes *)

\* The users between the halves of use_code are finitely many, and no more than Users.
LEMMA PendingFinite ==
    ASSUME NEW c
    PROVE  /\ IsFiniteSet(Pending(c))
           /\ Cardinality(Pending(c)) \in Nat
           /\ Cardinality(Pending(c)) <= Cardinality(Users)
           /\ Cardinality(Users) \in Nat
  <1>1. Pending(c) \subseteq Users
    BY DEF Pending
  <1> QED
    BY <1>1, UsersAssumption, FS_Subset, FS_CardinalityType

\* A new code has uses left.
LEMMA FreshCode ==
    ASSUME NEW expiries, NEW p \in Fresh(expiries)
    PROVE  p.used = 0 /\ p.max \in Nat /\ p.max > 0
  <1>1. p.used = 0 /\ p.max \in MaxUses
    BY DEF Fresh
  <1>2. \A n \in Nat \ {0} : n > 0
    OBVIOUS
  <1> QED
    BY <1>1, <1>2, MaxUsesAssumption

\* add_promo_code replaces or adds one code and keeps the others.
LEMMA CodeAdded ==
    ASSUME NEW c \in Codes, NEW p, 
           codes' = [x \in DOMAIN codes \cup {c} |-> IF x = c THEN p ELSE codes[x]]
    PROVE  /\ DOMAIN codes' = DOMAIN codes \cup {c}
           /\ codes'[c] = p
           /\ \A x \in DOMAIN codes \ {c} : codes'[x] = codes[x]
  OBVIOUS

-----------------------------------------------------------------------------
(* Types *)

\* PromoManager starts with well-formed tables.
LEMMA InitTypeOK == PromoInit => PromoTypeOK
  <1> SUFFICES ASSUME PromoInit PROVE PromoTypeOK
    OBVIOUS
  <1>1. PICK loaded \in SUBSET Codes : codes \in [loaded -> Fresh({"never"})]
    BY DEF PromoInit
  <1>2. DOMAIN codes = loaded /\ DOMAIN codes \subseteq Codes
    BY <1>1
  <1>3. \A p \in Fresh({"never"}) :
            p \in [max : MaxUses, used : Nat, expires_at : {"never", "later", "past"}]
    BY DEF Fresh
  <1>4. codes \in [DOMAIN codes -> [max : MaxUses, used : Nat,
                                    expires_at : {"never", "later", "past"}]]
    BY <1>1, <1>2, <1>3
  <1>5. validated \in [Users -> DOMAIN codes \cup {None}]
    BY DEF PromoInit
  <1>6. used_tokens \in [Users -> [Codes -> Nat]] /\ adds \in 0..MaxAdds
    BY MaxAddsAssumption DEF PromoInit
  <1> QED
    BY <1>2, <1>4, <1>5, <1>6 DEF PromoTypeOK

\* use_code, add_promo_code and the clock keep the shape of the state.
LEMMA NextTypeOK ==
    ASSUME PromoTypeOK, [PromoNext]_promoVars
    PROVE  PromoTypeOK'
  <1> DEFINE Code == [max : MaxUses, used : Nat, expires_at : {"never", "later", "past"}]
  <1> USE DEF PromoTypeOK
  <1>1. ASSUME NEW u \in Users, NEW c \in Codes, Validate(u, c) PROVE PromoTypeOK'
    BY <1>1 DEF Validate, validate_code
  <1>2. ASSUME NEW u \in Users, CountUse(u) PROVE PromoTypeOK'
    <2> DEFINE v == validated[u]
    <2>1. v \in DOMAIN codes /\ v \in Codes
      BY <1>2 DEF CountUse
    <2>2. codes[v] \in Code /\ [codes[v] EXCEPT !.used = codes[v].used + 1] \in Code
      BY <2>1
    <2>3. codes' \in [DOMAIN codes -> Code] /\ DOMAIN codes' = DOMAIN codes
      BY <1>2, <2>1, <2>2 DEF CountUse
    <2>4. validated' \in [Users -> DOMAIN codes' \cup {None}]
      BY <1>2, <2>3 DEF CountUse
    <2>5. used_tokens' \in [Users -> [Codes -> Nat]]
      <3>1. used_tokens[u] \in [Codes -> Nat]
        OBVIOUS
      <3>2. [used_tokens[u] EXCEPT ![v] = used_tokens[u][v] + 1] \in [Codes -> Nat]
        BY <2>1, <3>1
      <3> QED
        BY <1>2, <3>2 DEF CountUse
    <2> QED
      BY <1>2, <2>3, <2>4, <2>5 DEF CountUse
  <1>3. ASSUME NEW c \in Codes, add_promo_code(c) PROVE PromoTypeOK'
    <2>1. PICK p \in Fresh({"never", "later"}) :
              codes' = [x \in DOMAIN codes \cup {c} |-> IF x = c THEN p ELSE codes[x]]
      BY <1>3 DEF add_promo_code
    <2>2. p \in Code
      BY DEF Fresh
    <2>3. codes' \in [DOMAIN codes' -> Code] /\ DOMAIN codes' = DOMAIN codes \cup {c}
      BY <2>1, <2>2
    <2>4. adds' \in 0..MaxAdds /\ UNCHANGED <<validated, used_tokens>>
      BY <1>3, MaxAddsAssumption DEF add_promo_code
    <2> QED
      BY <2>3, <2>4
  <1>4. ASSUME NEW c \in Codes, Expire(c) PROVE PromoTypeOK'
    <2>1. codes[c] \in Code /\ [codes[c] EXCEPT !.expires_at = "past"] \in Code
      BY <1>4 DEF Expire
    <2>2. codes' \in [DOMAIN codes -> Code] /\ DOMAIN codes' = DOMAIN codes
      BY <1>4, <2>1 DEF Expire
    <2> QED
      BY <1>4, <2>2 DEF Expire
  <1>5. CASE UNCHANGED promoVars
    BY <1>5 DEF promoVars
  <1> QED
    BY <1>1, <1>2, <1>3, <1>4, <1>5 DEF PromoNext

(* The tables of PromoManager keep their shape, and a use that has been    *)
(* validated is always counted against a code that is there, however       *)
(* use_code, add_promo_code and the clock interleave.                      *)
THEOREM PromoTypeCorrect == PromoSpec => []PromoTypeOK
  <1>1. PromoInit => PromoTypeOK
    BY InitTypeOK
  <1>2. PromoTypeOK /\ [PromoNext]_promoVars => PromoTypeOK'
    BY NextTypeOK
  <1> QED
    BY <1>1, <1>2, PTL DEF PromoSpec

-----------------------------------------------------------------------------
(* Over-issue *)

\* A use is validated: no other code's pending uses change.
LEMMA ValidateBounded ==
    ASSUME PromoTypeOK, OverIssueBounded,
           NEW u \in Users, NEW c \in Codes, Validate(u, c)
    PROVE  OverIssueBounded'
  <1> USE DEF PromoTypeOK, OverIssueBounded
  <1>1. codes' = codes /\ validated' = [validated EXCEPT ![u] = c] /\ validated[u] = None
    BY DEF Validate
  <1>2. c \in DOMAIN codes /\ codes[c].used < codes[c].max
    BY DEF Validate, validate_code
  <1>3. codes[c].used \in Nat /\ codes[c].max \in Nat
    BY <1>2, MaxUsesAssumption
  <1>4. ASSUME NEW x \in DOMAIN codes
        PROVE  codes[x].used + Cardinality(Pending(x)') < codes[x].max + Cardinality(Users)
    <2>1. CASE x = c
      <3>1. Pending(c)' \subseteq Users
        BY DEF Pending
      <3>2. Cardinality(Pending(c)') <= Cardinality(Users)
            /\ Cardinality(Pending(c)') \in Nat /\ Cardinality(Users) \in Nat
        BY <3>1, UsersAssumption, FS_Subset, FS_CardinalityType
      <3> QED
        BY <2>1, <3>2, <1>2, <1>3
    <2>2. CASE x # c
      <3>1. x # None
        BY NoneAssumption
      <3>2. Pending(x)' = Pending(x)
        BY <1>1, <2>2, <3>1 DEF Pending
      <3> QED
        BY <3>2
    <2> QED
      BY <2>1, <2>2
  <1> QED
    BY <1>1, <1>4

\* A use is counted: it is one more use and one pending use less.
LEMMA CountUseBounded ==
    ASSUME PromoTypeOK, OverIssueBounded, NEW u \in Users, CountUse(u)
    PROVE  OverIssueBounded'
  <1> USE DEF PromoTypeOK, OverIssueBounded
  <1>0. PICK v : v = validated[u]
    OBVIOUS
  <1>1. v \in DOMAIN codes /\ v # None
    BY <1>0 DEF CountUse
  <1>2. DOMAIN codes' = DOMAIN codes /\ validated' = [validated EXCEPT ![u] = None]
    BY DEF CountUse
  <1>3. /\ codes'[v] = [codes[v] EXCEPT !.used = @ + 1]
        /\ \A x \in DOMAIN codes \ {v} : codes'[x] = codes[x]
    BY <1>0, <1>1 DEF CountUse
  <1>4. /\ codes[v] \in [max : MaxUses, used : Nat, expires_at : {"never", "later", "past"}]
        /\ codes[v].used \in Nat /\ codes[v].max \in Nat
    BY <1>1, MaxUsesAssumption
  <1>5. codes'[v].used = codes[v].used + 1 /\ codes'[v].max = codes[v].max
    BY <1>3, <1>4
  <1>6. ASSUME NEW x \in DOMAIN codes
        PROVE  codes'[x].used + Cardinality(Pending(x)') < codes'[x].max + Cardinality(Users)
    <2>1. CASE x = v
      <3>1. u \in Pending(v) /\ Pending(v)' = Pending(v) \ {u}
        BY <1>0, <1>1, <1>2 DEF Pending
      <3>2. Cardinality(Pending(v)') = Cardinality(Pending(v)) - 1
        BY <3>1, PendingFinite, FS_RemoveElement
      <3>3. codes[v].used + Cardinality(Pending(v)) < codes[v].max + Cardinality(Users)
        BY <1>1
      <3>4. Cardinality(Pending(v)) \in Nat /\ Cardinality(Users) \in Nat
        BY PendingFinite
      <3>5. codes'[v].used + Cardinality(Pending(v)') < codes'[v].max + Cardinality(Users)
        BY <3>2, <3>3, <3>4, <1>4, <1>5
      <3> QED
        BY <2>1, <3>5
    <2>2. CASE x # v
      <3>1. x # None
        BY NoneAssumption
      <3>2. Pending(x)' = Pending(x)
        BY <1>0, <1>2, <2>2, <3>1 DEF Pending
      <3> QED
        BY <3>2, <2>2, <1>3
    <2> QED
      BY <2>1, <2>2
  <1> QED
    BY <1>2, <1>6

\* A code starts again from no uses; the pending ones are at most as many as users.
LEMMA AddBounded ==
    ASSUME PromoTypeOK, OverIssueBounded, NEW c \in Codes, add_promo_code(c)
    PROVE  OverIssueBounded'
  <1>1. PICK p \in Fresh({"never", "later"}) :
            codes' = [x \in DOMAIN codes \cup {c} |-> IF x = c THEN p ELSE codes[x]]
    BY DEF add_promo_code
  <1>2. p.used = 0 /\ p.max \in Nat /\ p.max > 0
    BY FreshCode
  <1>3. ASSUME NEW x PROVE Pending(x)' = Pending(x)
    BY DEF add_promo_code, Pending
  <1>4. 0 + Cardinality(Pending(c)) < p.max + Cardinality(Users)
    BY <1>2, PendingFinite
  <1> QED
    BY <1>1, <1>2, <1>3, <1>4, CodeAdded DEF OverIssueBounded

\* The clock changes no count.
LEMMA ExpireBounded ==
    ASSUME PromoTypeOK, OverIssueBounded, NEW c \in Codes, Expire(c)
    PROVE  OverIssueBounded'
  <1>1. DOMAIN codes' = DOMAIN codes
    BY DEF Expire
  <1>2. \A x \in DOMAIN codes :
            codes'[x].used = codes[x].used /\ codes'[x].max = codes[x].max
    BY DEF Expire, PromoTypeOK
  <1>3. ASSUME NEW x PROVE Pending(x)' = Pending(x)
    BY DEF Expire, Pending
  <1> QED
    BY <1>1, <1>2, <1>3 DEF OverIssueBounded

\* No use has been validated or counted at the start.
LEMMA InitBounded == PromoInit => OverIssueBounded
  <1> SUFFICES ASSUME PromoInit, NEW c \in DOMAIN codes
               PROVE  codes[c].used + Cardinality(Pending(c))
                          < codes[c].max + Cardinality(Users)
    BY DEF OverIssueBounded
  <1>1. codes[c] \in Fresh({"never"})
    BY DEF PromoInit
  <1>2. codes[c].used = 0 /\ codes[c].max \in Nat /\ codes[c].max > 0
    BY <1>1, FreshCode
  <1> QED
    BY <1>2, PendingFinite

(* However many users redeem a code at once, and whenever it is replaced,  *)
(* fewer uses than there are users go past its max_uses: a use that is     *)
(* validated found room then, and only the uses validated with it can take *)
(* that room before it is counted.                                         *)
THEOREM OverIssueAlwaysBounded == PromoSpec => []OverIssueBounded
  <1>1. PromoTypeOK /\ OverIssueBounded /\ [PromoNext]_promoVars => OverIssueBounded'
    <2> SUFFICES ASSUME PromoTypeOK, OverIssueBounded, [PromoNext]_promoVars
                 PROVE  OverIssueBounded'
      OBVIOUS
    <2>1. CASE UNCHANGED promoVars
      BY <2>1 DEF promoVars, OverIssueBounded, Pending
    <2> QED
      BY <2>1, ValidateBounded, CountUseBounded, AddBounded, ExpireBounded DEF PromoNext
  <1> QED
    BY <1>1, InitBounded, PromoTypeCorrect, PTL DEF PromoSpec

-----------------------------------------------------------------------------
(* HMAC keys *)

\* A cast to KidSpace values leaves what fits as it is.
LEMMA Cast ==
    ASSUME NEW n \in Nat
    PROVE  /\ n % KidSpace \in 0..KidSpace-1
           /\ n < KidSpace => n % KidSpace = n
  BY KidSpaceAssumption

\* Vec::remove takes one key out and keeps the keys in front of it in place.
LEMMA Removed ==
    ASSUME NEW K, NEW keys \in Seq(K), NEW kid \in Nat, kid < Len(keys)
    PROVE  /\ Without(keys, kid) \in Seq(K)
           /\ Len(Without(keys, kid)) = Len(keys) - 1
  <1>1. Len(keys) \in Nat /\ Len(keys) - 1 \in Nat
    BY LenProperties
  <1>2. ASSUME NEW i \in 1..Len(keys)-1 PROVE Without(keys, kid)[i] \in K
    BY <1>1, <1>2, ElementOfSeq DEF Without
  <1>3. Without(keys, kid) \in [1..Len(keys)-1 -> K]
    BY <1>2 DEF Without
  <1> QED
    BY <1>1, <1>3, IsASeq, LenProperties

-----------------------------------------------------------------------------
(* Removal never moves another key to the place of active_kid: the key in  *)
(* that place is the last of the vector, or there is none.                 *)
ActiveLast ==
    \/ wrapped
    \/ shifted /\ active_kid >= Len(hmac_keys)
    \/ ~shifted /\ active_kid + 1 = Len(hmac_keys) /\ hmac_keys[active_kid + 1] = newest

KInv == KeysTypeOK /\ ActiveLast

\* The first key is the last and the newest.
LEMMA InitKInv == KeysInit => KInv
  <1> SUFFICES ASSUME KeysInit PROVE KInv
    OBVIOUS
  <1>1. hmac_keys \in Seq(1..newest) /\ Len(hmac_keys) = 1 /\ hmac_keys[1] = 1
    BY DEF KeysInit
  <1>2. active_kid = 0 /\ 0 \in 0..KidSpace-1
    BY KidSpaceAssumption DEF KeysInit
  <1>3. newest = 1 /\ wrapped = FALSE /\ shifted = FALSE
    BY DEF KeysInit
  <1>4. KeysTypeOK
    <2>1. newest \in Nat \ {0}
      BY <1>3, SMT
    <2>2. wrapped \in BOOLEAN /\ shifted \in BOOLEAN
      BY <1>3, Zenon
    <2>3. active_kid \in 0..KidSpace-1
      BY <1>2
    <2>4. hmac_keys \in Seq(1..newest)
      BY <1>1
    <2> QED
      BY <2>1, <2>2, <2>3, <2>4, Zenon DEF KeysTypeOK
  <1>5. active_kid + 1 = Len(hmac_keys) /\ hmac_keys[active_kid + 1] = newest
    BY <1>1, <1>2, <1>3
  <1> QED
    BY <1>3, <1>4, <1>5 DEF KInv, ActiveLast

\* A rotation makes the key it pushes the active one, unless the cast wraps.
LEMMA RotateKInv ==
    ASSUME KInv, rotate_hmac_key
    PROVE  KInv'
  <1> USE DEF KInv, KeysTypeOK
  <1>1. /\ hmac_keys' = Append(hmac_keys, newest + 1) /\ newest' = newest + 1
        /\ active_kid' = Len(hmac_keys) % KidSpace
        /\ wrapped' = (Len(hmac_keys) >= KidSpace) /\ shifted' = FALSE
    BY DEF rotate_hmac_key
  <1>2. Len(hmac_keys) \in Nat
    BY LenProperties
  <1>3. hmac_keys \in Seq(1..newest') /\ newest' \in 1..newest' /\ newest' \in Nat \ {0}
    <2>1. 1..newest \subseteq 1..newest'
      BY <1>1
    <2> QED
      BY <1>1, <2>1
  <1>4. /\ hmac_keys' \in Seq(1..newest')
        /\ Len(hmac_keys') = Len(hmac_keys) + 1
        /\ hmac_keys'[Len(hmac_keys) + 1] = newest'
    BY <1>1, <1>2, <1>3, AppendProperties
  <1>5. KeysTypeOK'
    <2>1. active_kid' \in 0..KidSpace-1
      BY <1>1, <1>2, Cast
    <2>2. wrapped' \in BOOLEAN
      BY <1>1
    <2>3. shifted' \in BOOLEAN
      BY <1>1, Zenon
    <2> QED
      BY <1>3, <1>4, <2>1, <2>2, <2>3
  <1>6. CASE Len(hmac_keys) >= KidSpace
    BY <1>1, <1>5, <1>6 DEF ActiveLast
  <1>7. CASE ~(Len(hmac_keys) >= KidSpace)
    <2>1. active_kid' = Len(hmac_keys)
      BY <1>1, <1>2, <1>7, Cast, KidSpaceAssumption
    <2> QED
      BY <1>1, <1>2, <1>4, <1>5, <2>1 DEF ActiveLast
  <1> QED
    BY <1>6, <1>7

\* A removal shortens the vector, so that active_kid is last or out of range.
LEMMA RemoveKInv ==
    ASSUME KInv, NEW kid \in 0..KidSpace-1, remove_hmac_key(kid)
    PROVE  KInv'
  <1> USE DEF KInv, KeysTypeOK
  <1>1. /\ kid < Len(hmac_keys) /\ kid # active_kid
        /\ hmac_keys' = Without(hmac_keys, kid)
        /\ shifted' = TRUE /\ UNCHANGED <<active_kid, newest, wrapped>>
    BY DEF remove_hmac_key
  <1>2. kid \in Nat /\ active_kid \in Nat /\ Len(hmac_keys) \in Nat
    BY KidSpaceAssumption, LenProperties
  <1>3. hmac_keys' \in Seq(1..newest) /\ Len(hmac_keys') = Len(hmac_keys) - 1
    BY <1>1, <1>2, Removed
  <1>4. KeysTypeOK'
    BY <1>1, <1>3
  <1>5. wrapped \/ active_kid + 1 >= Len(hmac_keys)
    BY <1>2 DEF ActiveLast
  <1>6. wrapped \/ active_kid >= Len(hmac_keys')
    BY <1>2, <1>3, <1>5
  <1> QED
    BY <1>1, <1>4, <1>6 DEF ActiveLast

\* Rotation and removal keep the invariant.
LEMMA NextKInv == KInv /\ [KeysNext]_keyVars => KInv'
  <1>1. KInv /\ UNCHANGED keyVars => KInv'
    BY DEF KInv, KeysTypeOK, ActiveLast, keyVars
  <1> QED
    BY <1>1, RotateKInv, RemoveKInv DEF KeysNext

(* The vector holds keys that have come, and active_kid fits its byte, for *)
(* every sequence of rotations and removals.                               *)
THEOREM KeysTypeCorrect == KeysSpec => []KeysTypeOK
  <1>1. KInv => KeysTypeOK
    BY DEF KInv
  <1> QED
    BY <1>1, InitKInv, NextKInv, PTL DEF KeysSpec

(* Until active_kid wraps the newest key signs, and after a removal none:  *)
(* a rotation makes the newest key the last one, and removing a key in     *)
(* front of it leaves active_kid past the end of the vector rather than on *)
(* another key (rotate_hmac_key and remove_hmac_key, auth.rs).             *)
THEOREM NewestAlone == KeysSpec => []OnlyNewestSigns
  <1>1. KInv => OnlyNewestSigns
    <2> SUFFICES ASSUME KInv, ~wrapped PROVE OnlyNewestSigns
      BY DEF OnlyNewestSigns
    <2>1. Len(hmac_keys) \in Nat /\ active_kid \in Nat
      BY LenProperties, KidSpaceAssumption DEF KInv, KeysTypeOK
    <2>2. CASE shifted
      BY <2>1, <2>2 DEF KInv, ActiveLast, SignsWith, OnlyNewestSigns
    <2>3. CASE ~shifted
      BY <2>1, <2>3 DEF KInv, ActiveLast, SignsWith, OnlyNewestSigns
    <2> QED
      BY <2>2, <2>3
  <1> QED
    BY <1>1, InitKInv, NextKInv, PTL DEF KeysSpec

-----------------------------------------------------------------------------
(* All of them *)

(* Side by side, no component disturbs another: every behaviour of the     *)
(* five together is one of the replay window, of the bucket, of the        *)
(* limiter, of PromoManager and of AuthManager, so what is proved of each  *)
(* of them holds of all together.                                          *)
THEOREM SideBySide ==
    GuardsSpec => Spec /\ BucketSpec /\ LimiterSpec /\ PromoSpec /\ KeysSpec
  <1>1. GuardsInit => Init /\ BucketInit /\ LimiterInit /\ PromoInit /\ KeysInit
    BY DEF GuardsInit
  <1>2. [GuardsNext]_guardVars =>
            /\ [Next]_vars /\ [BucketNext]_bucketVars /\ [LimiterNext]_limiterVars
            /\ [PromoNext]_promoVars /\ [KeysNext]_keyVars
    BY DEF GuardsNext, ReplayStep, BucketStep, LimiterStep, PromoStep, KeysStep,
           guardVars, replayVars
  <1> QED
    BY <1>1, <1>2, PTL DEF GuardsSpec, Spec, BucketSpec, LimiterSpec, PromoSpec, KeysSpec
-----------------------------------------------------------------------------
(* The bucket: its inductive invariant *)

BucketTyped ==
    /\ tokens \in 0..Capacity
    /\ age \in Nat /\ elapsed \in Nat /\ granted \in Nat
    /\ task \in [Tasks -> [step : {"idle", "trying", "refilling", "taking", "sleeping"},
                           chunk : Nat, now : Nat, secs : Nat, todo : Nat]]

\* Who refills holds the mutex of last_refill.
Excluded == \A t \in Tasks : task[t].step = "refilling" => holder = t

\* What was granted and what is left were paid for by the time of last_refill, and
\* what a refill under way is about to add, by its clock reading.
Paid ==
    elapsed < Horizon =>
        /\ age <= elapsed
        /\ granted + tokens <= Capacity + Rate * ((elapsed - age) \div Second)
        /\ \A t \in Tasks : task[t].step = "refilling" =>
              /\ task[t].now <= elapsed
              /\ granted + tokens + Rate * task[t].secs
                    <= Capacity + Rate * ((elapsed - task[t].now) \div Second)

BucketInv == BucketTyped /\ Excluded /\ Paid

-----------------------------------------------------------------------------
(* Whole seconds.  What refill counts is rounded down, so what two spans   *)
(* are paid apart is no more than what they are paid as one.               *)

LEMMA DivFacts ==
    ASSUME NEW x \in Nat, NEW s \in Nat \ {0}
    PROVE  x \div s \in Nat /\ s * (x \div s) <= x /\ x < s * (x \div s) + s
  OBVIOUS

LEMMA DivLeast ==
    ASSUME NEW q \in Nat, NEW p \in Nat, NEW s \in Nat \ {0}, s * q < s * p + s
    PROVE  q <= p
  <1>1. ASSUME q >= p + 1 PROVE FALSE
    <2>1. s * q >= s * (p + 1)
      BY <1>1
    <2>2. s * (p + 1) = s * p + s
      OBVIOUS
    <2> QED
      BY <2>1, <2>2
  <1> QED
    BY <1>1

LEMMA DivMonotone ==
    ASSUME NEW x \in Nat, NEW y \in Nat, x <= y, NEW s \in Nat \ {0}
    PROVE  x \div s <= y \div s
  <1> DEFINE a == s * (x \div s)
             b == s * (y \div s)
  <1>1. a <= x /\ y < b + s /\ a \in Int /\ b \in Int
    BY DivFacts
  <1>2. a < b + s
    <2> HIDE DEF a, b
    <2> QED
      BY <1>1
  <1> QED
    BY <1>2, DivFacts, DivLeast

LEMMA DivSum ==
    ASSUME NEW x \in Nat, NEW y \in Nat, NEW s \in Nat \ {0}
    PROVE  (x \div s) + (y \div s) <= (x + y) \div s
  <1> DEFINE a == x \div s
             b == y \div s
             c == (x + y) \div s
  <1>1. a \in Nat /\ b \in Nat /\ c \in Nat
    BY DivFacts
  <1>2. s * a <= x /\ s * b <= y /\ x + y < s * c + s
    BY DivFacts
  <1> HIDE DEF a, b, c
  <1>3. s * (a + b) = s * a + s * b /\ s * a \in Int /\ s * b \in Int /\ s * c \in Int
    BY <1>1
  <1>4. s * (a + b) < s * c + s
    BY <1>2, <1>3
  <1> QED
    BY <1>1, <1>4, DivLeast DEF a, b, c

\* Tokens for the whole seconds of x.
Earned(x) == Rate * (x \div Second)

LEMMA EarnedFacts ==
    ASSUME NEW x \in Nat, NEW y \in Nat
    PROVE  /\ Earned(x) \in Nat
           /\ x <= y => Earned(x) <= Earned(y)
           /\ Earned(x) + Earned(y) <= Earned(x + y)
  <1> DEFINE a == x \div Second
             b == y \div Second
             c == (x + y) \div Second
  <1>1. a \in Nat /\ b \in Nat /\ c \in Nat /\ Rate \in Nat
    BY DivFacts, BucketAssumption
  <1>2. (x <= y => a <= b) /\ a + b <= c
    BY DivMonotone, DivSum, BucketAssumption
  <1> HIDE DEF a, b, c
  <1>3. Rate * a \in Nat /\ Rate * a + Rate * b = Rate * (a + b)
    BY <1>1
  <1>4. ASSUME NEW m \in Nat, NEW n \in Nat, m <= n PROVE Rate * m <= Rate * n
    BY <1>1, <1>4
  <1>5. (x <= y => Rate * a <= Rate * b) /\ Rate * (a + b) <= Rate * c
    BY <1>1, <1>2, <1>4
  <1> QED
    BY <1>1, <1>3, <1>5 DEF Earned, a, b, c

\* Paid, in these terms.
Account ==
    elapsed < Horizon =>
        /\ age <= elapsed
        /\ granted + tokens <= Capacity + Earned(elapsed - age)
        /\ \A t \in Tasks : task[t].step = "refilling" =>
              /\ task[t].now <= elapsed
              /\ granted + tokens + Rate * task[t].secs <= Capacity + Earned(elapsed - task[t].now)

LEMMA AccountIsPaid == Paid <=> Account
  BY DEF Paid, Account, Earned

-----------------------------------------------------------------------------
(* The bucket: every step keeps the invariant *)

LEMMA BucketStarts == BucketInit => BucketInv
  <1> SUFFICES ASSUME BucketInit PROVE BucketInv
    OBVIOUS
  <1>1. BucketTyped
    <2>1. task \in [Tasks -> [step : {"idle", "trying", "refilling", "taking", "sleeping"},
                              chunk : Nat, now : Nat, secs : Nat, todo : Nat]]
      BY BucketAssumption DEF BucketInit
    <2> QED
      BY <2>1, BucketAssumption DEF BucketInit, BucketTyped
  <1>2. \A t \in Tasks : task[t].step # "refilling"
    BY DEF BucketInit
  <1>3. Account
    <2>1. Earned(0) \in Nat /\ Capacity \in Nat
      BY EarnedFacts, BucketAssumption
    <2> QED
      BY <1>2, <2>1 DEF Account, BucketInit
  <1> QED
    BY <1>1, <1>2, <1>3, AccountIsPaid DEF BucketInv, Excluded

LEMMA BucketTypes == BucketInv =>
    /\ Rate \in Nat /\ Capacity \in Nat /\ Second \in Nat \ {0} /\ tokens \in Nat
    /\ age \in Nat /\ elapsed \in Nat /\ granted \in Nat
    /\ \A t \in Tasks : task[t].now \in Nat /\ task[t].secs \in Nat /\ task[t].chunk \in Nat
  <1> SUFFICES ASSUME BucketInv
               PROVE  /\ Rate \in Nat /\ Capacity \in Nat /\ Second \in Nat \ {0} /\ tokens \in Nat
                      /\ age \in Nat /\ elapsed \in Nat /\ granted \in Nat
                      /\ \A t \in Tasks : task[t].now \in Nat /\ task[t].secs \in Nat
                                          /\ task[t].chunk \in Nat
    OBVIOUS
  <1>1. \A n \in 0..Capacity : n \in Nat
    BY BucketAssumption
  <1> QED
    BY <1>1, BucketAssumption DEF BucketInv, BucketTyped

\* Steps of a relay that leave the tokens and the clock alone and start no refill:
\* a chunk arrives, a try fails, a sleep ends, a try comes within the second.
LEMMA QuietKeeps ==
    ASSUME BucketInv, NEW t \in Tasks, task[t].step # "refilling",
           BucketTyped',
           task'[t].step # "refilling",
           \A u \in Tasks \ {t} : task'[u] = task[u],
           granted' + tokens' = granted + tokens,
           UNCHANGED <<age, holder, elapsed>>
    PROVE  BucketInv'
  <1>1. Excluded'
    BY DEF BucketInv, Excluded
  <1>2. \A u \in Tasks : task'[u].step = "refilling" =>
            task'[u] = task[u] /\ task[u].step = "refilling"
    OBVIOUS
  <1>3. Account'
    BY <1>2, AccountIsPaid DEF BucketInv, Account, Earned
  <1> QED
    BY <1>1, <1>3, AccountIsPaid DEF BucketInv, Paid, Account, Earned

LEMMA ArriveKeeps ==
    ASSUME BucketInv, NEW t \in Tasks, NEW n \in Chunks, Arrive(t, n) PROVE BucketInv'
  <1>1. /\ task'[t].step = "trying" /\ task[t].step = "idle"
        /\ \A u \in Tasks \ {t} : task'[u] = task[u]
    BY DEF BucketInv, BucketTyped, Arrive
  <1>2. BucketTyped'
    <2>1. n \in Nat
      BY BucketAssumption
    <2>2. task[t].todo - 1 \in Nat
      <3>1. task[t].todo \in Nat /\ task[t].todo > 0
        BY DEF BucketInv, BucketTyped, Arrive
      <3> QED
        BY <3>1
    <2>3. task' = [task EXCEPT ![t] = [task[t] EXCEPT !.step = "trying", !.chunk = n,
                                                      !.todo = task[t].todo - 1]]
      BY DEF Arrive, BucketInv, BucketTyped
    <2>4. task' \in [Tasks -> [step : {"idle", "trying", "refilling", "taking", "sleeping"},
                               chunk : Nat, now : Nat, secs : Nat, todo : Nat]]
      BY <2>1, <2>2, <2>3 DEF BucketInv, BucketTyped
    <2> QED
      BY <2>4 DEF BucketInv, BucketTyped, Arrive
  <1>3. granted' + tokens' = granted + tokens
    BY DEF Arrive
  <1> QED
    BY <1>1, <1>2, <1>3, QuietKeeps DEF Arrive

\* A task that goes on to another step.
LEMMA GoFacts ==
    ASSUME BucketInv, NEW t \in Tasks, NEW s \in {"idle", "trying", "taking", "sleeping"}, Go(t, s)
    PROVE  /\ task' \in [Tasks -> [step : {"idle", "trying", "refilling", "taking", "sleeping"},
                                   chunk : Nat, now : Nat, secs : Nat, todo : Nat]]
           /\ task'[t].step = s /\ task'[t].step # "refilling"
           /\ \A u \in Tasks \ {t} : task'[u] = task[u]
  BY DEF Go, BucketInv, BucketTyped

LEMMA ShortKeeps == ASSUME BucketInv, NEW t \in Tasks, Short(t) PROVE BucketInv'
  <1>1. Go(t, "sleeping") /\ UNCHANGED <<tokens, age, holder, granted, elapsed>>
    BY DEF Short
  <1>2. BucketTyped'
    BY <1>1, GoFacts DEF BucketInv, BucketTyped
  <1>3. task[t].step # "refilling" /\ granted' + tokens' = granted + tokens
    BY <1>1 DEF Short
  <1> QED
    BY <1>1, <1>2, <1>3, GoFacts, QuietKeeps

LEMMA WakeKeeps == ASSUME BucketInv, NEW t \in Tasks, Wake(t) PROVE BucketInv'
  <1>1. Go(t, "trying") /\ UNCHANGED <<tokens, age, holder, granted, elapsed>>
    BY DEF Wake
  <1>2. BucketTyped'
    BY <1>1, GoFacts DEF BucketInv, BucketTyped
  <1>3. task[t].step # "refilling" /\ granted' + tokens' = granted + tokens
    BY <1>1 DEF Wake
  <1> QED
    BY <1>1, <1>2, <1>3, GoFacts, QuietKeeps

LEMMA TakeKeeps == ASSUME BucketInv, NEW t \in Tasks, Take(t) PROVE BucketInv'
  <1>1. /\ Go(t, "idle") /\ UNCHANGED <<age, holder, elapsed>>
        /\ tokens >= task[t].chunk /\ tokens' = tokens - task[t].chunk
        /\ granted' = granted + task[t].chunk
    BY DEF Take
  <1>t. tokens \in 0..Capacity /\ task[t].chunk \in Nat /\ granted \in Nat /\ Capacity \in Nat
    BY BucketTypes DEF BucketInv, BucketTyped
  <1>2. tokens' \in 0..Capacity /\ granted' \in Nat /\ granted' + tokens' = granted + tokens
    BY <1>1, <1>t
  <1>3. BucketTyped'
    BY <1>1, <1>2, GoFacts DEF BucketInv, BucketTyped
  <1>4. task[t].step # "refilling"
    BY DEF Take
  <1> QED
    BY <1>1, <1>2, <1>3, <1>4, GoFacts, QuietKeeps

(* refill up to the clock reading: the mutex is free, so no other refill   *)
(* is under way, and age is paid for from last_refill on.                  *)
LEMMA LockKeeps == ASSUME BucketInv, NEW t \in Tasks, Lock(t) PROVE BucketInv'
  <1>1. /\ task[t].step = "trying" /\ holder = "free"
        /\ UNCHANGED <<tokens, age, granted, elapsed>>
    BY DEF Lock
  <1>2. CASE age >= Second
    <2>1. /\ holder' = t
          /\ task' = [task EXCEPT ![t] = [task[t] EXCEPT !.step = "refilling", !.now = 0,
                                                         !.secs = age \div Second]]
      BY <1>2 DEF Lock, StartRefill, BucketInv, BucketTyped
    <2>2. age \div Second \in Nat
      BY BucketTypes, DivFacts
    <2>3. BucketTyped'
      <3>1. task' \in [Tasks -> [step : {"idle", "trying", "refilling", "taking", "sleeping"},
                                 chunk : Nat, now : Nat, secs : Nat, todo : Nat]]
        BY <2>1, <2>2 DEF BucketInv, BucketTyped
      <3> QED
        BY <1>1, <3>1 DEF BucketInv, BucketTyped
    <2>4. \A u \in Tasks : task[u].step # "refilling"
      BY <1>1, BucketAssumption DEF BucketInv, Excluded
    <2>5. /\ \A u \in Tasks : task'[u].step = "refilling" => u = t
          /\ task'[t].now = 0 /\ task'[t].secs = age \div Second
      BY <2>1, <2>4 DEF BucketInv, BucketTyped
    <2>6. Excluded'
      BY <2>1, <2>5 DEF Excluded
    <2>7. ASSUME elapsed < Horizon
          PROVE  /\ age <= elapsed
                 /\ granted + tokens <= Capacity + Earned(elapsed - age)
                 /\ 0 <= elapsed
                 /\ granted + tokens + Earned(age) <= Capacity + Earned(elapsed - 0)
      <3>1. age <= elapsed /\ granted + tokens <= Capacity + Earned(elapsed - age)
        BY <2>7, AccountIsPaid DEF BucketInv, Account
      <3>2. elapsed - age \in Nat /\ age \in Nat /\ (elapsed - age) + age = elapsed - 0
            /\ granted + tokens \in Nat /\ Capacity \in Nat /\ 0 <= elapsed
        BY <3>1, BucketTypes
      <3> DEFINE x == elapsed - age
                 e == elapsed - 0
      <3> HIDE DEF x, e
      <3>3. Earned(x) \in Nat /\ Earned(age) \in Nat /\ Earned(x) + Earned(age) <= Earned(x + age)
        BY <3>2, EarnedFacts DEF x
      <3>4. x + age = e /\ Earned(e) \in Nat
        BY <3>2, BucketTypes, EarnedFacts DEF x, e
      <3>5. Earned(x) + Earned(age) <= Earned(e)
        BY <3>3, <3>4
      <3>6. granted + tokens + Earned(age) <= Capacity + Earned(e)
        BY <3>1, <3>2, <3>3, <3>4, <3>5 DEF x
      <3> QED
        BY <3>1, <3>2, <3>6 DEF e
    <2>8. Account'
      BY <1>1, <2>5, <2>7 DEF Account, Earned
    <2> QED
      BY <2>3, <2>6, <2>8, AccountIsPaid DEF BucketInv, Paid, Account, Earned
  <1>3. CASE ~(age >= Second)
    <2>1. Go(t, "taking") /\ holder' = holder
      BY <1>3 DEF Lock
    <2>2. BucketTyped'
      BY <1>1, <2>1, GoFacts DEF BucketInv, BucketTyped
    <2>3. granted' + tokens' = granted + tokens
      BY <1>1
    <2> QED
      BY <1>1, <2>1, <2>2, <2>3, GoFacts, QuietKeeps
  <1> QED
    BY <1>2, <1>3

(* The rest of refill: last_refill becomes the clock reading that the      *)
(* tokens were counted up to.                                              *)
LEMMA RefillKeeps == ASSUME BucketInv, NEW t \in Tasks, Refill(t) PROVE BucketInv'
  <1> DEFINE more == tokens + Rate * task[t].secs
  <1>1. /\ task[t].step = "refilling" /\ tokens' = Lesser(more, Capacity)
        /\ age' = task[t].now /\ granted' = granted /\ elapsed' = elapsed
        /\ task' = [task EXCEPT ![t] = [task[t] EXCEPT !.step = "taking", !.now = 0, !.secs = 0]]
    BY DEF Refill, BucketInv, BucketTyped
  <1>2. task[t].now \in Nat /\ task[t].secs \in Nat /\ Rate \in Nat /\ tokens \in Nat
        /\ Capacity \in Nat /\ granted \in Nat /\ elapsed \in Nat
    BY BucketTypes
  <1>3. Rate * task[t].secs \in Nat /\ more \in Nat
    BY <1>2
  <1>4. tokens' \in 0..Capacity /\ tokens' <= more
    <2> HIDE DEF more
    <2> QED
      BY <1>1, <1>2, <1>3 DEF Lesser
  <1>5. BucketTyped'
    <2>1. task' \in [Tasks -> [step : {"idle", "trying", "refilling", "taking", "sleeping"},
                               chunk : Nat, now : Nat, secs : Nat, todo : Nat]]
      BY <1>1 DEF BucketInv, BucketTyped
    <2> QED
      BY <1>1, <1>2, <1>4, <2>1 DEF BucketInv, BucketTyped
  <1>6. \A u \in Tasks : task'[u].step # "refilling"
    <2>1. \A u \in Tasks \ {t} : task[u].step # "refilling"
      BY <1>1 DEF BucketInv, Excluded
    <2> QED
      BY <1>1, <2>1 DEF BucketInv, BucketTyped
  <1>7. ASSUME elapsed < Horizon
        PROVE  task[t].now <= elapsed /\ granted + tokens' <= Capacity + Earned(elapsed - task[t].now)
    <2>1. /\ task[t].now <= elapsed
          /\ granted + tokens + Rate * task[t].secs <= Capacity + Earned(elapsed - task[t].now)
      BY <1>1, <1>7, AccountIsPaid DEF BucketInv, Account
    <2>2. elapsed - task[t].now \in Nat
      BY <1>2, <2>1
    <2>3. Earned(elapsed - task[t].now) \in Nat
      BY <2>2, EarnedFacts
    <2>4. granted + more = granted + tokens + Rate * task[t].secs
      BY <1>2, <1>3
    <2>5. granted + tokens' <= granted + more
      <3> HIDE DEF more
      <3>1. tokens' \in Int /\ more \in Int /\ granted \in Int /\ tokens' <= more
        BY <1>2, <1>3, <1>4
      <3>2. ASSUME NEW a \in Int, NEW b \in Int, NEW c \in Int, b <= c PROVE a + b <= a + c
        BY <3>2
      <3> QED
        BY <3>1, <3>2, Zenon
    <2> DEFINE e == Earned(elapsed - task[t].now)
    <2> HIDE DEF more, e
    <2>6. granted + more <= Capacity + e
      BY <2>1, <2>4 DEF e
    <2>7. granted + tokens' <= Capacity + e
      BY <1>2, <1>3, <1>4, <2>3, <2>5, <2>6 DEF e
    <2> QED
      BY <2>1, <2>7 DEF e
  <1>8. Account'
    BY <1>1, <1>6, <1>7 DEF Account, Earned
  <1> QED
    BY <1>5, <1>6, <1>8, AccountIsPaid DEF BucketInv, Excluded, Paid, Account, Earned

LEMMA BucketTickKeeps == BucketInv /\ BucketTick => BucketInv'
  <1> SUFFICES ASSUME BucketInv, BucketTick PROVE BucketInv'
    OBVIOUS
  <1>1. /\ age' = Lesser(age + 1, MaxAge) /\ elapsed' = Lesser(elapsed + 1, Horizon)
        /\ tokens' = tokens /\ holder' = holder /\ granted' = granted
    BY DEF BucketTick
  <1>2. \A t \in Tasks :
            task'[t] = IF task[t].step = "refilling"
                       THEN [task[t] EXCEPT !.now = task[t].now + 1] ELSE task[t]
    BY DEF BucketTick
  <1>3. BucketTyped'
    <2>1. task' \in [Tasks -> [step : {"idle", "trying", "refilling", "taking", "sleeping"},
                               chunk : Nat, now : Nat, secs : Nat, todo : Nat]]
      <3>1. task' = [t \in Tasks |-> task'[t]]
        BY DEF BucketTick
      <3>2. ASSUME NEW t \in Tasks
            PROVE  task'[t] \in [step : {"idle", "trying", "refilling", "taking", "sleeping"},
                                 chunk : Nat, now : Nat, secs : Nat, todo : Nat]
        <4>1. task[t] \in [step : {"idle", "trying", "refilling", "taking", "sleeping"},
                           chunk : Nat, now : Nat, secs : Nat, todo : Nat]
          BY DEF BucketInv, BucketTyped
        <4>2. task[t].now + 1 \in Nat
          BY <4>1
        <4>3. CASE task[t].step = "refilling"
          <5>1. task'[t] = [task[t] EXCEPT !.now = task[t].now + 1]
            BY <1>2, <4>3
          <5> QED
            BY <4>1, <4>2, <5>1
        <4>4. CASE task[t].step # "refilling"
          BY <1>2, <4>1, <4>4
        <4> QED
          BY <4>3, <4>4
      <3> QED
        BY <3>1, <3>2
    <2>2. age' \in Nat /\ elapsed' \in Nat
      BY <1>1, BucketTypes, BucketAssumption DEF Lesser
    <2> QED
      BY <1>1, <2>1, <2>2 DEF BucketInv, BucketTyped
  <1>4. \A t \in Tasks : task'[t].step = "refilling" =>
            /\ task[t].step = "refilling" /\ task'[t].secs = task[t].secs
            /\ task'[t].now = task[t].now + 1
    BY <1>2 DEF BucketInv, BucketTyped
  <1>5. Excluded'
    BY <1>1, <1>4 DEF BucketInv, Excluded
  <1>6. ASSUME elapsed' < Horizon
        PROVE  /\ elapsed < Horizon /\ elapsed' = elapsed + 1 /\ age' <= age + 1
               /\ age' \in Nat
    BY <1>1, <1>6, BucketTypes, BucketAssumption DEF Lesser
  <1>7. ASSUME elapsed' < Horizon
        PROVE  age' <= elapsed' /\ granted + tokens <= Capacity + Earned(elapsed' - age')
    <2>1. age <= elapsed /\ granted + tokens <= Capacity + Earned(elapsed - age)
      BY <1>6, <1>7, AccountIsPaid DEF BucketInv, Account
    <2> DEFINE x == elapsed - age
               y == elapsed' - age'
    <2>2. x \in Nat /\ y \in Nat /\ x <= y /\ age' <= elapsed'
      BY <1>6, <1>7, <2>1, BucketTypes
    <2> HIDE DEF x, y
    <2>3. Earned(x) \in Nat /\ Earned(y) \in Nat /\ Earned(x) <= Earned(y)
      BY <2>2, EarnedFacts
    <2>4. granted + tokens <= Capacity + Earned(y)
      BY <2>1, <2>3, BucketTypes DEF x
    <2> QED
      BY <2>2, <2>4 DEF y
  <1>8. ASSUME elapsed' < Horizon, NEW t \in Tasks, task'[t].step = "refilling"
        PROVE  /\ task'[t].now <= elapsed'
               /\ granted + tokens + Rate * task'[t].secs
                     <= Capacity + Earned(elapsed' - task'[t].now)
    <2>1. /\ task[t].now <= elapsed
          /\ granted + tokens + Rate * task[t].secs <= Capacity + Earned(elapsed - task[t].now)
      BY <1>4, <1>6, <1>8, AccountIsPaid DEF BucketInv, Account
    <2>2. elapsed' - task'[t].now = elapsed - task[t].now /\ task'[t].now <= elapsed'
      <3>1. task'[t].now = task[t].now + 1 /\ elapsed' = elapsed + 1
        BY <1>4, <1>6, <1>8
      <3>2. task[t].now \in Nat /\ elapsed \in Nat
        BY BucketTypes
      <3> QED
        BY ONLY <2>1, <3>1, <3>2
    <2> QED
      BY <1>4, <1>8, <2>1, <2>2
  <1>9. Account'
    BY <1>1, <1>7, <1>8 DEF Account, Earned
  <1> QED
    BY <1>3, <1>5, <1>9, AccountIsPaid DEF BucketInv, Paid, Account, Earned

(* All the relays of the client or of a connection of the gateway take     *)
(* turns at one bucket: the invariant holds however they do.               *)
THEOREM BucketInvariant == BucketSpec => []BucketInv
  <1>1. BucketInv /\ [BucketNext]_bucketVars => BucketInv'
    <2> SUFFICES ASSUME BucketInv, [BucketNext]_bucketVars PROVE BucketInv'
      OBVIOUS
    <2>1. CASE UNCHANGED bucketVars
      BY <2>1 DEF bucketVars, BucketInv, BucketTyped, Excluded, Paid
    <2>2. CASE BucketNext
      BY <2>2, ArriveKeeps, LockKeeps, RefillKeeps, TakeKeeps, ShortKeeps, WakeKeeps,
         BucketTickKeeps DEF BucketNext, Step
    <2> QED
      BY <2>1, <2>2
  <1> QED
    BY <1>1, BucketStarts, PTL DEF BucketSpec

(* However many relays race for the tokens, all of them together never get *)
(* more than a full bucket and Rate for every whole second, at any         *)
(* capacity, rate and resolution of the clock; the count of tokens neither *)
(* overflows the bucket nor falls below 0 (rate_limiter.rs).               *)
THEOREM RateKept == BucketSpec => []WithinRate
  <1>1. BucketInv => WithinRate
    <2> SUFFICES ASSUME BucketInv PROVE WithinRate
      OBVIOUS
    <2>1. tokens \in 0..Capacity
      BY DEF BucketInv, BucketTyped
    <2>2. ASSUME elapsed < Horizon PROVE granted + tokens <= Capacity + Earned(elapsed)
      <3>1. age <= elapsed /\ granted + tokens <= Capacity + Earned(elapsed - age)
        BY <2>2, AccountIsPaid DEF BucketInv, Account
      <3> DEFINE x == elapsed - age
      <3>2. x \in Nat /\ x <= elapsed
        BY <3>1, BucketTypes
      <3> HIDE DEF x
      <3>3. Earned(x) \in Nat /\ Earned(elapsed) \in Nat /\ Earned(x) <= Earned(elapsed)
        BY <3>2, BucketTypes, EarnedFacts
      <3> QED
        BY <3>1, <3>3, BucketTypes DEF x
    <2> QED
      BY <2>1, <2>2 DEF WithinRate, Earned
  <1> QED
    BY <1>1, BucketInvariant, PTL

-----------------------------------------------------------------------------
(* The limiter per address: its inductive invariant *)

\* The k-th age from the end of an entry, the newest connection being the first.
Newest(s, k) == s[Len(s) + 1 - k]

\* Oldest first, and no age is out of range.
InOrder(s) ==
    /\ s \in Seq(0..WindowSecs)
    /\ \A i, j \in 1..Len(s) : i <= j => s[i] >= s[j]

\* What the history of an address may be.
Past(h) ==
    /\ InOrder(h) /\ Len(h) <= MaxConns + 1
    /\ \A k \in 1..Len(h) : InWindow(h[k])

\* An entry is within the limit, and its connections of the last WindowSecs did happen.
Truthful(c, h) ==
    /\ InOrder(c) /\ Len(c) <= MaxConns
    /\ \A k \in 1..Len(c) : InWindow(Newest(c, k)) =>
          k <= Len(h) /\ Newest(h, k) = Newest(c, k)

\* An entry has all the connections of the last WindowSecs.
Complete(c, h) ==
    \A k \in 1..Len(h) : k <= Len(c) /\ Newest(c, k) = Newest(h, k)

\* An address that was not evicted has a complete entry.
Entered ==
    /\ connections \in [IPs -> Seq(0..WindowSecs)]
    /\ admitted \in [IPs -> Seq(0..WindowSecs)]
    /\ \A ip \in IPs :
          /\ Past(admitted[ip])
          /\ Truthful(connections[ip], admitted[ip])
          /\ ip \notin forgotten => Complete(connections[ip], admitted[ip])

Justly == refused # Nobody => refused \in IPs /\ Len(admitted[refused]) >= MaxConns

Small == IsFiniteSet(Entries) /\ Cardinality(Entries) <= MaxEntries + 1

LimiterInv == Entered /\ Justly /\ Small

-----------------------------------------------------------------------------
(* What has left the window, and what has not *)

LEMMA LeastOf ==
    ASSUME NEW T \in SUBSET Nat, T # {}
    PROVE  \E m \in T : \A k \in T : m <= k
  <1> DEFINE R == OpToRel(<, Nat)
  <1>1. IsWellFoundedOn(R, Nat)
    BY NatLessThanWellFounded
  <1>2. \A x, y \in Nat : x < y => <<x, y>> \in R
    BY DEF OpToRel
  <1> HIDE DEF R
  <1>3. PICK m \in T : \A k \in T : ~ (<<k, m>> \in R)
    BY <1>1, WFMin
  <1>4. \A x, y \in Nat : ~(x < y) => y <= x
    OBVIOUS
  <1>5. ASSUME NEW k \in T PROVE m <= k
    <2>1. k \in Nat /\ m \in Nat
      OBVIOUS
    <2>2. ~(k < m)
      BY <1>2, <1>3, <2>1, Zenon
    <2> QED
      BY <1>4, <2>1, <2>2, Zenon
  <1> QED
    BY <1>5, Zenon

\* The first n ages of s, and no others, have left the window.
Gone(s, n) == \A k \in 1..Len(s) : InWindow(s[k]) <=> k > n

LEMMA SomeAreGone == ASSUME NEW s, InOrder(s) PROVE \E n \in 0..Len(s) : Gone(s, n)
  <1> DEFINE T == {k \in 1..Len(s) : InWindow(s[k])}
  <1>1. s \in Seq(0..WindowSecs) /\ Len(s) \in Nat /\ WindowSecs \in Nat
    BY LimiterAssumption DEF InOrder
  <1>2. \A k \in 1..Len(s) : s[k] \in Nat
    BY <1>1
  <1>3. CASE T = {}
    <2>1. Gone(s, Len(s))
      BY <1>1, <1>3 DEF Gone
    <2> QED
      BY <1>1, <2>1
  <1>4. CASE T # {}
    <2>1. T \in SUBSET Nat
      OBVIOUS
    <2>2. PICK m \in T : \A k \in T : m <= k
      BY <1>4, <2>1, LeastOf
    <2>3. m \in 1..Len(s) /\ s[m] < WindowSecs
      BY <2>2 DEF InWindow
    <2>4. m - 1 \in 0..Len(s)
      BY <1>1, <2>3
    <2>5. ASSUME NEW k \in 1..Len(s), k > m - 1 PROVE InWindow(s[k])
      <3>1. m <= k
        BY <2>3, <2>5
      <3>2. s[m] >= s[k]
        BY <2>3, <3>1 DEF InOrder
      <3> QED
        BY <1>1, <1>2, <2>3, <3>2 DEF InWindow
    <2>6. ASSUME NEW k \in 1..Len(s), InWindow(s[k]) PROVE k > m - 1
      <3>1. m <= k
        BY <2>2, <2>6
      <3> QED
        BY <2>3, <3>1
    <2>7. Gone(s, m - 1)
      BY <2>5, <2>6 DEF Gone
    <2> QED
      BY <2>4, <2>7
  <1> QED
    BY <1>3, <1>4

(* retain: the connections in the window stay, as they were and in order.  *)
LEMMA RecentFacts ==
    ASSUME NEW s, InOrder(s)
    PROVE  /\ InOrder(Recent(s)) /\ Len(Recent(s)) <= Len(s)
           /\ \A k \in 1..Len(Recent(s)) :
                 InWindow(Recent(s)[k]) /\ Newest(Recent(s), k) = Newest(s, k)
           /\ \A k \in 1..Len(s) : InWindow(Newest(s, k)) => k <= Len(Recent(s))
  <1> DEFINE n == CHOOSE n \in 0..Len(s) : Gone(s, n)
             r == Recent(s)
  <1>1. n \in 0..Len(s) /\ Gone(s, n)
    BY SomeAreGone
  <1>2. r = [k \in 1..Len(s)-n |-> s[k + n]]
    BY DEF Recent, Gone
  <1> HIDE DEF n, r
  <1>3. s \in Seq(0..WindowSecs) /\ Len(s) \in Nat /\ n \in Nat /\ n <= Len(s)
    BY <1>1 DEF InOrder
  <1>4. \A k \in 1..Len(s)-n : k + n \in 1..Len(s) /\ k + n > n
    BY <1>3
  <1>5. \A k \in 1..Len(s)-n : r[k] = s[k + n] /\ r[k] \in 0..WindowSecs
    <2>1. \A k \in 1..Len(s)-n : r[k] = s[k + n]
      BY <1>2
    <2>2. \A i \in 1..Len(s) : s[i] \in 0..WindowSecs
      BY <1>3, ElementOfSeq
    <2> QED
      BY <1>4, <2>1, <2>2
  <1>6. r \in Seq(0..WindowSecs) /\ Len(r) = Len(s) - n
    BY <1>2, <1>3, <1>5
  <1>7. InOrder(r)
    <2>1. ASSUME NEW i \in 1..Len(r), NEW j \in 1..Len(r), i <= j PROVE r[i] >= r[j]
      <3>1. i + n \in 1..Len(s) /\ j + n \in 1..Len(s) /\ i + n <= j + n
        BY <1>3, <1>6, <2>1
      <3> QED
        BY <1>5, <1>6, <3>1 DEF InOrder
    <2> QED
      BY <1>6, <2>1 DEF InOrder
  <1>8. ASSUME NEW k \in 1..Len(r) PROVE InWindow(r[k]) /\ Newest(r, k) = Newest(s, k)
    <2>1. InWindow(r[k])
      BY <1>1, <1>4, <1>5, <1>6 DEF Gone
    <2>2. Len(r) + 1 - k \in 1..Len(s)-n /\ (Len(r) + 1 - k) + n = Len(s) + 1 - k
      BY <1>3, <1>6
    <2>3. r[Len(r) + 1 - k] = s[Len(s) + 1 - k]
      BY <1>5, <2>2
    <2> QED
      BY <2>1, <2>3 DEF Newest
  <1>9. ASSUME NEW k \in 1..Len(s), InWindow(Newest(s, k)) PROVE k <= Len(r)
    <2>1. Len(s) + 1 - k \in 1..Len(s)
      BY <1>3
    <2>2. Len(s) + 1 - k > n
      BY <1>1, <1>9, <2>1 DEF Gone, Newest
    <2> QED
      BY <1>3, <1>6, <2>1, <2>2
  <1>10. Len(r) <= Len(s)
    BY <1>3, <1>6
  <1> QED
    BY <1>7, <1>8, <1>9, <1>10 DEF r

(* push(now).                                                              *)
LEMMA PushFacts ==
    ASSUME NEW s, InOrder(s)
    PROVE  /\ InOrder(Append(s, 0)) /\ Len(Append(s, 0)) = Len(s) + 1
           /\ Newest(Append(s, 0), 1) = 0
           /\ \A k \in 1..Len(s) : Newest(Append(s, 0), k + 1) = Newest(s, k)
           /\ \A k \in 1..Len(s)+1 : Append(s, 0)[k] = 0 \/ (k \in 1..Len(s) /\ Append(s, 0)[k] = s[k])
  <1> DEFINE a == Append(s, 0)
  <1>1. s \in Seq(0..WindowSecs) /\ Len(s) \in Nat /\ WindowSecs \in Nat /\ 0 \in 0..WindowSecs
    BY LimiterAssumption DEF InOrder
  <1>2. \A k \in 1..Len(s) : s[k] \in 0..WindowSecs
    BY <1>1
  <1>3. /\ a \in Seq(0..WindowSecs) /\ Len(a) = Len(s) + 1 /\ a[Len(s) + 1] = 0
        /\ \A k \in 1..Len(s) : a[k] = s[k]
    BY <1>1
  <1> HIDE DEF a
  <1>4. InOrder(a)
    <2>1. ASSUME NEW i \in 1..Len(a), NEW j \in 1..Len(a), i <= j PROVE a[i] >= a[j]
      <3>1. CASE j = Len(s) + 1
        <4>1. a[i] \in 0..WindowSecs
          BY <1>3, ElementOfSeq
        <4> QED
          BY <1>1, <1>3, <3>1, <4>1
      <3>2. CASE j # Len(s) + 1
        <4>1. i \in 1..Len(s) /\ j \in 1..Len(s)
          BY <1>1, <1>3, <2>1, <3>2
        <4> QED
          BY <1>3, <2>1, <4>1 DEF InOrder
      <3> QED
        BY <3>1, <3>2
    <2> QED
      BY <1>3, <2>1 DEF InOrder
  <1>5. Newest(a, 1) = 0
    BY <1>1, <1>3 DEF Newest
  <1>6. ASSUME NEW k \in 1..Len(s) PROVE Newest(a, k + 1) = Newest(s, k)
    <2>1. Len(a) + 1 - (k + 1) = Len(s) + 1 - k /\ Len(s) + 1 - k \in 1..Len(s)
      BY <1>1, <1>3
    <2> QED
      BY <1>3, <2>1 DEF Newest
  <1>7. \A k \in 1..Len(s)+1 : a[k] = 0 \/ (k \in 1..Len(s) /\ a[k] = s[k])
    BY <1>1, <1>3
  <1> QED
    BY <1>3, <1>4, <1>5, <1>6, <1>7 DEF a

(* The history forgets its oldest connection when it is full.              *)
LEMMA RememberFacts ==
    ASSUME NEW h, Past(h)
    PROVE  /\ Past(Remember(h)) /\ Len(Remember(h)) >= Len(h)
           /\ Len(Remember(h)) >= 1 /\ Newest(Remember(h), 1) = 0
           /\ \A k \in 1..Len(h) : k <= MaxConns =>
                 k + 1 <= Len(Remember(h)) /\ Newest(Remember(h), k + 1) = Newest(h, k)
           /\ Len(h) <= MaxConns => Remember(h) = Append(h, 0)
  <1>1. h \in Seq(0..WindowSecs) /\ Len(h) \in Nat /\ MaxConns \in Nat \ {0} /\ InWindow(0)
    BY LimiterAssumption DEF Past, InOrder, InWindow
  <1>2. CASE Len(h) > MaxConns
    <2> DEFINE t == Tail(h)
    <2>1. Len(h) = MaxConns + 1 /\ h # << >>
      BY <1>1, <1>2 DEF Past
    <2>2. /\ t \in Seq(0..WindowSecs) /\ Len(t) = Len(h) - 1
          /\ \A k \in 1..Len(h)-1 : t[k] = h[k + 1]
      BY <1>1, <2>1
    <2> HIDE DEF t
    <2>3. InOrder(t)
      <3>1. ASSUME NEW i \in 1..Len(t), NEW j \in 1..Len(t), i <= j PROVE t[i] >= t[j]
        <4>1. i + 1 \in 1..Len(h) /\ j + 1 \in 1..Len(h) /\ i + 1 <= j + 1
          BY <1>1, <2>2, <3>1
        <4> QED
          BY <2>2, <4>1 DEF Past, InOrder
      <3> QED
        BY <2>2, <3>1 DEF InOrder
    <2>4. Remember(h) = Append(t, 0)
      BY <1>2 DEF Remember, t
    <2>5. \A k \in 1..Len(t) : InWindow(t[k])
      <3>1. \A k \in 1..Len(t) : t[k] = h[k + 1] /\ k + 1 \in 1..Len(h)
        BY <1>1, <2>2
      <3> QED
        BY <3>1 DEF Past
    <2>6. Len(Remember(h)) = MaxConns + 1 /\ Len(t) = MaxConns
      BY <1>1, <2>1, <2>2, <2>3, <2>4, PushFacts
    <2>7. \A k \in 1..Len(Remember(h)) : InWindow(Remember(h)[k])
      BY <1>1, <2>2, <2>3, <2>4, <2>5, <2>6, PushFacts
    <2>8. Past(Remember(h))
      <3>1. Len(Remember(h)) <= MaxConns + 1
        BY <1>1, <2>6
      <3> QED
        BY <2>3, <2>4, <2>7, <3>1, PushFacts DEF Past
    <2>9. ASSUME NEW k \in 1..Len(h), k <= MaxConns
          PROVE  k + 1 <= Len(Remember(h)) /\ Newest(Remember(h), k + 1) = Newest(h, k)
      <3>1. k \in 1..Len(t) /\ k + 1 <= Len(Remember(h))
        BY <1>1, <2>6, <2>9
      <3>2. Newest(Remember(h), k + 1) = Newest(t, k)
        BY <2>3, <2>4, <3>1, PushFacts
      <3>3. Len(t) + 1 - k \in 1..Len(h)-1 /\ (Len(t) + 1 - k) + 1 = Len(h) + 1 - k
        BY <1>1, <2>2, <3>1
      <3>4. t[Len(t) + 1 - k] = h[Len(h) + 1 - k]
        BY <2>2, <3>3
      <3> QED
        BY <3>1, <3>2, <3>4 DEF Newest
    <2>10. Len(Remember(h)) >= Len(h) /\ Len(Remember(h)) >= 1 /\ ~(Len(h) <= MaxConns)
      BY <1>1, <2>1, <2>6
    <2>11. Newest(Remember(h), 1) = 0
      BY <2>3, <2>4, PushFacts
    <2> QED
      BY <2>8, <2>9, <2>10, <2>11
  <1>3. CASE Len(h) <= MaxConns
    <2>1. Remember(h) = Append(h, 0)
      BY <1>1, <1>3 DEF Remember
    <2>2. InOrder(h)
      BY DEF Past
    <2>3. Len(Remember(h)) = Len(h) + 1
      BY <2>1, <2>2, PushFacts
    <2>4. Past(Remember(h))
      <3>1. Len(Remember(h)) <= MaxConns + 1
        BY <1>1, <1>3, <2>3
      <3>2. \A k \in 1..Len(Remember(h)) : InWindow(Remember(h)[k])
        BY <1>1, <2>1, <2>2, <2>3, PushFacts DEF Past
      <3> QED
        BY <2>1, <2>2, <3>1, <3>2, PushFacts DEF Past
    <2>5. ASSUME NEW k \in 1..Len(h)
          PROVE  k + 1 <= Len(Remember(h)) /\ Newest(Remember(h), k + 1) = Newest(h, k)
      <3>1. k + 1 <= Len(Remember(h))
        BY <1>1, <2>3
      <3> QED
        BY <2>1, <2>2, <3>1, PushFacts
    <2>6. Len(Remember(h)) >= Len(h) /\ Len(Remember(h)) >= 1
      BY <1>1, <2>3
    <2>7. Newest(Remember(h), 1) = 0
      BY <2>1, <2>2, PushFacts
    <2> QED
      BY <2>1, <2>4, <2>5, <2>6, <2>7
  <1> QED
    BY <1>1, <1>2, <1>3

(* Time passes for all connections alike.                                  *)
LEMMA OlderFacts ==
    ASSUME NEW s, InOrder(s)
    PROVE  /\ InOrder(Older(s)) /\ Len(Older(s)) = Len(s)
           /\ \A k \in 1..Len(s) :
                 Newest(Older(s), k) = IF Newest(s, k) < WindowSecs THEN Newest(s, k) + 1 ELSE WindowSecs
  <1> DEFINE o == Older(s)
  <1>1. s \in Seq(0..WindowSecs) /\ Len(s) \in Nat /\ WindowSecs \in Nat /\ DOMAIN s = 1..Len(s)
    BY LimiterAssumption DEF InOrder
  <1>2. \A k \in 1..Len(s) : s[k] \in 0..WindowSecs
    BY <1>1
  <1>3. o = [k \in 1..Len(s) |-> IF s[k] < WindowSecs THEN s[k] + 1 ELSE WindowSecs]
    BY <1>1 DEF Older
  <1> HIDE DEF o
  <1>4. \A k \in 1..Len(s) : o[k] = IF s[k] < WindowSecs THEN s[k] + 1 ELSE WindowSecs
    BY <1>3
  <1>5. \A k \in 1..Len(s) : o[k] \in 0..WindowSecs
    BY <1>1, <1>2, <1>4
  <1>6. o \in Seq(0..WindowSecs) /\ Len(o) = Len(s)
    BY <1>1, <1>3, <1>5
  <1>7. InOrder(o)
    <2>1. ASSUME NEW i \in 1..Len(s), NEW j \in 1..Len(s), i <= j PROVE o[i] >= o[j]
      <3>1. s[i] >= s[j] /\ s[i] \in 0..WindowSecs /\ s[j] \in 0..WindowSecs
        BY <1>2, <2>1 DEF InOrder
      <3> QED
        BY <1>1, <1>4, <3>1
    <2> QED
      BY <1>6, <2>1 DEF InOrder
  <1>8. ASSUME NEW k \in 1..Len(s)
        PROVE  Newest(o, k) = IF Newest(s, k) < WindowSecs THEN Newest(s, k) + 1 ELSE WindowSecs
    <2>1. Len(s) + 1 - k \in 1..Len(s)
      BY <1>1
    <2> QED
      BY <1>4, <1>6, <2>1 DEF Newest
  <1> QED
    BY <1>6, <1>7, <1>8 DEF o

-----------------------------------------------------------------------------
(* An entry and the history of its address, step by step *)

LEMMA NewestFacts ==
    ASSUME NEW s, InOrder(s), NEW k \in 1..Len(s)
    PROVE  Newest(s, k) \in 0..WindowSecs /\ Len(s) + 1 - k \in 1..Len(s)
  <1>1. s \in Seq(0..WindowSecs) /\ Len(s) \in Nat
    BY DEF InOrder
  <1>2. Len(s) + 1 - k \in 1..Len(s)
    BY <1>1
  <1> QED
    BY <1>1, <1>2, ElementOfSeq DEF Newest

(* After retain an entry is as truthful and as complete, and no longer     *)
(* than what did happen.                                                   *)
LEMMA RetainKeeps ==
    ASSUME NEW c, NEW h, Past(h), Truthful(c, h)
    PROVE  /\ Truthful(Recent(c), h) /\ Len(Recent(c)) <= Len(h)
           /\ \A k \in 1..Len(Recent(c)) : InWindow(Recent(c)[k])
           /\ Complete(c, h) => Complete(Recent(c), h)
  <1> DEFINE r == Recent(c)
  <1>0. InOrder(c) /\ Len(c) <= MaxConns /\ InOrder(h)
    BY DEF Truthful, Past
  <1>1. /\ InOrder(r) /\ Len(r) <= Len(c)
        /\ \A k \in 1..Len(r) : InWindow(r[k]) /\ Newest(r, k) = Newest(c, k)
        /\ \A k \in 1..Len(c) : InWindow(Newest(c, k)) => k <= Len(r)
    BY <1>0, RecentFacts
  <1> HIDE DEF r
  <1>2. Len(r) \in Nat /\ Len(c) \in Nat /\ Len(h) \in Nat /\ MaxConns \in Nat
    BY <1>0, <1>1, LimiterAssumption DEF InOrder
  <1>3. ASSUME NEW k \in 1..Len(r)
        PROVE  k \in 1..Len(c) /\ InWindow(Newest(c, k)) /\ k <= Len(h) /\ Newest(h, k) = Newest(r, k)
    <2>1. k \in 1..Len(c)
      BY <1>1, <1>2
    <2>2. InWindow(Newest(r, k)) /\ Newest(r, k) = Newest(c, k)
      BY <1>1, NewestFacts DEF Newest
    <2> QED
      BY <2>1, <2>2 DEF Truthful
  <1>4. Len(r) <= Len(h)
    <2>1. CASE Len(r) = 0
      BY <1>2, <2>1
    <2>2. CASE Len(r) # 0
      <3>1. Len(r) \in 1..Len(r)
        BY <1>2, <2>2
      <3> QED
        BY <1>3, <3>1
    <2> QED
      BY <2>1, <2>2
  <1>5. Truthful(r, h)
    <2>1. Len(r) <= MaxConns
      BY <1>0, <1>1, <1>2
    <2> QED
      BY <1>1, <1>3, <2>1 DEF Truthful
  <1>6. ASSUME Complete(c, h), NEW k \in 1..Len(h) PROVE k <= Len(r) /\ Newest(r, k) = Newest(h, k)
    <2>1. InWindow(Newest(h, k))
      BY <1>0, NewestFacts DEF Past, Newest
    <2>2. k \in 1..Len(c) /\ Newest(c, k) = Newest(h, k)
      BY <1>2, <1>6 DEF Complete
    <2>3. k <= Len(r)
      BY <1>1, <2>1, <2>2
    <2>4. k \in 1..Len(r)
      BY <1>2, <2>3
    <2> QED
      BY <1>1, <2>2, <2>3, <2>4
  <1> QED
    BY <1>1, <1>4, <1>5, <1>6 DEF r, Complete

(* A connection that is admitted enters the entry and the history.         *)
LEMMA PushKeeps ==
    ASSUME NEW e, NEW h, Past(h), Truthful(e, h), Len(e) < MaxConns,
           \A k \in 1..Len(e) : InWindow(e[k])
    PROVE  /\ Truthful(Append(e, 0), Remember(h))
           /\ Complete(e, h) => Complete(Append(e, 0), Remember(h))
  <1> DEFINE a == Append(e, 0)
             m == Remember(h)
  <1>0. InOrder(e) /\ InOrder(h)
    BY DEF Truthful, Past
  <1>1. /\ InOrder(a) /\ Len(a) = Len(e) + 1 /\ Newest(a, 1) = 0
        /\ \A k \in 1..Len(e) : Newest(a, k + 1) = Newest(e, k)
    BY <1>0, PushFacts
  <1>2. /\ Past(m) /\ Len(m) >= Len(h) /\ Len(m) >= 1 /\ Newest(m, 1) = 0
        /\ \A k \in 1..Len(h) : k <= MaxConns => k + 1 <= Len(m) /\ Newest(m, k + 1) = Newest(h, k)
        /\ Len(h) <= MaxConns => m = Append(h, 0)
    BY RememberFacts
  <1> HIDE DEF a, m
  <1>3. Len(e) \in Nat /\ Len(h) \in Nat /\ Len(a) \in Nat /\ Len(m) \in Nat /\ MaxConns \in Nat
    <2>1. Len(e) \in Nat /\ Len(h) \in Nat
      BY <1>0 DEF InOrder
    <2>2. Len(m) \in Nat
      BY <1>2 DEF InOrder, Past
    <2> QED
      BY <1>1, <2>1, <2>2, LimiterAssumption
  <1>4. ASSUME NEW k \in 1..Len(a) PROVE k <= Len(m) /\ Newest(m, k) = Newest(a, k)
    <2>1. CASE k = 1
      BY <1>1, <1>2, <1>3, <2>1
    <2>2. CASE k # 1
      <3> DEFINE i == k - 1
      <3>1. i \in 1..Len(e) /\ i + 1 = k /\ i <= MaxConns
        BY <1>1, <1>3, <2>2
      <3> HIDE DEF i
      <3>2. InWindow(Newest(e, i))
        BY <1>0, <3>1, NewestFacts DEF Newest
      <3>3. i <= Len(h) /\ Newest(h, i) = Newest(e, i)
        BY <3>1, <3>2 DEF Truthful
      <3>4. i \in 1..Len(h)
        BY <1>3, <3>1, <3>3
      <3>5. i + 1 <= Len(m) /\ Newest(m, i + 1) = Newest(h, i)
        BY <1>2, <3>1, <3>4
      <3> QED
        BY <1>1, <3>1, <3>3, <3>5
    <2> QED
      BY <2>1, <2>2
  <1>5. Truthful(a, m)
    <2>1. Len(a) <= MaxConns
      BY <1>1, <1>3
    <2> QED
      BY <1>1, <1>4, <2>1 DEF Truthful
  <1>6. ASSUME Complete(e, h), NEW k \in 1..Len(m) PROVE k <= Len(a) /\ Newest(a, k) = Newest(m, k)
    <2>1. Len(h) <= Len(e)
      <3>1. CASE Len(h) = 0
        BY <1>3, <3>1
      <3>2. CASE Len(h) # 0
        <4>1. Len(h) \in 1..Len(h)
          BY <1>3, <3>2
        <4> QED
          BY <1>6, <4>1 DEF Complete
      <3> QED
        BY <3>1, <3>2
    <2>2. Len(h) <= MaxConns
      BY <1>3, <2>1
    <2>3. Len(m) = Len(h) + 1
      BY <1>0, <1>2, <2>2, PushFacts
    <2>4. k \in 1..Len(a)
      BY <1>1, <1>3, <2>1, <2>3
    <2> QED
      BY <1>3, <1>4, <2>4
  <1> QED
    BY <1>5, <1>6 DEF a, m, Complete

(* As time passes, connections leave the window in the entry and in the    *)
(* history alike.                                                          *)
LEMMA AgeingKeeps ==
    ASSUME NEW c, NEW h, Past(h), Truthful(c, h)
    PROVE  /\ Past(Recent(Older(h))) /\ Truthful(Older(c), Recent(Older(h)))
           /\ Complete(c, h) => Complete(Older(c), Recent(Older(h)))
  <1> DEFINE o == Older(c)
             p == Older(h)
             q == Recent(p)
             aged(n) == IF n < WindowSecs THEN n + 1 ELSE WindowSecs
  <1>0. InOrder(c) /\ InOrder(h) /\ Len(c) <= MaxConns /\ Len(h) <= MaxConns + 1
    BY DEF Truthful, Past
  <1>1. /\ InOrder(o) /\ Len(o) = Len(c)
        /\ \A k \in 1..Len(c) : Newest(o, k) = aged(Newest(c, k))
    BY <1>0, OlderFacts
  <1>2. /\ InOrder(p) /\ Len(p) = Len(h)
        /\ \A k \in 1..Len(h) : Newest(p, k) = aged(Newest(h, k))
    BY <1>0, OlderFacts
  <1> HIDE DEF o, p
  <1>3. /\ InOrder(q) /\ Len(q) <= Len(p)
        /\ \A k \in 1..Len(q) : InWindow(q[k]) /\ Newest(q, k) = Newest(p, k)
        /\ \A k \in 1..Len(p) : InWindow(Newest(p, k)) => k <= Len(q)
    BY <1>2, RecentFacts
  <1> HIDE DEF q
  <1>4. /\ Len(o) \in Nat /\ Len(p) \in Nat /\ Len(q) \in Nat /\ MaxConns \in Nat /\ WindowSecs \in Nat
        /\ Len(c) \in Nat /\ Len(h) \in Nat
    BY <1>0, <1>1, <1>2, <1>3, LimiterAssumption DEF InOrder
  <1>5. Past(q)
    <2>1. Len(q) <= MaxConns + 1
      BY <1>0, <1>2, <1>3, <1>4
    <2> QED
      BY <1>3, <2>1 DEF Past
  <1>6. ASSUME NEW k \in 1..Len(o), InWindow(Newest(o, k))
        PROVE  k <= Len(q) /\ Newest(q, k) = Newest(o, k)
    <2>1. k \in 1..Len(c) /\ Newest(c, k) \in 0..WindowSecs
      BY <1>0, <1>1, NewestFacts
    <2>2. aged(Newest(c, k)) < WindowSecs
      BY <1>1, <1>6, <2>1 DEF InWindow
    <2>3. InWindow(Newest(c, k))
      BY <1>4, <2>1, <2>2 DEF InWindow
    <2>4. k <= Len(h) /\ Newest(h, k) = Newest(c, k)
      BY <2>1, <2>3 DEF Truthful
    <2>5. k \in 1..Len(p) /\ Newest(p, k) = Newest(o, k)
      <3>1. k \in 1..Len(h) /\ k \in 1..Len(p)
        BY <1>2, <1>4, <2>4
      <3> HIDE DEF aged
      <3> QED
        BY <1>1, <1>2, <2>1, <2>4, <3>1
    <2>6. k <= Len(q)
      BY <1>3, <1>6, <2>5
    <2>7. k \in 1..Len(q)
      BY <1>4, <2>6
    <2> QED
      BY <1>3, <2>5, <2>6, <2>7
  <1>7. Truthful(o, q)
    BY <1>0, <1>1, <1>6 DEF Truthful
  <1>8. ASSUME Complete(c, h), NEW k \in 1..Len(q) PROVE k <= Len(o) /\ Newest(o, k) = Newest(q, k)
    <2>1. k \in 1..Len(h)
      BY <1>2, <1>3, <1>4
    <2>2. k <= Len(c) /\ Newest(c, k) = Newest(h, k)
      BY <1>8, <2>1 DEF Complete
    <2>3. k \in 1..Len(c)
      BY <1>4, <2>2
    <2>4. Newest(o, k) = Newest(p, k)
      <3> HIDE DEF aged
      <3> QED
        BY <1>1, <1>2, <2>1, <2>2, <2>3
    <2> QED
      BY <1>1, <1>3, <2>2, <2>4
  <1> QED
    BY <1>5, <1>7, <1>8 DEF o, p, q, Complete

LEMMA NothingKept ==
    ASSUME NEW h, Past(h)
    PROVE  /\ Truthful(<< >>, h) /\ Len(<< >>) = 0
           /\ h = << >> => Complete(<< >>, h)
  <1>1. InOrder(<< >>) /\ Len(<< >>) = 0
    BY DEF InOrder
  <1> QED
    BY <1>1, LimiterAssumption DEF Truthful, Complete

-----------------------------------------------------------------------------
(* The limiter: every step keeps the invariant *)

LEMMA LimiterStarts == LimiterInit => LimiterInv
  <1> SUFFICES ASSUME LimiterInit PROVE LimiterInv
    OBVIOUS
  <1>1. \A ip \in IPs : connections[ip] = << >> /\ admitted[ip] = << >>
    BY DEF LimiterInit
  <1>2. connections \in [IPs -> Seq(0..WindowSecs)] /\ admitted \in [IPs -> Seq(0..WindowSecs)]
    <2>1. << >> \in Seq(0..WindowSecs)
      OBVIOUS
    <2> QED
      BY <2>1 DEF LimiterInit
  <1>3. Past(<< >>)
    BY LimiterAssumption DEF Past, InOrder
  <1>4. Entered
    BY <1>1, <1>2, <1>3, NothingKept DEF Entered
  <1>5. Justly
    BY DEF LimiterInit, Justly
  <1>6. Entries = {}
    BY <1>1 DEF Entries
  <1>7. Small
    BY <1>6, FS_EmptySet, LimiterAssumption DEF Small
  <1> QED
    BY <1>4, <1>5, <1>7 DEF LimiterInv

(* check evicts at least one address when there is one too many.           *)
LEMMA EvictionMakesRoom ==
    ASSUME Small, NEW v \in Victims
    PROVE  /\ v \subseteq Entries /\ IsFiniteSet(Entries \ v)
           /\ Cardinality(Entries \ v) \in Nat /\ Cardinality(Entries \ v) <= MaxEntries
  <1> DEFINE n == Cardinality(Entries)
  <1>1. /\ IsFiniteSet(Entries) /\ n \in Nat /\ n <= MaxEntries + 1
        /\ MaxEntries \in Nat /\ EvictOneIn \in Nat \ {0} /\ MaxEntries + 1 >= EvictOneIn
    BY FS_CardinalityType, LimiterAssumption DEF Small
  <1>2. CASE n <= MaxEntries
    <2>1. v = {}
      BY <1>2 DEF Victims
    <2>2. Entries \ v = Entries
      BY <2>1
    <2> QED
      BY <1>1, <1>2, <2>1, <2>2
  <1>3. CASE ~(n <= MaxEntries)
    <2>1. v \subseteq Entries /\ Cardinality(v) = n \div EvictOneIn
      BY <1>3 DEF Victims
    <2> HIDE DEF n
    <2>2. n = MaxEntries + 1
      BY <1>1, <1>3
    <2>3. n \div EvictOneIn \in Nat /\ n < EvictOneIn * (n \div EvictOneIn) + EvictOneIn
      BY <1>1, DivFacts
    <2>4. n \div EvictOneIn # 0
      <3>1. ASSUME n \div EvictOneIn = 0 PROVE FALSE
        <4>1. EvictOneIn * (n \div EvictOneIn) + EvictOneIn = EvictOneIn
          BY <1>1, <3>1
        <4>2. n < EvictOneIn
          BY <2>3, <4>1
        <4> QED
          BY <1>1, <2>2, <4>2
      <3> QED
        BY <3>1
    <2>5. Entries \cap v = v
      BY <2>1
    <2>6. /\ IsFiniteSet(Entries \ v)
          /\ Cardinality(Entries \ v) = Cardinality(Entries) - Cardinality(Entries \cap v)
      BY <1>1, FS_Difference
    <2>7. Cardinality(Entries \ v) = n - (n \div EvictOneIn)
      BY <2>1, <2>5, <2>6 DEF n
    <2>8. Cardinality(Entries \ v) \in Nat
      BY <2>6, FS_CardinalityType
    <2>9. Cardinality(Entries \ v) <= MaxEntries
      <3> DEFINE q == n \div EvictOneIn
                 d == Cardinality(Entries \ v)
      <3>1. q \in Nat /\ q # 0 /\ d = n - q /\ n \in Nat
        BY <1>1, <2>3, <2>4, <2>7
      <3> HIDE DEF q, d
      <3>2. d <= MaxEntries
        BY <1>1, <2>2, <3>1
      <3> QED
        BY <3>2 DEF d
    <2> QED
      BY <2>1, <2>6, <2>8, <2>9
  <1> QED
    BY <1>2, <1>3

LEMMA CheckKeeps ==
    ASSUME LimiterInv, NEW ip \in IPs, NEW v \in Victims, check(ip, v) PROVE LimiterInv'
  <1> DEFINE entry == IF ip \in v THEN << >> ELSE Recent(connections[ip])
             ok    == Len(entry) < MaxConns
             kept  == [i \in IPs |-> IF i \in v THEN << >> ELSE connections[i]]
  <1>1. /\ connections' = [kept EXCEPT ![ip] = IF ok THEN Append(entry, 0) ELSE entry]
        /\ admitted' = [admitted EXCEPT ![ip] = IF ok THEN Remember(@) ELSE @]
        /\ refused' = IF ok THEN Nobody ELSE ip
        /\ forgotten' = forgotten \cup {i \in v : admitted[i] # << >>}
    BY DEF check
  <1>2. \A i \in IPs : Past(admitted[i]) /\ Truthful(connections[i], admitted[i])
    BY DEF LimiterInv, Entered
  <1>3. \A i \in IPs \ forgotten : Complete(connections[i], admitted[i])
    BY DEF LimiterInv, Entered
  <1>4. /\ \A i \in IPs \ {ip} : connections'[i] = (IF i \in v THEN << >> ELSE connections[i])
                                /\ admitted'[i] = admitted[i]
        /\ connections'[ip] = (IF ok THEN Append(entry, 0) ELSE entry)
        /\ admitted'[ip] = (IF ok THEN Remember(admitted[ip]) ELSE admitted[ip])
    BY <1>1 DEF LimiterInv, Entered
  <1>5. /\ Truthful(entry, admitted[ip]) /\ Len(entry) <= Len(admitted[ip])
        /\ \A k \in 1..Len(entry) : InWindow(entry[k])
    <2>1. CASE ip \in v
      <3>1. entry = << >> /\ Len(admitted[ip]) \in Nat
        BY <1>2, <2>1 DEF Past, InOrder
      <3>2. Truthful(<< >>, admitted[ip]) /\ Len(<< >>) = 0
        BY <1>2, NothingKept
      <3> QED
        BY <3>1, <3>2
    <2>2. CASE ip \notin v
      <3>1. entry = Recent(connections[ip])
        BY <2>2
      <3> HIDE DEF entry
      <3> QED
        BY <1>2, <3>1, RetainKeeps
    <2> QED
      BY <2>1, <2>2
  <1>6. ip \notin forgotten' => Complete(entry, admitted[ip])
    <2> SUFFICES ASSUME ip \notin forgotten' PROVE Complete(entry, admitted[ip])
      OBVIOUS
    <2>0. ip \notin forgotten
      BY <1>1
    <2>1. CASE ip \in v
      <3>1. admitted[ip] = << >>
        BY <1>1, <2>1
      <3> QED
        BY <1>2, <2>1, <3>1, NothingKept
    <2>2. CASE ip \notin v
      BY <1>2, <1>3, <2>0, <2>2, RetainKeeps
    <2> QED
      BY <2>1, <2>2
  <1> HIDE DEF entry
  <1>7. Len(entry) \in Nat /\ MaxConns \in Nat \ {0}
    BY <1>5, LimiterAssumption DEF Truthful, InOrder
  <1>8. /\ Past(admitted'[ip]) /\ Truthful(connections'[ip], admitted'[ip])
        /\ ip \notin forgotten' => Complete(connections'[ip], admitted'[ip])
    <2>1. CASE ok
      BY <1>2, <1>4, <1>5, <1>6, <2>1, PushKeeps, RememberFacts
    <2>2. CASE ~ok
      BY <1>2, <1>4, <1>5, <1>6, <2>2
    <2> QED
      BY <2>1, <2>2
  <1>9. ASSUME NEW i \in IPs \ {ip}
        PROVE  /\ Past(admitted'[i]) /\ Truthful(connections'[i], admitted'[i])
               /\ i \notin forgotten' => Complete(connections'[i], admitted'[i])
    <2>1. CASE i \in v
      <3>1. connections'[i] = << >> /\ admitted'[i] = admitted[i]
        BY <1>4, <2>1
      <3>2. i \notin forgotten' => admitted[i] = << >>
        BY <1>1, <2>1
      <3> QED
        BY <1>2, <3>1, <3>2, NothingKept
    <2>2. CASE i \notin v
      <3>1. connections'[i] = connections[i] /\ admitted'[i] = admitted[i]
        BY <1>4, <2>2
      <3>2. i \notin forgotten' => i \notin forgotten
        BY <1>1
      <3> QED
        BY <1>2, <1>3, <3>1, <3>2
    <2> QED
      BY <2>1, <2>2
  <1>10. Entered'
    <2>1. \A i \in IPs : /\ Past(admitted'[i]) /\ Truthful(connections'[i], admitted'[i])
                         /\ i \notin forgotten' => Complete(connections'[i], admitted'[i])
      BY <1>8, <1>9
    <2>2. \A i \in IPs : connections'[i] \in Seq(0..WindowSecs) /\ admitted'[i] \in Seq(0..WindowSecs)
      BY <2>1 DEF Truthful, Past, InOrder
    <2>3. DOMAIN connections' = IPs /\ DOMAIN admitted' = IPs
          /\ connections' = [i \in IPs |-> connections'[i]]
          /\ admitted' = [i \in IPs |-> admitted'[i]]
      BY <1>1 DEF LimiterInv, Entered
    <2>4. connections' \in [IPs -> Seq(0..WindowSecs)] /\ admitted' \in [IPs -> Seq(0..WindowSecs)]
      BY <2>2, <2>3
    <2> QED
      BY <2>1, <2>4 DEF Entered
  <1>11. Justly'
    <2>1. CASE ok
      BY <1>1, <2>1 DEF Justly
    <2>2. CASE ~ok
      <3>1. refused' = ip /\ admitted'[ip] = admitted[ip]
        BY <1>1, <1>4, <2>2
      <3>2. Len(admitted[ip]) \in Nat
        BY <1>2 DEF Past, InOrder
      <3>3. Len(admitted[ip]) >= MaxConns
        BY <1>5, <1>7, <2>2, <3>2
      <3> QED
        BY <3>1, <3>3 DEF Justly
    <2> QED
      BY <2>1, <2>2
  <1>12. Small'
    <2> DEFINE rest == Entries \ v
    <2>1. IsFiniteSet(rest) /\ Cardinality(rest) \in Nat /\ Cardinality(rest) <= MaxEntries
      BY EvictionMakesRoom DEF LimiterInv
    <2>2. Entries' \subseteq rest \cup {ip}
      BY <1>4 DEF Entries
    <2> HIDE DEF rest
    <2>3. IsFiniteSet(rest \cup {ip}) /\ Cardinality(rest \cup {ip}) <= MaxEntries + 1
      <3>1. /\ IsFiniteSet(rest \cup {ip})
            /\ Cardinality(rest \cup {ip}) = Cardinality(rest)
               \/ Cardinality(rest \cup {ip}) = Cardinality(rest) + 1
        BY <2>1, FS_AddElement, Zenon
      <3>2. MaxEntries \in Nat
        BY LimiterAssumption
      <3> QED
        BY <2>1, <3>1, <3>2
    <2>4. /\ IsFiniteSet(Entries') /\ Cardinality(Entries') <= Cardinality(rest \cup {ip})
          /\ Cardinality(Entries') \in Nat /\ Cardinality(rest \cup {ip}) \in Nat
      BY <2>2, <2>3, FS_Subset, FS_CardinalityType
    <2>5. Cardinality(Entries') <= MaxEntries + 1
      BY <2>3, <2>4, LimiterAssumption
    <2> QED
      BY <2>4, <2>5 DEF Small
  <1> QED
    BY <1>10, <1>11, <1>12 DEF LimiterInv

\* Fewer addresses than before are few enough.
LEMMA SmallKept == ASSUME Small, Entries' \subseteq Entries PROVE Small'
  <1>1. /\ IsFiniteSet(Entries') /\ Cardinality(Entries') <= Cardinality(Entries)
        /\ Cardinality(Entries') \in Nat /\ Cardinality(Entries) \in Nat
    BY FS_Subset, FS_CardinalityType DEF Small
  <1>2. Cardinality(Entries') <= MaxEntries + 1
    BY <1>1, LimiterAssumption DEF Small
  <1> QED
    BY <1>1, <1>2 DEF Small

LEMMA CleanupKeeps == LimiterInv /\ cleanup => LimiterInv'
  <1> SUFFICES ASSUME LimiterInv, cleanup PROVE LimiterInv'
    OBVIOUS
  <1>1. /\ connections' = [ip \in IPs |-> Recent(connections[ip])]
        /\ refused' = Nobody /\ admitted' = admitted /\ forgotten' = forgotten
    BY DEF cleanup
  <1>2. \A ip \in IPs : Past(admitted[ip]) /\ Truthful(connections[ip], admitted[ip])
    BY DEF LimiterInv, Entered
  <1>3. \A ip \in IPs :
            /\ Truthful(connections'[ip], admitted[ip])
            /\ Complete(connections[ip], admitted[ip]) => Complete(connections'[ip], admitted[ip])
    BY <1>1, <1>2, RetainKeeps
  <1>4. Entered'
    <2>1. \A ip \in IPs : connections'[ip] \in Seq(0..WindowSecs)
      BY <1>3 DEF Truthful, InOrder
    <2>2. connections' \in [IPs -> Seq(0..WindowSecs)]
      BY <1>1, <2>1
    <2> QED
      BY <1>1, <1>3, <2>2 DEF LimiterInv, Entered
  <1>5. Entries' \subseteq Entries
    <2>1. ASSUME NEW ip \in IPs, connections[ip] = << >> PROVE connections'[ip] = << >>
      <3>1. InOrder(connections[ip]) /\ connections'[ip] = Recent(connections[ip])
        BY <1>1, <1>2 DEF Truthful
      <3>2. Len(connections'[ip]) <= 0 /\ connections'[ip] \in Seq(0..WindowSecs)
        <4>1. InOrder(Recent(connections[ip]))
              /\ Len(Recent(connections[ip])) <= Len(connections[ip])
          BY <3>1, RecentFacts, Zenon
        <4>2. Len(connections[ip]) = 0
          BY <2>1
        <4> QED
          BY <3>1, <4>1, <4>2 DEF InOrder
      <3> QED
        BY <3>2
    <2> QED
      BY <2>1 DEF Entries
  <1> QED
    BY <1>1, <1>4, <1>5, SmallKept DEF LimiterInv, Justly

LEMMA LimiterTickKeeps == LimiterInv /\ LimiterTick => LimiterInv'
  <1> SUFFICES ASSUME LimiterInv, LimiterTick PROVE LimiterInv'
    OBVIOUS
  <1>1. /\ connections' = [ip \in IPs |-> Older(connections[ip])]
        /\ admitted' = [ip \in IPs |-> Recent(Older(admitted[ip]))]
        /\ forgotten' = {ip \in forgotten : admitted'[ip] # << >>}
        /\ refused' = Nobody
    BY DEF LimiterTick
  <1>2. \A ip \in IPs : Past(admitted[ip]) /\ Truthful(connections[ip], admitted[ip])
    BY DEF LimiterInv, Entered
  <1>3. \A ip \in IPs :
            /\ Past(admitted'[ip]) /\ Truthful(connections'[ip], admitted'[ip])
            /\ Complete(connections[ip], admitted[ip]) => Complete(connections'[ip], admitted'[ip])
    BY <1>1, <1>2, AgeingKeeps
  <1>4. ASSUME NEW ip \in IPs, ip \notin forgotten' PROVE Complete(connections'[ip], admitted'[ip])
    <2>1. CASE ip \in forgotten
      <3>1. admitted'[ip] = << >>
        BY <1>1, <1>4, <2>1
      <3> QED
        BY <3>1 DEF Complete
    <2>2. CASE ip \notin forgotten
      BY <1>3, <2>2 DEF LimiterInv, Entered
    <2> QED
      BY <2>1, <2>2
  <1>5. Entered'
    <2>1. \A ip \in IPs : connections'[ip] \in Seq(0..WindowSecs) /\ admitted'[ip] \in Seq(0..WindowSecs)
      BY <1>3 DEF Truthful, Past, InOrder
    <2>2. connections' \in [IPs -> Seq(0..WindowSecs)] /\ admitted' \in [IPs -> Seq(0..WindowSecs)]
      BY <1>1, <2>1
    <2> QED
      BY <1>3, <1>4, <2>2 DEF Entered
  <1>6. Entries' \subseteq Entries
    <2>1. ASSUME NEW ip \in IPs, connections[ip] = << >> PROVE connections'[ip] = << >>
      BY <1>1, <2>1 DEF Older
    <2> QED
      BY <2>1 DEF Entries
  <1> QED
    BY <1>1, <1>5, <1>6, SmallKept DEF LimiterInv, Justly

(* The gateway's limiter per address keeps its invariant, for any          *)
(* addresses, limits and window (gateway/src/main.rs, IpRateLimiter).      *)
THEOREM LimiterInvariant == LimiterSpec => []LimiterInv
  <1>1. LimiterInv /\ [LimiterNext]_limiterVars => LimiterInv'
    <2> SUFFICES ASSUME LimiterInv, [LimiterNext]_limiterVars PROVE LimiterInv'
      OBVIOUS
    <2>1. CASE UNCHANGED limiterVars
      BY <2>1 DEF limiterVars, LimiterInv, Entered, Justly, Small, Entries
    <2>2. CASE LimiterNext
      BY <2>2, CheckKeeps, CleanupKeeps, LimiterTickKeeps DEF LimiterNext
    <2> QED
      BY <2>1, <2>2
  <1> QED
    BY <1>1, LimiterStarts, PTL DEF LimiterSpec

(* No address that was not evicted meanwhile gets more than MaxConns       *)
(* connections in any window, and none is refused below that, whatever     *)
(* check, cleanup and other addresses do in between (main.rs:68).          *)
THEOREM LimitPerIp == LimiterSpec => []PerIpLimit
  <1>1. LimiterInv => PerIpLimit
    <2> SUFFICES ASSUME LimiterInv PROVE PerIpLimit
      OBVIOUS
    <2>1. ASSUME NEW ip \in IPs \ forgotten PROVE Len(admitted[ip]) <= MaxConns
      <3> DEFINE h == admitted[ip]
                 c == connections[ip]
      <3>1. Past(h) /\ Truthful(c, h) /\ Complete(c, h)
        BY DEF LimiterInv, Entered
      <3> HIDE DEF h, c
      <3>2. Len(h) \in Nat /\ Len(c) \in Nat /\ Len(c) <= MaxConns /\ MaxConns \in Nat
        BY <3>1, LimiterAssumption DEF Past, Truthful, InOrder
      <3>3. CASE Len(h) = 0
        BY <3>2, <3>3 DEF h
      <3>4. CASE Len(h) # 0
        <4>1. Len(h) \in 1..Len(h)
          BY <3>2, <3>4
        <4>2. Len(h) <= Len(c)
          BY <3>1, <4>1 DEF Complete
        <4>3. Len(h) <= MaxConns
          BY <3>2, <4>2
        <4> QED
          BY <4>3 DEF h
      <3> QED
        BY <3>3, <3>4
    <2> QED
      BY <2>1 DEF PerIpLimit, LimiterInv, Justly
  <1> QED
    BY <1>1, LimiterInvariant, PTL

(* The map of the limiter never holds more than one address over           *)
(* IP_RATE_LIMIT_MAX_ENTRIES, nor an entry more times than MaxConns,       *)
(* however many addresses connect.                                         *)
THEOREM MapBounded == LimiterSpec => []EntriesBounded
  <1>1. LimiterInv => EntriesBounded
    BY DEF LimiterInv, Small, Entered, Truthful, EntriesBounded, Entries
  <1> QED
    BY <1>1, LimiterInvariant, PTL
==============================================================================
