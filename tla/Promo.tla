-------------------------------- MODULE Promo --------------------------------
(***************************************************************************)
(* The gateway's promo codes: PromoManager of promo.rs, shared by the      *)
(* tasks that redeem codes.  use_code validates under the lock of codes,   *)
(* releases it, and counts the use under a lock it takes again, so a task  *)
(* may hold a validated code while others validate and count.  Signing and *)
(* verifying a token changes no state and is left out; the clock is the    *)
(* action Expire.                                                          *)
(***************************************************************************)
EXTENDS Naturals, FiniteSets

CONSTANTS
    Users,      \* the tasks that redeem, each for its own user
    Codes,      \* the codes
    None,       \* no code
    MaxUses,    \* the max_uses a code may be given
    MaxAdds     \* bound: calls of add_promo_code

ASSUME UsersAssumption == IsFiniteSet(Users)
ASSUME NoneAssumption == None \notin Codes
ASSUME MaxUsesAssumption == MaxUses \subseteq Nat \ {0}
ASSUME MaxAddsAssumption == MaxAdds \in Nat

VARIABLES
    codes,        \* codes: per code its max_uses, used_count and expires_at
    validated,    \* per user: the code use_code has validated and not yet counted
    used_tokens,  \* used_tokens: per user, how often each code was redeemed
    adds          \* calls of add_promo_code so far

promoVars == <<codes, validated, used_tokens, adds>>

\* A code as it is created; expires_at is None, still to come, or past.
Fresh(expiries) == [max : MaxUses, used : {0}, expires_at : expiries]

PromoTypeOK ==
    /\ DOMAIN codes \subseteq Codes
    /\ codes \in [DOMAIN codes ->
                     [max : MaxUses, used : Nat, expires_at : {"never", "later", "past"}]]
    /\ validated \in [Users -> DOMAIN codes \cup {None}]
    /\ used_tokens \in [Users -> [Codes -> Nat]]
    /\ adds \in 0..MaxAdds

\* PromoManager::new: the preloaded codes never expire.
PromoInit ==
    /\ codes \in UNION {[loaded -> Fresh({"never"})] : loaded \in SUBSET Codes}
    /\ validated = [u \in Users |-> None]
    /\ used_tokens = [u \in Users |-> [c \in Codes |-> 0]]
    /\ adds = 0

\* Mutant of validate_code: the count may reach the limit before a refusal.
validate_code_OneMore(c) ==
    /\ c \in DOMAIN codes
    /\ codes[c].expires_at # "past"
    /\ codes[c].used <= codes[c].max

validate_code(c) ==
    /\ c \in DOMAIN codes
    /\ codes[c].expires_at # "past"
    /\ codes[c].used < codes[c].max

\* use_code up to the end of validate_code, whose refusals leave no trace.
Validate(u, c) ==
    /\ validated[u] = None
    /\ validate_code(c)
    /\ validated' = [validated EXCEPT ![u] = c]
    /\ UNCHANGED <<codes, used_tokens, adds>>

\* The rest of use_code: the use is counted and recorded with both locks held.
CountUse(u) ==
    /\ validated[u] # None
    /\ codes' = [codes EXCEPT ![validated[u]].used = @ + 1]
    /\ used_tokens' = [used_tokens EXCEPT ![u][validated[u]] = @ + 1]
    /\ validated' = [validated EXCEPT ![u] = None]
    /\ UNCHANGED adds

\* A code of that name is replaced, its count included.
add_promo_code(c) ==
    /\ adds < MaxAdds
    /\ \E p \in Fresh({"never", "later"}) :
          codes' = [x \in DOMAIN codes \cup {c} |-> IF x = c THEN p ELSE codes[x]]
    /\ adds' = adds + 1
    /\ UNCHANGED <<validated, used_tokens>>

\* The clock passes a code's expires_at.
Expire(c) ==
    /\ c \in DOMAIN codes
    /\ codes[c].expires_at = "later"
    /\ codes' = [codes EXCEPT ![c].expires_at = "past"]
    /\ UNCHANGED <<validated, used_tokens, adds>>

PromoNext ==
    \/ \E u \in Users, c \in Codes : Validate(u, c)
    \/ \E u \in Users : CountUse(u)
    \/ \E c \in Codes : add_promo_code(c)
    \/ \E c \in Codes : Expire(c)

PromoSpec == PromoInit /\ [][PromoNext]_promoVars

-----------------------------------------------------------------------------
\* The users between the two halves of use_code.
Pending(c) == {u \in Users : validated[u] = c}

(* A code is redeemed too often only by uses that were validated together: *)
(* at most all users but one go past max_uses, because use_code (promo.rs) *)
(* does not look at the count again when it takes the lock a second time,  *)
(* and replacing the code under a validated use keeps within that.         *)
OverIssueBounded ==
    \A c \in DOMAIN codes :
        codes[c].used + Cardinality(Pending(c)) < codes[c].max + Cardinality(Users)
==============================================================================
