------------------------------ MODULE HmacKeys -------------------------------
(***************************************************************************)
(* The gateway's HMAC keys: AuthManager of auth.rs.  hmac_keys is a vector *)
(* that rotation appends to and removal shifts, and active_kid, one byte,  *)
(* is the index of the key that signs and verifies.  A key is named by its *)
(* place in the order in which keys came.  Signing with active_kid out of  *)
(* range panics; it changes no state.                                      *)
(***************************************************************************)
EXTENDS Integers, Sequences

CONSTANTS
    KidSpace,   \* the values of active_kid: 256
    MaxKeys     \* bound: keys that ever come

ASSUME KidSpaceAssumption == KidSpace \in Nat \ {0}

VARIABLES
    hmac_keys,    \* hmac_keys
    active_kid,   \* active_kid
    newest,       \* history: the key that came last
    wrapped,      \* history: the last rotation found no free value for active_kid
    shifted       \* history: a key was removed since the last rotation

keyVars == <<hmac_keys, active_kid, newest, wrapped, shifted>>

KeysTypeOK ==
    /\ hmac_keys \in Seq(1..newest)
    /\ active_kid \in 0..KidSpace-1
    /\ newest \in Nat \ {0}
    /\ wrapped \in BOOLEAN /\ shifted \in BOOLEAN

KeysInit ==
    /\ hmac_keys = <<1>>
    /\ active_kid = 0
    /\ newest = 1
    /\ wrapped = FALSE /\ shifted = FALSE

\* Mutant of rotate_hmac_key: the index is that of the last key before the push.
rotate_hmac_key_Last ==
    /\ newest < MaxKeys
    /\ active_kid' = (IF hmac_keys = <<>> THEN 0 ELSE Len(hmac_keys) - 1) % KidSpace
    /\ hmac_keys' = Append(hmac_keys, newest + 1)
    /\ newest' = newest + 1
    /\ wrapped' = (Len(hmac_keys) >= KidSpace)
    /\ shifted' = FALSE

rotate_hmac_key ==
    /\ newest < MaxKeys
    /\ active_kid' = Len(hmac_keys) % KidSpace
    /\ hmac_keys' = Append(hmac_keys, newest + 1)
    /\ newest' = newest + 1
    /\ wrapped' = (Len(hmac_keys) >= KidSpace)
    /\ shifted' = FALSE

\* Vec::remove, which shifts the keys behind the removed one.
Without(keys, kid) ==
    [i \in 1..Len(keys)-1 |-> IF i <= kid THEN keys[i] ELSE keys[i + 1]]

remove_hmac_key(kid) ==
    /\ kid < Len(hmac_keys)
    /\ kid # active_kid
    /\ hmac_keys' = Without(hmac_keys, kid)
    /\ shifted' = TRUE
    /\ UNCHANGED <<active_kid, newest, wrapped>>

KeysNext ==
    \/ rotate_hmac_key
    \/ \E kid \in 0..KidSpace-1 : remove_hmac_key(kid)

KeysSpec == KeysInit /\ [][KeysNext]_keyVars

-----------------------------------------------------------------------------
\* generate_hmac_signature takes key k; with active_kid out of range it panics.
SignsWith(k) ==
    /\ active_kid < Len(hmac_keys)
    /\ hmac_keys[active_kid + 1] = k

(* Whatever has been rotated and removed, signatures are made with the     *)
(* newest key, or not at all: from the removal of any other key to the     *)
(* next rotation signing panics, as removal shifts the vector under        *)
(* active_kid and leaves it out of range (auth.rs, remove_hmac_key), never *)
(* on another key.  A rotation with all values of the one-byte active_kid  *)
(* taken wraps to the oldest key and is the exception.                     *)
OnlyNewestSigns ==
    wrapped \/ IF shifted THEN \A k \in 1..newest : ~SignsWith(k) ELSE SignsWith(newest)
==============================================================================
