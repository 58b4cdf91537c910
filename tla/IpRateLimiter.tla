---------------------------- MODULE IpRateLimiter ----------------------------
(***************************************************************************)
(* The gateway's per-address limiter (gateway/src/main.rs, IpRateLimiter): *)
(* a sliding window of connection times per address in a map that is kept  *)
(* from growing by evicting addresses.  The accept loop calls check for    *)
(* one connection after the other; a background task calls cleanup.  Both  *)
(* hold the mutex throughout.                                              *)
(*                                                                         *)
(* An entry is a sequence of ages, oldest first, saturated at WindowSecs:  *)
(* the code only asks whether an Instant is less old than that, and which  *)
(* entry starts with the oldest.  An address without an entry has << >>:   *)
(* the code never leaves an empty entry behind.                            *)
(***************************************************************************)
EXTENDS Integers, Sequences, FiniteSets

CONSTANTS
    IPs,            \* addresses
    WindowSecs,     \* IP_RATE_LIMIT_WINDOW_SECS
    MaxConns,       \* IP_RATE_LIMIT_MAX_CONNS
    MaxEntries,     \* IP_RATE_LIMIT_MAX_ENTRIES
    EvictOneIn,     \* 5: a fifth of the entries is evicted
    Nobody          \* no address

ASSUME LimiterAssumption ==
    /\ WindowSecs \in Nat \ {0} /\ MaxConns \in Nat \ {0}
    /\ MaxEntries \in Nat /\ EvictOneIn \in Nat \ {0}
    /\ MaxEntries + 1 >= EvictOneIn
    /\ Nobody \notin IPs

VARIABLES
    connections,   \* IpRateLimiter::connections
    admitted,      \* history: connections of the last window, however evicted
    refused,       \* history: the address the last check refused, or Nobody
    forgotten      \* history: addresses evicted with connections still in the window

limiterVars == <<connections, admitted, refused, forgotten>>

LimiterInit ==
    /\ connections = [ip \in IPs |-> << >>]
    /\ admitted = [ip \in IPs |-> << >>]
    /\ refused = Nobody
    /\ forgotten = {}

Entries == {ip \in IPs : connections[ip] # << >>}

InWindow(a) == a < WindowSecs

\* Mutant of Victims: one fifth is rounded down to nothing.
Victims_None == {{}}

\* The sets check may evict: nothing while the map is small enough, else a fifth of
\* the entries, those whose first Instant is oldest (entries that start at the same
\* time are in the order of the HashMap, which is any).
Victims ==
    IF Cardinality(Entries) <= MaxEntries THEN {{}}
    ELSE {v \in SUBSET Entries :
            /\ Cardinality(v) = Cardinality(Entries) \div EvictOneIn
            /\ \A i \in v, k \in Entries \ v : connections[i][1] >= connections[k][1]}

\* retain(|t| now.duration_since(*t) < window): the times are in order, so there is
\* a number of them that goes and the others, all later, stay.
Recent(entry) ==
    LET gone == CHOOSE n \in 0..Len(entry) :
                    \A k \in 1..Len(entry) : InWindow(entry[k]) <=> k > n
    IN  [k \in 1..Len(entry)-gone |-> entry[k + gone]]

\* The history keeps one connection more than the limit: enough to see it exceeded.
Remember(h) == IF Len(h) > MaxConns THEN Append(Tail(h), 0) ELSE Append(h, 0)

\* check(ip): evict, drop what has left the window, then refuse or record.
check(ip, v) ==
    LET entry == IF ip \in v THEN << >> ELSE Recent(connections[ip])
        ok    == Len(entry) < MaxConns
        kept  == [i \in IPs |-> IF i \in v THEN << >> ELSE connections[i]]
    IN  /\ connections' = [kept EXCEPT ![ip] = IF ok THEN Append(entry, 0) ELSE entry]
        /\ admitted' = [admitted EXCEPT ![ip] = IF ok THEN Remember(@) ELSE @]
        /\ refused' = IF ok THEN Nobody ELSE ip
        /\ forgotten' = forgotten \cup {i \in v : admitted[i] # << >>}

\* Mutant of cleanup: every entry that has an old Instant is dropped whole.
cleanup_DropsWhole ==
    /\ connections' = [ip \in IPs |->
          IF Len(Recent(connections[ip])) = Len(connections[ip]) THEN connections[ip] ELSE << >>]
    /\ refused' = Nobody
    /\ UNCHANGED <<admitted, forgotten>>

\* cleanup: entries lose what has left the window, and disappear when empty.
cleanup ==
    /\ connections' = [ip \in IPs |-> Recent(connections[ip])]
    /\ refused' = Nobody
    /\ UNCHANGED <<admitted, forgotten>>

Older(entry) == [k \in DOMAIN entry |-> IF entry[k] < WindowSecs THEN entry[k] + 1 ELSE WindowSecs]

LimiterTick ==
    /\ connections' = [ip \in IPs |-> Older(connections[ip])]
    /\ admitted' = [ip \in IPs |-> Recent(Older(admitted[ip]))]
    /\ forgotten' = {ip \in forgotten : admitted'[ip] # << >>}
    /\ refused' = Nobody

LimiterNext ==
    \/ \E ip \in IPs, v \in Victims : check(ip, v)
    \/ cleanup
    \/ LimiterTick

LimiterSpec == LimiterInit /\ [][LimiterNext]_limiterVars

-----------------------------------------------------------------------------
(* No address gets more than MaxConns connections in any window, wherever  *)
(* its cleanups and expiries fall (main.rs:68, "max N connections per IP   *)
(* per WINDOW_SECS"), except one that was evicted meanwhile: it starts     *)
(* again with its full allowance.  Nor is an address held to less: it is   *)
(* refused only when it really had MaxConns connections in the last        *)
(* window, whatever other addresses do.                                    *)
PerIpLimit ==
    /\ \A ip \in IPs \ forgotten : Len(admitted[ip]) <= MaxConns
    /\ refused # Nobody => Len(admitted[refused]) >= MaxConns

(* The map never holds more than one address over the limit, however many  *)
(* addresses connect, and no entry holds more times than MaxConns.         *)
EntriesBounded ==
    /\ Cardinality(Entries) <= MaxEntries + 1
    /\ \A ip \in Entries : Len(connections[ip]) <= MaxConns

=============================================================================
