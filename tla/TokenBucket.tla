----------------------------- MODULE TokenBucket -----------------------------
(***************************************************************************)
(* The rate limiter (rate_limiter.rs): one TokenBucket shared by the       *)
(* relays of every connection of the proxy.  A relay that holds a chunk    *)
(* tries to take that many tokens and, while it cannot, sleeps 10 ms and   *)
(* tries again.  Every try starts with a refill under the mutex            *)
(* last_refill; the tokens themselves are an atomic changed by             *)
(* compare-and-exchange, in refills and outside the mutex alike.           *)
(*                                                                         *)
(* A successful compare-and-exchange leaves what one atomic step on the    *)
(* value of that moment leaves, so it is one step here; failed ones only   *)
(* repeat the load.                                                        *)
(*                                                                         *)
(* Time is kept as ages: age is the time since the Instant in last_refill, *)
(* saturated at MaxAge, by when the bucket is full again and no longer age *)
(* makes a difference.  Nothing outside tests calls update_limits: the     *)
(* limits are constants.                                                   *)
(***************************************************************************)
EXTENDS Integers

CONSTANTS
    Tasks,       \* relays that share the bucket
    Capacity,    \* capacity
    Rate,        \* refill_rate, tokens per second
    Second,      \* ticks of the clock in a second
    Chunks,      \* sizes of the chunks; one above Capacity waits for ever
    Demand,      \* bound: chunks each relay carries
    MaxAge,      \* bound: ages saturate here
    Horizon      \* bound: elapsed saturates here

ASSUME BucketAssumption ==
    /\ Capacity \in Nat /\ Rate \in Nat /\ Second \in Nat \ {0}
    /\ Chunks \subseteq Nat /\ Demand \in Nat
    /\ MaxAge \in Nat /\ Rate * (MaxAge \div Second) >= Capacity
    /\ Horizon \in Nat
    /\ "free" \notin Tasks

VARIABLES
    tokens,     \* tokens
    age,        \* age of last_refill
    holder,     \* the task that holds the mutex of last_refill, or "free"
    task,       \* per task: step, chunk, age of its `now', whole seconds, chunks to come
    granted,    \* history: tokens taken so far
    elapsed     \* history: time since the bucket was made

bucketVars == <<tokens, age, holder, task, granted, elapsed>>

Lesser(a, b) == IF a < b THEN a ELSE b

BucketInit ==
    /\ tokens = Capacity
    /\ age = 0
    /\ holder = "free"
    /\ task = [t \in Tasks |->
                 [step |-> "idle", chunk |-> 0, now |-> 0, secs |-> 0, todo |-> Demand]]
    /\ granted = 0
    /\ elapsed = 0

Go(t, s) == task' = [task EXCEPT ![t].step = s]

\* A relay has read a chunk: wait_for_bytes_async(n).
Arrive(t, n) ==
    /\ task[t].step = "idle"
    /\ task[t].todo > 0
    /\ task' = [task EXCEPT ![t].step = "trying", ![t].chunk = n, ![t].todo = @ - 1]
    /\ UNCHANGED <<tokens, age, holder, granted, elapsed>>

\* t has read the clock and counts the whole seconds since last_refill.
StartRefill(t) ==
    task' = [task EXCEPT ![t].step = "refilling", ![t].now = 0, ![t].secs = age \div Second]

\* Mutant of Lock: the mutex does not exclude.
Lock_Shared(t) ==
    /\ task[t].step = "trying"
    /\ IF age >= Second
       THEN holder' = t /\ StartRefill(t)
       ELSE holder' = holder /\ Go(t, "taking")
    /\ UNCHANGED <<tokens, age, granted, elapsed>>

\* refill: lock, read the clock, and go on only if a second has passed.
Lock(t) ==
    /\ task[t].step = "trying"
    /\ holder = "free"
    /\ IF age >= Second
       THEN holder' = t /\ StartRefill(t)
       ELSE holder' = holder /\ Go(t, "taking")
    /\ UNCHANGED <<tokens, age, granted, elapsed>>

\* Add the tokens of the whole seconds that passed, up to the capacity, set
\* last_refill to the clock reading, unlock.
Refill(t) ==
    /\ task[t].step = "refilling"
    /\ tokens' = Lesser(tokens + Rate * task[t].secs, Capacity)
    /\ age' = task[t].now
    /\ holder' = "free"
    /\ task' = [task EXCEPT ![t].step = "taking", ![t].now = 0, ![t].secs = 0]
    /\ UNCHANGED <<granted, elapsed>>

\* try_consume after the refill: take the chunk's tokens, or fail.
Take(t) ==
    /\ task[t].step = "taking"
    /\ tokens >= task[t].chunk
    /\ tokens' = tokens - task[t].chunk
    /\ granted' = granted + task[t].chunk
    /\ Go(t, "idle")
    /\ UNCHANGED <<age, holder, elapsed>>

Short(t) ==
    /\ task[t].step = "taking"
    /\ tokens < task[t].chunk
    /\ Go(t, "sleeping")
    /\ UNCHANGED <<tokens, age, holder, granted, elapsed>>

\* wait_for_tokens: the 10 ms are over.
Wake(t) ==
    /\ task[t].step = "sleeping"
    /\ Go(t, "trying")
    /\ UNCHANGED <<tokens, age, holder, granted, elapsed>>

\* Time passes.  A clock reading is used within a second.
BucketTick ==
    /\ \A t \in Tasks : task[t].step = "refilling" => task[t].now < Second
    /\ age' = Lesser(age + 1, MaxAge)
    /\ elapsed' = Lesser(elapsed + 1, Horizon)
    /\ task' = [t \in Tasks |->
                  IF task[t].step = "refilling" THEN [task[t] EXCEPT !.now = @ + 1] ELSE task[t]]
    /\ UNCHANGED <<tokens, holder, granted>>

Step(t) == Lock(t) \/ Refill(t) \/ Take(t) \/ Short(t) \/ Wake(t)

BucketNext ==
    \/ \E t \in Tasks : Step(t) \/ \E n \in Chunks : Arrive(t, n)
    \/ BucketTick

BucketSpec == BucketInit /\ [][BucketNext]_bucketVars

-----------------------------------------------------------------------------
(* However the relays race for the mutex and the tokens, all of them       *)
(* together never get more than a full bucket and Rate for every whole     *)
(* second since it was made: no second is paid out twice.  The bucket never *)
(* overflows, and the unsigned count of tokens never falls below 0.        *)
WithinRate ==
    /\ tokens \in 0..Capacity
    /\ elapsed < Horizon => granted + tokens <= Capacity + Rate * (elapsed \div Second)

=============================================================================
