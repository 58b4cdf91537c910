------------------------------ MODULE Failover ------------------------------
(***************************************************************************)
(* The endpoint failover of transport-core: FailoverManager                *)
(* (failover.rs) together with the connection tasks of the SOCKS proxy     *)
(* (proxy.rs, connect_tls and handle_connection) that call it.             *)
(*                                                                         *)
(* Every accepted SOCKS client is a task of its own.  A task takes a       *)
(* snapshot of the current endpoint, awaits the TCP+TLS connect for at     *)
(* most GATEWAY_CONNECT_TIMEOUT, and only then reports success or failure. *)
(* The report is charged to whatever endpoint is current by then.          *)
(*                                                                         *)
(* Time.  Instants are only ever compared by their difference, so the      *)
(* model keeps ages: since[i] is the time elapsed since                    *)
(* states[i].last_failure, saturated at MaxAge, beyond which no test of    *)
(* the code can tell two ages apart; last_failure = None is MaxAge too.    *)
(* report_failure reads the clock before it takes the mutex, so a task     *)
(* that waits for the mutex holds a reading that is conn[c].age old.       *)
(***************************************************************************)
EXTENDS Integers, FiniteSets

CONSTANTS
    N,                \* number of endpoints: endpoints.len()
    Threshold,        \* FAILURE_THRESHOLD
    Interval,         \* FAILOVER_MIN_INTERVAL
    ConnectTimeout,   \* GATEWAY_CONNECT_TIMEOUT
    MaxLag,           \* bound: longest wait for the mutex after reading the clock
    FailureCap,       \* bound: consecutive_failures saturates here
    Conns,            \* connection tasks the proxy may be running at once
    Good,             \* endpoints that always answer
    Flaky             \* endpoints that come and go; the rest never answer

Idx == 0..(N - 1)

ASSUME FailoverAssumption ==
    /\ N \in Nat \ {0} /\ Threshold \in Nat \ {0} /\ Interval \in Nat \ {0}
    /\ ConnectTimeout \in Nat /\ MaxLag \in Nat
    /\ FailureCap \in Nat /\ FailureCap >= Threshold
    /\ Good \subseteq Idx /\ Flaky \subseteq Idx

MaxAge == Interval + MaxLag

VARIABLES
    current_idx,   \* Inner::current_idx
    failures,      \* states[i].consecutive_failures
    since,         \* age of states[i].last_failure
    reachable,     \* environment: endpoints that complete TCP+TLS in time
    conn,          \* per task: phase, endpoint snapshot, age of its timer
    left           \* history: time since the manager last moved off endpoint i

manager == <<current_idx, failures, since>>
vars == <<current_idx, failures, since, reachable, conn, left>>

Phases == {"idle", "connecting", "failed", "handshake", "relay"}

Older(a) == IF a < MaxAge THEN a + 1 ELSE MaxAge

Idle == [phase |-> "idle", ep |-> 0, age |-> 0]

\* Task c moves on to phase p, its timer restarted.
Enter(c, p) == conn' = [conn EXCEPT ![c].phase = p, ![c].age = 0]

Init ==
    /\ current_idx = 0
    /\ failures = [i \in Idx |-> 0]
    /\ since = [i \in Idx |-> MaxAge]
    /\ reachable \in {Good \cup f : f \in SUBSET Flaky}
    /\ conn = [c \in Conns |-> Idle]
    /\ left = [i \in Idx |-> MaxAge]

-----------------------------------------------------------------------------
(* FailoverManager *)

\* EndpointState::in_cooldown for a reading of the clock that is lag old, on the
\* ages s.
InCooldown(s, i, lag) == s[i] - lag < Interval

\* The candidate try_switch_locked reaches after k steps round the list.
Candidate(k) == (current_idx + k) % N

\* try_switch_locked: the first candidate, going round from the next endpoint
\* back to the current one itself, that is not in cooldown.
FirstAvailable(s, k, lag) ==
    /\ ~InCooldown(s, Candidate(k), lag)
    /\ \A j \in 1..(k - 1) : InCooldown(s, Candidate(j), lag)

Bump(n) == IF n < FailureCap THEN n + 1 ELSE FailureCap

\* Mutants of SwitchTo: the count of the endpoint left behind is kept; its
\* last_failure is cleared with it.
SwitchTo_KeepsCount(k, s, lag) ==
    /\ FirstAvailable(s, k, lag)
    /\ current_idx' = Candidate(k)
    /\ failures' = [failures EXCEPT ![current_idx] = Bump(@)]
    /\ left' = [left EXCEPT ![current_idx] = 0]
    /\ since' = s
SwitchTo_ClearsCooldown(k, s, lag) ==
    /\ FirstAvailable(s, k, lag)
    /\ current_idx' = Candidate(k)
    /\ failures' = [failures EXCEPT ![current_idx] = 0]
    /\ left' = [left EXCEPT ![current_idx] = 0]
    /\ since' = [s EXCEPT ![current_idx] = MaxAge]

\* The two outcomes of try_switch_locked on the ages s, with a clock reading that
\* is lag old: move to the first available candidate and forgive the endpoint
\* left behind, or stay on it with f failures.
SwitchTo(k, s, lag) ==
    /\ FirstAvailable(s, k, lag)
    /\ current_idx' = Candidate(k)
    /\ failures' = [failures EXCEPT ![current_idx] = 0]
    /\ left' = [left EXCEPT ![current_idx] = 0]
    /\ since' = s

StayOn(s, f) ==
    /\ failures' = [failures EXCEPT ![current_idx] = f]
    /\ since' = s
    /\ UNCHANGED <<current_idx, left>>

try_switch_locked(s, f, lag) ==
    \/ \E k \in 1..N : SwitchTo(k, s, lag)
    \/ /\ \A k \in 1..N : InCooldown(s, Candidate(k), lag)
       /\ StayOn(s, f)

\* Mutant of report_failure: the switch is only tried on exactly the
\* Threshold-th failure.
report_failure_OnlyOnce(lag) ==
    LET f == Bump(failures[current_idx])
        s == [since EXCEPT ![current_idx] = lag]
    IN  \/ f # Threshold /\ StayOn(s, f)
        \/ f = Threshold /\ try_switch_locked(s, f, lag)

\* report_failure with a clock reading that is lag old; the endpoint it is
\* charged to is the current one.
report_failure(lag) ==
    LET f == Bump(failures[current_idx])
        s == [since EXCEPT ![current_idx] = lag]
    IN  \/ f < Threshold /\ StayOn(s, f)
        \/ f >= Threshold /\ try_switch_locked(s, f, lag)

\* report_success: the current endpoint's record is wiped.
report_success ==
    /\ failures' = [failures EXCEPT ![current_idx] = 0]
    /\ since' = [since EXCEPT ![current_idx] = MaxAge]
    /\ UNCHANGED <<current_idx, left>>

-----------------------------------------------------------------------------
(* Connection tasks: connect_tls and handle_connection *)

\* A SOCKS client got through the greeting and its CONNECT request; connect_tls
\* takes its snapshot of the current endpoint and starts connecting.
Connect(c) ==
    /\ conn[c].phase = "idle"
    /\ conn' = [conn EXCEPT ![c] = [phase |-> "connecting", ep |-> current_idx, age |-> 0]]
    /\ UNCHANGED <<manager, reachable, left>>

\* TCP connect and TLS handshake finish in time.
Connected(c) ==
    /\ conn[c].phase = "connecting"
    /\ conn[c].ep \in reachable
    /\ Enter(c, "handshake")
    /\ UNCHANGED <<manager, reachable, left>>

\* Mutant of ConnectFails: the failure is answered to the client, not reported.
ConnectFails_Unreported(c) ==
    /\ conn[c].phase = "connecting"
    /\ conn[c].ep \notin reachable
    /\ conn' = [conn EXCEPT ![c] = Idle]
    /\ UNCHANGED <<manager, reachable, left>>

\* Refused, DNS failure, TLS failure; or the timeout elapsed.  report_failure has
\* read the clock and waits for the mutex.
ConnectFails(c) ==
    /\ conn[c].phase = "connecting"
    /\ conn[c].ep \notin reachable
    /\ Enter(c, "failed")
    /\ UNCHANGED <<manager, reachable, left>>

\* The task gets the mutex, reports, answers REP_FAILURE and ends.
ReportFailure(c) ==
    /\ conn[c].phase = "failed"
    /\ report_failure(conn[c].age)
    /\ conn' = [conn EXCEPT ![c] = Idle]
    /\ UNCHANGED reachable

\* The steal handshake, the CONNECT frame or its acknowledgement fails: a
\* protocol error, which is deliberately not reported.
HandshakeFails(c) ==
    /\ conn[c].phase = "handshake"
    /\ conn[c].ep \notin Good
    /\ conn' = [conn EXCEPT ![c] = Idle]
    /\ UNCHANGED <<manager, reachable, left>>

\* ack = OK: success is reported, the client gets REP_SUCCESS, relaying starts.
Established(c) ==
    /\ conn[c].phase = "handshake"
    /\ report_success
    /\ Enter(c, "relay")
    /\ UNCHANGED reachable

\* Either end of the tunnel closes; the manager is not involved.
Close(c) ==
    /\ conn[c].phase = "relay"
    /\ conn' = [conn EXCEPT ![c] = Idle]
    /\ UNCHANGED <<manager, reachable, left>>

\* Flaky endpoints come and go.
NetworkChanges ==
    /\ reachable' \in {Good \cup f : f \in SUBSET Flaky} \ {reachable}
    /\ UNCHANGED <<manager, conn, left>>

\* Time passes, but not beyond a running connect timeout, nor beyond the bound on
\* the wait for the mutex.
Timed(c) == conn[c].phase \in {"connecting", "failed"}

Tick ==
    /\ \A c \in Conns :
          /\ conn[c].phase = "connecting" => conn[c].age < ConnectTimeout
          /\ conn[c].phase = "failed" => conn[c].age < MaxLag
    /\ since' = [i \in Idx |-> Older(since[i])]
    /\ left' = [i \in Idx |-> Older(left[i])]
    /\ conn' = [c \in Conns |-> IF Timed(c) THEN [conn[c] EXCEPT !.age = @ + 1] ELSE conn[c]]
    /\ UNCHANGED <<current_idx, failures, reachable>>

Task(c) ==
    \/ Connected(c) \/ ConnectFails(c) \/ ReportFailure(c)
    \/ HandshakeFails(c) \/ Established(c)

Next ==
    \/ \E c \in Conns : Connect(c) \/ Task(c) \/ Close(c)
    \/ NetworkChanges
    \/ Tick

Spec == Init /\ [][Next]_vars

(* The tokio runtime polls every ready task and every expired timer, the   *)
(* clock advances, and the browser retries a connection it still needs.    *)
FairSpec ==
    /\ Spec
    /\ \A c \in Conns : WF_vars(Task(c)) /\ WF_vars(Connect(c))
    /\ WF_vars(Tick)

-----------------------------------------------------------------------------
\* The shape of the state.
TypeOK ==
    /\ current_idx \in Idx
    /\ failures \in [Idx -> 0..FailureCap]
    /\ since \in [Idx -> 0..MaxAge]
    /\ reachable \subseteq Idx
    /\ conn \in [Conns -> [phase : Phases, ep : Idx, age : Nat]]
    /\ left \in [Idx -> 0..MaxAge]

(* An endpoint that is not current carries no failures: whichever task's   *)
(* report moves the manager, the endpoint it moves to starts with its full *)
(* allowance of Threshold failures (failover.rs:165, "reviewer A2 critical *)
(* #1").                                                                   *)
FullAllowance == \A i \in Idx \ {current_idx} : failures[i] = 0

(* The manager sits on an endpoint past the threshold only when every      *)
(* other endpoint had failed less than Interval before the failure that    *)
(* should have moved it: no available endpoint is ever passed over.        *)
StuckOnlyWhenAllCooling ==
    failures[current_idx] >= Threshold =>
        \A i \in Idx : since[i] - since[current_idx] < Interval

(* Once the manager has moved off an endpoint it does not come back before *)
(* Interval has passed, less the time the two reports waited for the       *)
(* mutex: nothing that other tasks report meanwhile, success included,     *)
(* shortens the cooldown of an endpoint that is not current.               *)
NoEarlyReturn ==
    [][current_idx' # current_idx => left[current_idx'] >= Interval - MaxLag]_vars

(* The manager never moves off an endpoint that always answers: failover.rs *)
(* counts "consecutive failures on the current endpoint", and such an       *)
(* endpoint has none.                                                       *)
NeverLeavesAnswering == \A i \in Good : left[i] = MaxAge

(* When an endpoint answers from some time on, the manager is on one that  *)
(* answers again and again, whatever the dead and the flaky ones around it *)
(* do to the shared counters, and with more tasks under way than the       *)
(* threshold: stragglers can drive it off the endpoint that answers, but   *)
(* not keep it off, unless every client has its connection and none asks   *)
(* for an endpoint.  (Whether a given client connects in that time is not  *)
(* promised: its own attempt may begin while the manager is away.)         *)
Reached ==
    \A i \in Idx : <>[](i \in reachable) =>
        []<>(current_idx \in reachable \/ \A c \in Conns : conn[c].phase = "relay")

=============================================================================
