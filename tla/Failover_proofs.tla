-------------------------- MODULE Failover_proofs --------------------------
(***************************************************************************)
(* Proofs about endpoint failover for every number of endpoints and tasks  *)
(* and every threshold and interval.                                       *)
(*                                                                         *)
(* NoEarlyReturn needs two facts the runs do not state: a task never waits *)
(* longer than MaxLag for the mutex, and the age of the last failure of an *)
(* endpoint that is not current exceeds the time since it was left by at   *)
(* most MaxLag.                                                            *)
(***************************************************************************)
EXTENDS Failover, TLAPS

\* A clock reading is at most MaxLag old when it is used.
LagBounded == \A c \in Conns : conn[c].phase = "failed" => conn[c].age <= MaxLag

\* Nothing rejuvenates or ages the record of an endpoint that is not current.
CooldownKept == \A i \in Idx \ {current_idx} : since[i] <= left[i] + MaxLag

IInv ==
    /\ TypeOK
    /\ FullAllowance
    /\ StuckOnlyWhenAllCooling
    /\ LagBounded
    /\ CooldownKept

USE FailoverAssumption DEF MaxAge

\* The remainder the walk round the list computes, before and after it wraps.
LEMMA ModBelow ==
    ASSUME NEW n \in Nat \ {0}, NEW i \in 0..(n - 1)
    PROVE  i % n = i
<1> DEFINE q == i \div n
           r == i % n
<1>1. i = n * q + r /\ r \in 0..(n - 1) /\ q \in Int
  OBVIOUS
<1> HIDE DEF q, r
<1>2. CASE q >= 1
  <2>1. n * q >= n
    BY <1>1, <1>2
  <2> QED
    BY <1>1, <2>1
<1>3. CASE q <= -1
  <2>1. n * q <= -n
    BY <1>1, <1>3
  <2> QED
    BY <1>1, <2>1
<1>4. CASE q = 0
  <2>1. n * q = 0
    BY <1>4
  <2> QED
    BY <1>1, <2>1 DEF r
<1> QED
  BY <1>1, <1>2, <1>3, <1>4

\* The same one turn further on.
LEMMA ModWrapped ==
    ASSUME NEW n \in Nat \ {0}, NEW i \in 0..(n - 1)
    PROVE  (i + n) % n = i
<1> DEFINE q == (i + n) \div n
           r == (i + n) % n
<1>1. i + n = n * q + r /\ r \in 0..(n - 1) /\ q \in Int
  OBVIOUS
<1> HIDE DEF q, r
<1>2. CASE q >= 2
  <2>1. n * q >= n + n
    BY <1>1, <1>2
  <2> QED
    BY <1>1, <2>1
<1>3. CASE q <= 0
  <2>1. n * q <= 0
    BY <1>1, <1>3
  <2> QED
    BY <1>1, <2>1
<1>4. CASE q = 1
  <2>1. n * q = n
    BY <1>4
  <2> QED
    BY <1>1, <2>1 DEF r
<1> QED
  BY <1>1, <1>2, <1>3, <1>4

\* The walk round the list stays inside it.
LEMMA CandidateInRange ==
    ASSUME current_idx \in Idx, NEW k \in 1..N
    PROVE  Candidate(k) \in Idx
BY DEF Candidate, Idx

\* report_failure for a reading no older than MaxLag preserves what concerns the
\* manager, whether it stays or moves.
LEMMA ReportFailureStep ==
    ASSUME IInv, NEW lag \in Nat, lag <= MaxLag, report_failure(lag)
    PROVE  /\ current_idx' \in Idx
           /\ failures' \in [Idx -> 0..FailureCap]
           /\ since' \in [Idx -> 0..MaxAge]
           /\ left' \in [Idx -> 0..MaxAge]
           /\ FullAllowance' /\ StuckOnlyWhenAllCooling' /\ CooldownKept'
           /\ current_idx' # current_idx => left[current_idx'] >= Interval - MaxLag
<1> DEFINE f == Bump(failures[current_idx])
           s == [since EXCEPT ![current_idx] = lag]
<1>0. /\ current_idx \in Idx
      /\ failures \in [Idx -> 0..FailureCap]
      /\ since \in [Idx -> 0..MaxAge]
      /\ left \in [Idx -> 0..MaxAge]
  BY DEF IInv, TypeOK
<1>1. f \in 0..FailureCap
  BY <1>0 DEF Bump
<1>2. s \in [Idx -> 0..MaxAge] /\ s[current_idx] = lag
  BY <1>0
<1>3. CASE f < Threshold /\ StayOn(s, f)
  <2> USE <1>0, <1>1, <1>2, <1>3 DEF StayOn
  <2>1. FullAllowance'
    BY DEF IInv, FullAllowance
  <2>2. StuckOnlyWhenAllCooling'
    BY DEF StuckOnlyWhenAllCooling
  <2>3. CooldownKept'
    BY DEF IInv, CooldownKept
  <2> QED
    BY <2>1, <2>2, <2>3
<1>4. CASE f >= Threshold /\ try_switch_locked(s, f, lag)
  <2>1. ASSUME NEW k \in 1..N, SwitchTo(k, s, lag)
        PROVE  /\ current_idx' \in Idx
               /\ failures' \in [Idx -> 0..FailureCap]
               /\ since' \in [Idx -> 0..MaxAge]
               /\ left' \in [Idx -> 0..MaxAge]
               /\ FullAllowance' /\ StuckOnlyWhenAllCooling' /\ CooldownKept'
               /\ current_idx' # current_idx
                     => left[current_idx'] >= Interval - MaxLag
    <3> DEFINE j == Candidate(k)
    <3>1. /\ j \in Idx /\ current_idx' = j /\ since' = s
          /\ failures' = [failures EXCEPT ![current_idx] = 0]
          /\ left' = [left EXCEPT ![current_idx] = 0]
      BY <2>1, <1>0, CandidateInRange DEF SwitchTo
    <3>2. s[j] - lag >= Interval
      BY <2>1, <1>2, <3>1 DEF SwitchTo, FirstAvailable, InCooldown
    <3>3. j # current_idx
      BY <1>2, <3>2
    <3> HIDE DEF j
    <3>4. failures'[j] = 0 /\ FullAllowance'
      BY <1>0, <3>1, <3>3 DEF IInv, FullAllowance
    <3>5. StuckOnlyWhenAllCooling'
      BY <3>1, <3>4 DEF StuckOnlyWhenAllCooling
    <3>6. CooldownKept'
      BY <1>0, <1>2, <3>1, <3>3 DEF IInv, CooldownKept
    <3>7. left[j] >= Interval - MaxLag
      <4>1. since[j] >= Interval /\ since[j] <= left[j] + MaxLag
        BY <1>0, <3>1, <3>2, <3>3 DEF IInv, CooldownKept
      <4> QED
        BY <1>0, <3>1, <4>1
    <3>8. failures' \in [Idx -> 0..FailureCap] /\ left' \in [Idx -> 0..MaxAge]
      BY <1>0, <3>1
    <3> QED
      BY <1>2, <3>1, <3>4, <3>5, <3>6, <3>7, <3>8
  <2>2. CASE StayOn(s, f) /\ \A k \in 1..N : InCooldown(s, Candidate(k), lag)
    <3> USE <1>0, <1>1, <1>2, <2>2 DEF StayOn
    <3>1. FullAllowance'
      BY DEF IInv, FullAllowance
    <3>2. \A i \in Idx : \E k \in 1..N : Candidate(k) = i
      <4> SUFFICES ASSUME NEW i \in Idx PROVE \E k \in 1..N : Candidate(k) = i
        OBVIOUS
      <4>1. CASE i > current_idx
        <5>1. i - current_idx \in 1..N /\ (current_idx + (i - current_idx)) = i
          BY <4>1 DEF Idx
        <5>2. i % N = i
          BY ModBelow DEF Idx
        <5>3. Candidate(i - current_idx) = i
          BY <5>1, <5>2 DEF Candidate
        <5> QED
          BY <5>1, <5>3
      <4>2. CASE i <= current_idx
        <5>1. /\ i - current_idx + N \in 1..N
              /\ current_idx + (i - current_idx + N) = i + N
          BY <4>2 DEF Idx
        <5>2. (i + N) % N = i
          BY ModWrapped DEF Idx
        <5>3. Candidate(i - current_idx + N) = i
          BY <5>1, <5>2 DEF Candidate
        <5> QED
          BY <5>1, <5>3
      <4> QED
        BY <4>1, <4>2 DEF Idx
    <3>3. StuckOnlyWhenAllCooling'
      <4>1. \A i \in Idx : s[i] - lag < Interval
        BY <3>2 DEF InCooldown
      <4> QED
        BY <4>1 DEF StuckOnlyWhenAllCooling
    <3>4. CooldownKept'
      BY DEF IInv, CooldownKept
    <3> QED
      BY <3>1, <3>3, <3>4
  <2> QED
    BY <1>4, <2>1, <2>2 DEF try_switch_locked
<1> QED
  BY <1>3, <1>4 DEF report_failure

\* Steps that leave the manager and the history alone only have to keep tasks
\* well formed and their clock readings fresh.
LEMMA ManagerUntouched ==
    ASSUME IInv, UNCHANGED <<manager, left>>
    PROVE  FullAllowance' /\ StuckOnlyWhenAllCooling' /\ CooldownKept'
BY DEF IInv, manager, FullAllowance, StuckOnlyWhenAllCooling, CooldownKept

\* Idle is a task record.
LEMMA IdleType == Idle \in [phase : Phases, ep : Idx, age : Nat]
BY DEF Idle, Phases, Idx

\* Every step of a connection task preserves the invariant.
LEMMA TaskStep ==
    ASSUME IInv, NEW c \in Conns, Connect(c) \/ Task(c) \/ Close(c)
    PROVE  IInv'
<1> USE IdleType
<1>0. TypeOK /\ LagBounded
  BY DEF IInv
<1>1. CASE Connect(c)
  <2>1. TypeOK' /\ LagBounded'
    BY <1>0, <1>1 DEF Connect, TypeOK, LagBounded, manager, Phases
  <2> QED
    BY <1>1, <2>1, ManagerUntouched DEF Connect, IInv
<1>2. CASE Connected(c)
  <2>1. TypeOK' /\ LagBounded'
    BY <1>0, <1>2 DEF Connected, Enter, TypeOK, LagBounded, manager, Phases
  <2> QED
    BY <1>2, <2>1, ManagerUntouched DEF Connected, IInv
<1>3. CASE ConnectFails(c)
  <2>1. TypeOK' /\ LagBounded'
    <3>1. conn' \in [Conns -> [phase : Phases, ep : Idx, age : Nat]]
      BY <1>0, <1>3 DEF ConnectFails, Enter, TypeOK, Phases
    <3>2. \A d \in Conns : conn'[d].phase = "failed" => conn'[d].age <= MaxLag
      BY <1>0, <1>3 DEF ConnectFails, Enter, TypeOK, LagBounded
    <3> QED
      BY <1>0, <1>3, <3>1, <3>2 DEF ConnectFails, TypeOK, LagBounded, manager
  <2> QED
    BY <1>3, <2>1, ManagerUntouched DEF ConnectFails, IInv
<1>4. CASE ReportFailure(c)
  <2>1. conn[c].age \in Nat /\ conn[c].age <= MaxLag
    BY <1>0, <1>4 DEF ReportFailure, TypeOK, LagBounded
  <2>2. LagBounded' /\ conn' \in [Conns -> [phase : Phases, ep : Idx, age : Nat]]
    BY <1>0, <1>4 DEF ReportFailure, TypeOK, LagBounded, Idle
  <2> QED
    BY <1>0, <1>4, <2>1, <2>2, ReportFailureStep DEF ReportFailure, TypeOK, IInv
<1>5. CASE HandshakeFails(c)
  <2>1. TypeOK' /\ LagBounded'
    BY <1>0, <1>5 DEF HandshakeFails, TypeOK, LagBounded, manager, Idle
  <2> QED
    BY <1>5, <2>1, ManagerUntouched DEF HandshakeFails, IInv
<1>6. CASE Established(c)
  <2>1. TypeOK' /\ LagBounded'
    <3>1. conn' \in [Conns -> [phase : Phases, ep : Idx, age : Nat]]
      BY <1>0, <1>6 DEF Established, Enter, TypeOK, Phases
    <3>2. \A d \in Conns : conn'[d].phase = "failed" => conn'[d].age <= MaxLag
      BY <1>0, <1>6 DEF Established, Enter, TypeOK, LagBounded
    <3>3. failures' \in [Idx -> 0..FailureCap] /\ since' \in [Idx -> 0..MaxAge]
      BY <1>0, <1>6 DEF Established, report_success, TypeOK
    <3> QED
      BY <1>0, <1>6, <3>1, <3>2, <3>3
      DEF Established, report_success, TypeOK, LagBounded
  <2>2. FullAllowance' /\ StuckOnlyWhenAllCooling' /\ CooldownKept'
    BY <1>0, <1>6
    DEF Established, report_success, TypeOK, IInv, FullAllowance,
        StuckOnlyWhenAllCooling, CooldownKept
  <2> QED
    BY <2>1, <2>2 DEF IInv
<1>7. CASE Close(c)
  <2>1. TypeOK' /\ LagBounded'
    BY <1>0, <1>7 DEF Close, TypeOK, LagBounded, manager, Idle
  <2> QED
    BY <1>7, <2>1, ManagerUntouched DEF Close, IInv
<1> QED
  BY <1>1, <1>2, <1>3, <1>4, <1>5, <1>6, <1>7 DEF Task

\* The clock preserves the invariant: ages saturate together.
LEMMA TickStep ==
    ASSUME IInv, Tick
    PROVE  IInv'
<1>0. TypeOK /\ LagBounded
  BY DEF IInv
<1>1. conn' \in [Conns -> [phase : Phases, ep : Idx, age : Nat]] /\ LagBounded'
  BY <1>0 DEF Tick, Timed, TypeOK, LagBounded
<1>2. /\ since' \in [Idx -> 0..MaxAge] /\ left' \in [Idx -> 0..MaxAge]
      /\ \A i \in Idx : since'[i] = Older(since[i]) /\ left'[i] = Older(left[i])
  BY <1>0 DEF Tick, TypeOK, Older
<1>3. TypeOK'
  BY <1>0, <1>1, <1>2 DEF Tick, TypeOK
<1>4. FullAllowance'
  BY DEF Tick, IInv, FullAllowance
<1>5. StuckOnlyWhenAllCooling'
  BY <1>0, <1>2 DEF Tick, TypeOK, Older, IInv, StuckOnlyWhenAllCooling
<1>6. CooldownKept'
  BY <1>0, <1>2 DEF Tick, TypeOK, Older, IInv, CooldownKept
<1> QED
  BY <1>1, <1>3, <1>4, <1>5, <1>6 DEF IInv

\* The inductive invariant of failover.
THEOREM Inductive == Spec => []IInv
<1>1. Init => IInv
  <2> SUFFICES ASSUME Init PROVE IInv
    OBVIOUS
  <2>1. reachable \subseteq Idx /\ 0 \in Idx
    <3>1. PICK f \in SUBSET Flaky : reachable = Good \cup f
      BY DEF Init
    <3>2. 0 \in Idx
      BY DEF Idx
    <3> QED
      BY <3>1, <3>2
  <2>2. conn \in [Conns -> [phase : Phases, ep : Idx, age : Nat]] /\ LagBounded
    BY IdleType DEF Init, Idle, LagBounded
  <2>3. TypeOK
    BY <2>1, <2>2 DEF Init, TypeOK
  <2> QED
    BY <2>1, <2>2, <2>3
    DEF Init, IInv, FullAllowance, StuckOnlyWhenAllCooling, CooldownKept
<1>2. IInv /\ [Next]_vars => IInv'
  <2> SUFFICES ASSUME IInv, [Next]_vars PROVE IInv'
    OBVIOUS
  <2>1. CASE NetworkChanges
    <3>1. TypeOK' /\ LagBounded'
      BY <2>1 DEF NetworkChanges, IInv, TypeOK, LagBounded, manager
    <3> QED
      BY <2>1, <3>1, ManagerUntouched DEF NetworkChanges, IInv
  <2>2. CASE UNCHANGED vars
    BY <2>2
    DEF vars, IInv, TypeOK, FullAllowance, StuckOnlyWhenAllCooling, LagBounded,
        CooldownKept
  <2> QED
    BY <2>1, <2>2, TaskStep, TickStep DEF Next
<1> QED
  BY <1>1, <1>2, PTL DEF Spec

\* FailoverManager's state stays well formed: the index never leaves the list.
THEOREM TypeCorrect == Spec => []TypeOK
BY Inductive, PTL DEF IInv

\* Every endpoint the manager moves to starts with no failures against it.
THEOREM AllowanceAlwaysFull == Spec => []FullAllowance
BY Inductive, PTL DEF IInv

\* The manager stays on a failing endpoint only when all others are cooling.
THEOREM NoEndpointPassedOver == Spec => []StuckOnlyWhenAllCooling
BY Inductive, PTL DEF IInv

\* The manager never returns to an endpoint before its cooldown is over.
THEOREM CooldownRespected == Spec => NoEarlyReturn
<1>1. IInv /\ [Next]_vars
         => [current_idx' # current_idx
                => left[current_idx'] >= Interval - MaxLag]_vars
  <2> SUFFICES ASSUME IInv, Next, current_idx' # current_idx
               PROVE  left[current_idx'] >= Interval - MaxLag
    OBVIOUS
  <2>1. PICK c \in Conns : ReportFailure(c)
    BY DEF Next, Task, Connect, Connected, ConnectFails, HandshakeFails, Established,
           report_success, Close, NetworkChanges, Tick, manager
  <2>2. conn[c].age \in Nat /\ conn[c].age <= MaxLag
    BY <2>1 DEF ReportFailure, IInv, TypeOK, LagBounded
  <2> QED
    BY <2>1, <2>2, ReportFailureStep DEF ReportFailure
<1> QED
  BY <1>1, Inductive, PTL DEF Spec, NoEarlyReturn

=============================================================================
