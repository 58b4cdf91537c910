----------------------- MODULE TransportService_proofs -----------------------
(***************************************************************************)
(* Proofs about the C interface (TransportFfi) and the app's service on    *)
(* top of it, for any sets of callers, workers and ports.                  *)
(***************************************************************************)
EXTENDS TransportService, TLAPS

USE FfiAssumption

-----------------------------------------------------------------------------
(* The C interface *)

\* A start waits for a worker that nobody else has and nobody has woken.
WaitingOwns ==
    \A c \in Callers : pc[c] = "waiting" =>
        /\ slot # job[c] /\ ~permit[job[c]]
        /\ chan[job[c]] = "empty" => phase[job[c]] = "binding"
        /\ chan[job[c]] = "bound" => phase[job[c]] \in {"bound", "serving", "broken"}

\* NoOrphan, for workers that have not bound yet as well.
NoneLost ==
    \A w \in Workers : phase[w] \in {"binding", "bound", "serving"} =>
        slot = w \/ (\E c \in Callers : job[c] = w) \/ w \in late \cup replaced

IInv == TypeOK /\ OneOwner /\ WaitingOwns /\ NoneLost /\ StatusTruthful

\* At the start the slot is empty and no call is under way.
LEMMA InitIInv == Init => IInv
  BY DEF Init, IInv, TypeOK, OneOwner, WaitingOwns, NoneLost, StatusTruthful, StatusRunning

\* A start waits for a worker nobody had.
LEMMA StartSpawnsIInv ==
    ASSUME IInv, NEW c \in Callers, NEW w \in Workers, NEW p \in Ports, StartSpawns(c, w, p)
    PROVE  IInv'
  <1> USE DEF IInv, StartSpawns, WaitFor, Unused, Ended
  <1>1. TypeOK'
    BY DEF TypeOK
  <1>2. OneOwner'
    BY DEF TypeOK, OneOwner
  <1>3. WaitingOwns'
    BY DEF TypeOK, WaitingOwns
  <1>4. NoneLost'
    BY DEF TypeOK, NoneLost
  <1>5. StatusTruthful'
    BY DEF StatusTruthful, StatusRunning
  <1> QED
    BY <1>1, <1>2, <1>3, <1>4, <1>5

\* A start that is told of the bind stores its worker in the slot.
LEMMA StartSucceedsIInv ==
    ASSUME IInv, NEW c \in Callers, StartSucceeds(c)
    PROVE  IInv'
  <1> USE DEF IInv, StartSucceeds, Return, worker
  <1>0. job[c] \in Workers
    BY DEF TypeOK
  <1>1. TypeOK'
    BY <1>0 DEF TypeOK
  <1>2. OneOwner'
    BY <1>0 DEF TypeOK, OneOwner
  <1>3. WaitingOwns'
    BY <1>0 DEF TypeOK, OneOwner, WaitingOwns
  <1>4. NoneLost'
    BY <1>0 DEF TypeOK, NoneLost
  <1>5. StatusTruthful'
    BY <1>0 DEF TypeOK, StatusTruthful, StatusRunning, WaitingOwns, Listening
  <1> QED
    BY <1>1, <1>2, <1>3, <1>4, <1>5

\* A call that returns and leaves the slot alone.
LEMMA ReturnIInv ==
    ASSUME IInv, NEW c \in Callers,
           StartFails(c) \/ StartTimesOut(c) \/ StopJoins(c)
    PROVE  IInv'
  <1>1. /\ pc[c] # "idle"
        /\ pc' = [pc EXCEPT ![c] = "idle"] /\ job' = [job EXCEPT ![c] = None]
        /\ slot' = slot /\ taken' = taken /\ replaced' = replaced
        /\ phase' = phase /\ port' = port /\ chan' = chan /\ permit' = permit
    BY DEF StartFails, StartTimesOut, StopJoins, Return, worker, history
  <1>2. late' = late \cup {job[c]} \/ (late' = late /\ phase[job[c]] \in {"exited", "broken"})
    BY DEF StartFails, StartTimesOut, StopJoins, history, Ended
  <1>3. job[c] \in Workers
    BY <1>1 DEF IInv, TypeOK
  <1>4. TypeOK'
    BY <1>1, <1>2, <1>3 DEF IInv, TypeOK
  <1>5. OneOwner'
    BY <1>1, <1>3 DEF IInv, TypeOK, OneOwner
  <1>6. WaitingOwns'
    BY <1>1, <1>3 DEF IInv, TypeOK, WaitingOwns
  <1>7. NoneLost'
    BY <1>1, <1>2, <1>3 DEF IInv, TypeOK, NoneLost
  <1>8. StatusTruthful'
    BY <1>1 DEF IInv, StatusTruthful, StatusRunning, Listening
  <1> QED
    BY <1>4, <1>5, <1>6, <1>7, <1>8 DEF IInv

\* A stop takes the worker out of the slot and wakes it.
LEMMA StopTakesIInv ==
    ASSUME IInv, NEW c \in Callers, StopTakes(c)
    PROVE  IInv'
  <1> USE DEF IInv, StopTakes, WaitFor, history
  <1>1. TypeOK'
    BY DEF TypeOK
  <1>2. OneOwner'
    BY DEF TypeOK, OneOwner, WaitingOwns
  <1>3. WaitingOwns'
    BY DEF TypeOK, WaitingOwns
  <1>4. NoneLost'
    BY DEF TypeOK, NoneLost
  <1>5. StatusTruthful'
    BY DEF StatusTruthful, StatusRunning
  <1> QED
    BY <1>1, <1>2, <1>3, <1>4, <1>5

\* What a worker thread changes of itself.
WorkerStep(w, p, m) ==
    /\ phase' = [phase EXCEPT ![w] = p] /\ chan' = [chan EXCEPT ![w] = m]
    /\ slot' = slot /\ pc' = pc /\ job' = job /\ port' = port /\ permit' = permit
    /\ taken' = taken /\ late' = late /\ replaced' = replaced

\* A worker's step changes its own state only.
LEMMA WorkerStepIInv ==
    ASSUME IInv, NEW w \in Workers, NEW p, NEW m, WorkerStep(w, p, m),
           \/ phase[w] = "binding" /\ p = "bound" /\ m = "bound"
           \/ phase[w] = "binding" /\ p = "exited" /\ m = "failed"
           \/ phase[w] = "bound" /\ p = "serving" /\ m = chan[w]
           \/ phase[w] = "serving" /\ p = "exited" /\ m = chan[w] /\ permit[w]
           \/ phase[w] = "serving" /\ p = "broken" /\ m = chan[w]
    PROVE  IInv'
  <1> USE DEF IInv, WorkerStep
  <1>1. TypeOK'
    BY DEF TypeOK
  <1>2. OneOwner'
    BY DEF TypeOK, OneOwner
  <1>3. WaitingOwns'
    BY DEF TypeOK, WaitingOwns
  <1>4. NoneLost'
    BY DEF TypeOK, NoneLost
  <1>5. StatusTruthful'
    BY DEF TypeOK, StatusTruthful, StatusRunning, Listening
  <1> QED
    BY <1>1, <1>2, <1>3, <1>4, <1>5

\* Every step of a worker, accept errors included.
LEMMA WorkerIInv ==
    ASSUME IInv, NEW w \in Workers, Runs(w) \/ AcceptFails(w)
    PROVE  IInv'
  <1> USE DEF WorkerStep, call, history
  <1>0. chan = [chan EXCEPT ![w] = chan[w]]
    BY DEF IInv, TypeOK
  <1>1. CASE Binds(w)
    <2>1. phase[w] = "binding" /\ WorkerStep(w, "bound", "bound")
      BY <1>1 DEF Binds
    <2> QED
      BY <2>1, WorkerStepIInv
  <1>2. CASE BindFails(w)
    <2>1. phase[w] = "binding" /\ WorkerStep(w, "exited", "failed")
      BY <1>2 DEF BindFails
    <2> QED
      BY <2>1, WorkerStepIInv
  <1>3. CASE Serves(w)
    <2>1. phase[w] = "bound" /\ WorkerStep(w, "serving", chan[w])
      BY <1>3, <1>0 DEF Serves
    <2> QED
      BY <2>1, WorkerStepIInv
  <1>4. CASE ShutsDown(w)
    <2>1. phase[w] = "serving" /\ permit[w] /\ WorkerStep(w, "exited", chan[w])
      BY <1>4, <1>0 DEF ShutsDown
    <2> QED
      BY <2>1, WorkerStepIInv
  <1>5. CASE AcceptFails(w)
    <2>1. phase[w] = "serving" /\ WorkerStep(w, "broken", chan[w])
      BY <1>5, <1>0 DEF AcceptFails
    <2> QED
      BY <2>1, WorkerStepIInv
  <1> QED
    BY <1>1, <1>2, <1>3, <1>4, <1>5 DEF Runs

\* Other processes only change which ports are taken.
LEMMA OtherProcessIInv ==
    ASSUME IInv, NEW p \in Ports, OtherProcess(p)
    PROVE  IInv'
  BY DEF IInv, OtherProcess, call, worker, history, TypeOK, OneOwner, WaitingOwns, NoneLost,
         StatusTruthful, StatusRunning, Listening

\* Every step of the C interface keeps the invariant.
LEMMA NextIInv == IInv /\ [Next]_vars => IInv'
  <1>1. IInv /\ UNCHANGED vars => IInv'
    BY DEF vars, IInv, TypeOK, OneOwner, WaitingOwns, NoneLost,
           StatusTruthful, StatusRunning, Listening
  <1> QED
    BY <1>1, StartSpawnsIInv, StartSucceedsIInv, ReturnIInv, StopTakesIInv, WorkerIInv,
       OtherProcessIInv DEF Next, Returns

\* The inductive invariant of lib.rs holds throughout.
THEOREM IInvAlways == Spec => []IInv
  BY InitIInv, NextIInv, PTL DEF Spec

-----------------------------------------------------------------------------
(* The service *)

\* The service calls the interface or leaves it alone.
LEMMA StepRefines == [ServiceNext]_allVars => [Next]_vars
  <1> SUFFICES ASSUME [ServiceNext]_allVars PROVE [Next]_vars
    OBVIOUS
  <1>1. CASE UNCHANGED allVars
    BY <1>1, Zenon DEF allVars
  <1>2. ASSUME NEW c \in Callers, NEW w \in Workers, NEW p \in Ports, start(c, w, p) PROVE Next
    BY <1>2, Zenon DEF start, Next
  <1>3. ASSUME NEW c \in Callers,
               startRefused(c) \/ startUnconfigured(c) \/ stopFindsNothing(c) \/ EngineRestarts(c)
        PROVE  UNCHANGED vars
    BY <1>3, Zenon DEF startRefused, startUnconfigured, stopFindsNothing, EngineRestarts
  <1>4. ASSUME NEW c \in Callers, stop(c) \/ callReturns(c) PROVE Next
    BY <1>4, Zenon DEF stop, callReturns, Returns, Next
  <1>5. ASSUME Native PROVE Next
    BY <1>5, Zenon DEF Native, Next
  <1> QED
    BY <1>1, <1>2, <1>3, <1>4, <1>5, Zenon DEF ServiceNext

(* Under the app's service the C interface behaves as TransportFfi says:   *)
(* transport_service.dart adds no way to use lib.rs that it does not       *)
(* allow.                                                                  *)
THEOREM FfiImplemented == ServiceSpec => Spec
  <1>1. ServiceInit => Init
    BY DEF ServiceInit
  <1> QED
    BY <1>1, StepRefines, PTL DEF ServiceSpec, Spec

(* The slot, the calls and the workers keep their types, and a call that   *)
(* blocks has a worker to wait for (lib.rs).                               *)
THEOREM TypeCorrect == ServiceSpec => []TypeOK
  <1>1. IInv => TypeOK
    BY DEF IInv
  <1> QED
    BY <1>1, FfiImplemented, IInvAlways, PTL

(* A proxy that listens is lost only when its start gave up waiting or a   *)
(* concurrent start overwrote it, for any number of threads that call      *)
(* transport_start and transport_stop.                                     *)
THEOREM NeverOrphaned == ServiceSpec => []NoOrphan
  <1>1. IInv => NoOrphan
    BY DEF IInv, NoneLost, NoOrphan, Listening
  <1> QED
    BY <1>1, FfiImplemented, IInvAlways, PTL

(* No two calls wait for one worker, and none stops the transport that is  *)
(* in the slot: the slot's mutex hands each worker to one stop (lib.rs).   *)
THEOREM AlwaysOneOwner == ServiceSpec => []OneOwner
  <1>1. IInv => OneOwner
    BY DEF IInv
  <1> QED
    BY <1>1, FfiImplemented, IInvAlways, PTL

(* transport_get_status says running only of a proxy that listens or that  *)
(* an accept error has ended.                                              *)
THEOREM StatusAlwaysTruthful == ServiceSpec => []StatusTruthful
  <1>1. IInv => StatusTruthful
    BY DEF IInv
  <1> QED
    BY <1>1, FfiImplemented, IInvAlways, PTL

-----------------------------------------------------------------------------
(* What the app can stop *)

\* The service that says running is not in the middle of a call: were it, its stop
\* would have emptied the slot.
SomeoneIdle ==
    services = Callers /\ slot # None =>
        slot \in abandoned \/ \E c \in Callers : state[c] = "running" /\ pc[c] = "idle"

StateShape ==
    /\ state = [c \in Callers |-> state[c]]
    /\ pc = [c \in Callers |-> pc[c]]

SvcInv == StateShape /\ SomeoneIdle

\* At the start no service is running.
LEMMA InitSvcInv == ServiceInit => SvcInv
  BY DEF ServiceInit, Init, SvcInv, StateShape, SomeoneIdle

\* A service that is neither running nor calling changes only its own state.
LEMMA IdleServiceSvcInv ==
    ASSUME SvcInv, NEW c \in Callers,
           startRefused(c) \/ startUnconfigured(c) \/ stopFindsNothing(c)
    PROVE  SvcInv'
  <1>1. /\ state[c] # "running" \/ slot = None
        /\ slot' = slot /\ pc' = pc /\ services' = services /\ abandoned' = abandoned
    BY DEF startRefused, startUnconfigured, stopFindsNothing, Becomes, vars
  <1>2. PICK s : state' = [state EXCEPT ![c] = s]
    BY DEF startRefused, startUnconfigured, stopFindsNothing, Becomes
  <1> QED
    BY <1>1, <1>2 DEF SvcInv, StateShape, SomeoneIdle

\* Every call that goes out finds the slot empty or empties it.
LEMMA CallSvcInv ==
    ASSUME SvcInv, NEW c \in Callers, stop(c) \/ \E w \in Workers, p \in Ports : start(c, w, p)
    PROVE  SvcInv'
  <1>1. slot' = None /\ \E p : pc' = [pc EXCEPT ![c] = p]
    BY DEF stop, StopTakes, start, StartSpawns, WaitFor
  <1>2. state' = state \/ \E s : state' = [state EXCEPT ![c] = s]
    BY DEF stop, service, start, Becomes
  <1> QED
    BY <1>1, <1>2 DEF SvcInv, StateShape, SomeoneIdle

\* A start that succeeds says so itself; what other calls return is no news to the
\* service that is running.
LEMMA ReturnsSvcInv ==
    ASSUME SvcInv, NEW c \in Callers, callReturns(c)
    PROVE  SvcInv'
  <1>1. /\ pc[c] # "idle" /\ pc' = [pc EXCEPT ![c] = "idle"]
        /\ services' = services /\ abandoned' = abandoned
    BY DEF callReturns, StartSucceeds, StartFails, StartTimesOut, StopJoins, Return, Becomes
  <1>2. CASE StartSucceeds(c) /\ Becomes(c, "running")
    <2>1. state' = IF c \in services THEN [state EXCEPT ![c] = "running"] ELSE state
      BY <1>2 DEF Becomes
    <2> QED
      BY <1>1, <2>1 DEF SvcInv, StateShape, SomeoneIdle
  <1>3. CASE ~(StartSucceeds(c) /\ Becomes(c, "running"))
    <2>1. slot' = slot
      BY <1>3 DEF callReturns, StartFails, StartTimesOut, StopJoins
    <2>2. state' = state \/ \E s : state' = [state EXCEPT ![c] = s]
      BY DEF callReturns, Becomes
    <2> QED
      BY <1>1, <2>1, <2>2 DEF SvcInv, StateShape, SomeoneIdle
  <1> QED
    BY <1>2, <1>3

\* An engine restart abandons what its service was running.
LEMMA RestartSvcInv ==
    ASSUME SvcInv, NEW c \in Callers, EngineRestarts(c)
    PROVE  SvcInv'
  <1>1. /\ slot' = slot /\ pc' = pc /\ services' = services
        /\ abandoned' = IF state[c] = "running" THEN abandoned \cup ({slot} \ {None})
                                                ELSE abandoned
        /\ state' = [state EXCEPT ![c] = "idle"]
    BY DEF EngineRestarts, Becomes, vars
  <1> QED
    BY <1>1 DEF SvcInv, StateShape, SomeoneIdle

\* What the library's threads do leaves slot and services alone.
LEMMA NativeSvcInv ==
    ASSUME SvcInv, Native
    PROVE  SvcInv'
  <1>1. slot' = slot /\ pc' = pc
    BY DEF Native, Runs, Binds, BindFails, Serves, ShutsDown, AcceptFails, OtherProcess, call
  <1>2. services' = services /\ state' = state /\ abandoned' = abandoned
    BY DEF Native, service
  <1> QED
    BY <1>1, <1>2 DEF SvcInv, StateShape, SomeoneIdle

\* Every step of the app and the library keeps the invariant.
LEMMA NextSvcInv == SvcInv /\ [ServiceNext]_allVars => SvcInv'
  <1>1. SvcInv /\ UNCHANGED allVars => SvcInv'
    BY DEF SvcInv, StateShape, SomeoneIdle, allVars, vars, service
  <1> QED
    BY <1>1, IdleServiceSvcInv, CallSvcInv, ReturnsSvcInv, RestartSvcInv, NativeSvcInv
       DEF ServiceNext

(* While only the app's services use the library, one of them can stop the *)
(* transport that runs, unless an engine restart has left it behind (stop, *)
(* transport_service.dart).                                                *)
THEOREM AlwaysStoppable == ServiceSpec => []StoppableFromApp
  <1>1. SvcInv => StoppableFromApp
    BY DEF SvcInv, SomeoneIdle, StoppableFromApp
  <1> QED
    BY <1>1, InitSvcInv, NextSvcInv, PTL DEF ServiceSpec
==============================================================================
