---------------------------- MODULE TransportFfi ----------------------------
(***************************************************************************)
(* The C interface of transport-core (lib.rs): transport_start,            *)
(* transport_stop and transport_get_status, the slot ACTIVE they share,    *)
(* and the worker threads that run the proxy.                              *)
(*                                                                         *)
(* transport_start looks at the slot, releases it, spawns a worker and     *)
(* waits on a channel for its bind; it takes the slot again only to store  *)
(* the worker there.  transport_stop takes the worker out of the slot,     *)
(* wakes it through a tokio Notify and joins it.                           *)
(*                                                                         *)
(* A step is one access to shared state: what a call does on its own       *)
(* before or after one belongs to that step.  A worker's listener is open  *)
(* from its bind until its exit.                                           *)
(***************************************************************************)
EXTENDS Integers

CONSTANTS
    Callers,    \* threads that use the interface
    Workers,    \* bound: worker threads alive or referenced at once
    Ports,      \* values of socks_port
    Faults,     \* what the environment may do: a subset of FaultKinds
    None        \* no worker, no port

FaultKinds == {"slow bind", "accept error", "no runtime"}

ASSUME FfiAssumption == Faults \subseteq FaultKinds /\ None \notin Workers \cup Ports

VARIABLES
    slot,     \* ACTIVE: the worker of the running transport, or None
    pc,       \* per caller: idle, waiting (recv_timeout) or joining
    job,      \* per caller: the worker it waits for, or None
    phase,    \* per worker: binding, bound, serving, exited, or broken by an accept error
    port,     \* per worker: the port it was given
    chan,     \* per worker: the BindResult in its channel
    permit,   \* per worker: the permit of its Notify
    taken,    \* ports another process listens on
    late,     \* history: workers whose start gave up waiting for them
    replaced  \* history: workers a later start has overwritten in the slot

call == <<pc, job>>
worker == <<phase, port, chan, permit>>
history == <<late, replaced>>
vars == <<slot, pc, job, phase, port, chan, permit, taken, late, replaced>>

Init ==
    /\ slot = None
    /\ pc = [c \in Callers |-> "idle"]
    /\ job = [c \in Callers |-> None]
    /\ phase = [w \in Workers |-> "exited"]
    /\ port = [w \in Workers |-> None]
    /\ chan = [w \in Workers |-> "empty"]
    /\ permit = [w \in Workers |-> FALSE]
    /\ taken \in SUBSET Ports
    /\ late = {} /\ replaced = {}

-----------------------------------------------------------------------------
(* The calls *)

Return(c) ==
    /\ pc' = [pc EXCEPT ![c] = "idle"]
    /\ job' = [job EXCEPT ![c] = None]

WaitFor(c, w, p) ==
    /\ pc' = [pc EXCEPT ![c] = p]
    /\ job' = [job EXCEPT ![c] = w]

Ended(w) == phase[w] \in {"exited", "broken"}

\* A thread that has ended and that nothing refers to.
Unused(w) == Ended(w) /\ slot # w /\ \A c \in Callers : job[c] # w

\* transport_start with valid arguments finds the slot empty and spawns a worker
\* with a channel and a Notify of its own.  (Null pointers, a transport in the slot,
\* invalid endpoints_json, port 0: it returns -1 and nothing changes.)
StartSpawns(c, w, p) ==
    /\ pc[c] = "idle"
    /\ slot = None
    /\ Unused(w)
    /\ phase' = [phase EXCEPT ![w] = "binding"]
    /\ port' = [port EXCEPT ![w] = p]
    /\ chan' = [chan EXCEPT ![w] = "empty"]
    /\ permit' = [permit EXCEPT ![w] = FALSE]
    /\ WaitFor(c, w, "waiting")
    /\ late' = late \ {w} /\ replaced' = replaced \ {w}
    /\ UNCHANGED <<slot, taken>>

\* recv_timeout returns Bound: the worker goes into the slot, whatever is there.
StartSucceeds(c) ==
    /\ pc[c] = "waiting"
    /\ chan[job[c]] = "bound"
    /\ slot' = job[c]
    /\ replaced' = replaced \cup ({slot} \ {None})
    /\ Return(c)
    /\ UNCHANGED <<worker, taken, late>>

\* recv_timeout returns Failed, and the worker is joined.
StartFails(c) ==
    /\ pc[c] = "waiting"
    /\ chan[job[c]] = "failed"
    /\ Ended(job[c])
    /\ Return(c)
    /\ UNCHANGED <<slot, worker, taken, history>>

\* BIND_CONFIRM_TIMEOUT elapses: the worker is neither stopped nor joined.
StartTimesOut(c) ==
    /\ "slow bind" \in Faults
    /\ pc[c] = "waiting"
    /\ chan[job[c]] = "empty"
    /\ late' = late \cup {job[c]}
    /\ Return(c)
    /\ UNCHANGED <<slot, worker, taken, replaced>>

\* Mutants of StopTakes: it leaves the transport in the slot; its Notify wakes only
\* a worker that is already waiting.
StopTakes_LeavesSlot(c) ==
    /\ pc[c] = "idle"
    /\ slot # None
    /\ permit' = [permit EXCEPT ![slot] = TRUE]
    /\ WaitFor(c, slot, "joining")
    /\ UNCHANGED <<slot, phase, port, chan, taken, history>>
StopTakes_NotifyWaiters(c) ==
    /\ pc[c] = "idle"
    /\ slot # None
    /\ permit' = [permit EXCEPT ![slot] = phase[slot] = "serving"]
    /\ slot' = None
    /\ WaitFor(c, slot, "joining")
    /\ UNCHANGED <<phase, port, chan, taken, history>>

\* transport_stop takes the transport out of the slot and calls notify_one, which
\* leaves a permit for a worker that does not wait yet.  (With nothing in the slot
\* it returns 0 and nothing changes.)
StopTakes(c) ==
    /\ pc[c] = "idle"
    /\ slot # None
    /\ permit' = [permit EXCEPT ![slot] = TRUE]
    /\ slot' = None
    /\ WaitFor(c, slot, "joining")
    /\ UNCHANGED <<phase, port, chan, taken, history>>

StopJoins(c) ==
    /\ pc[c] = "joining"
    /\ Ended(job[c])
    /\ Return(c)
    /\ UNCHANGED <<slot, worker, taken, history>>

\* transport_get_status reports "running" from the slot alone.
StatusRunning == slot # None

-----------------------------------------------------------------------------
(* The worker thread *)

Listening(w) == phase[w] \in {"bound", "serving"}
PortFree(p) == p \notin taken /\ \A v \in Workers : Listening(v) => port[v] # p

\* TcpListener::bind succeeds and Bound is sent.
Binds(w) ==
    /\ phase[w] = "binding"
    /\ PortFree(port[w])
    /\ phase' = [phase EXCEPT ![w] = "bound"]
    /\ chan' = [chan EXCEPT ![w] = "bound"]
    /\ UNCHANGED <<slot, call, port, permit, taken, history>>

\* The runtime cannot be created or the port is in use: Failed is sent and the
\* thread returns.
BindFails(w) ==
    /\ phase[w] = "binding"
    /\ "no runtime" \in Faults \/ ~PortFree(port[w])
    /\ phase' = [phase EXCEPT ![w] = "exited"]
    /\ chan' = [chan EXCEPT ![w] = "failed"]
    /\ UNCHANGED <<slot, call, port, permit, taken, history>>

\* The worker reaches its select! between the accept loop and the Notify.
Serves(w) ==
    /\ phase[w] = "bound"
    /\ phase' = [phase EXCEPT ![w] = "serving"]
    /\ UNCHANGED <<slot, call, port, chan, permit, taken, history>>

\* The Notify wakes it, or accept returns an error and run_with_listener ends: the
\* thread returns and the listener is closed.
ShutsDown(w) ==
    /\ phase[w] = "serving"
    /\ permit[w]
    /\ phase' = [phase EXCEPT ![w] = "exited"]
    /\ UNCHANGED <<slot, call, port, chan, permit, taken, history>>

AcceptFails(w) ==
    /\ "accept error" \in Faults
    /\ phase[w] = "serving"
    /\ phase' = [phase EXCEPT ![w] = "broken"]
    /\ UNCHANGED <<slot, call, port, chan, permit, taken, history>>

\* Other processes open and close listeners.
OtherProcess(p) ==
    /\ \A w \in Workers : Listening(w) => port[w] # p
    /\ taken' = IF p \in taken THEN taken \ {p} ELSE taken \cup {p}
    /\ UNCHANGED <<slot, call, worker, history>>

-----------------------------------------------------------------------------
Returns(c) ==
    \/ StartSucceeds(c) \/ StartFails(c) \/ StartTimesOut(c) \/ StopJoins(c)

Runs(w) == Binds(w) \/ BindFails(w) \/ Serves(w) \/ ShutsDown(w)

Next ==
    \/ \E c \in Callers : StopTakes(c) \/ Returns(c)
    \/ \E c \in Callers, w \in Workers, p \in Ports : StartSpawns(c, w, p)
    \/ \E w \in Workers : Runs(w) \/ AcceptFails(w)
    \/ \E p \in Ports : OtherProcess(p)

Spec == Init /\ [][Next]_vars

(* Threads are scheduled and a blocked call returns when it can; nothing   *)
(* obliges anyone to call.                                                 *)
FairSpec ==
    /\ Spec
    /\ \A c \in Callers : WF_vars(Returns(c))
    /\ \A w \in Workers : WF_vars(Runs(w))

-----------------------------------------------------------------------------
\* The shape of the state, and that a blocked caller has a worker to wait for.
TypeOK ==
    /\ slot \in Workers \cup {None}
    /\ pc \in [Callers -> {"idle", "waiting", "joining"}]
    /\ job \in [Callers -> Workers \cup {None}]
    /\ \A c \in Callers : pc[c] = "idle" <=> job[c] = None
    /\ phase \in [Workers -> {"binding", "bound", "serving", "exited", "broken"}]
    /\ port \in [Workers -> Ports \cup {None}]
    /\ chan \in [Workers -> {"empty", "bound", "failed"}]
    /\ permit \in [Workers -> BOOLEAN]
    /\ taken \subseteq Ports
    /\ late \subseteq Workers /\ replaced \subseteq Workers

(* A proxy that listens can still be stopped: it is in the slot, or a      *)
(* start that will store it there or a stop that waits for its end is      *)
(* under way.  There are two exceptions and no more: its start gave up     *)
(* waiting for it, or a concurrent start has overwritten it in the slot,   *)
(* which transport_start does not look at again.                           *)
NoOrphan ==
    \A w \in Workers : Listening(w) =>
        slot = w \/ (\E c \in Callers : job[c] = w) \/ w \in late \cup replaced

(* A start that does not succeed leaves no proxy behind, and starts that   *)
(* are repeated leak no thread: whatever listens is in the slot, or a call *)
(* that will store it there or join it is under way.                       *)
FailClosed ==
    \A w \in Workers : Listening(w) => slot = w \/ \E c \in Callers : job[c] = w

(* No worker is owned twice: the transport in the slot is not being        *)
(* stopped by anyone, and no two calls wait for one worker, so no join     *)
(* handle is used twice and a stop never waits for a worker that nobody    *)
(* has woken.                                                              *)
OneOwner ==
    \A c \in Callers :
        /\ pc[c] = "joining" => slot # job[c] /\ permit[job[c]]
        /\ \A d \in Callers \ {c} : job[c] # None => job[c] # job[d]

(* Every call returns: a stop that comes before the worker has reached its *)
(* select! does not wait for ever.                                         *)
CallsReturn == \A c \in Callers : pc[c] # "idle" ~> pc[c] = "idle"

(* transport_get_status, which looks at the slot alone, says "running"     *)
(* only of a proxy that listens or that an accept error has ended behind   *)
(* its back: never of one that is being stopped, has been stopped or has   *)
(* failed to bind.                                                         *)
StatusTruthful ==
    StatusRunning => (Listening(slot) /\ ~permit[slot]) \/ phase[slot] = "broken"

=============================================================================
