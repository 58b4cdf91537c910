--------------------------- MODULE TransportService --------------------------
(***************************************************************************)
(* The app's TransportService (transport_service.dart) on top of the C     *)
(* interface of TransportFfi.  A service is one Dart isolate: its calls    *)
(* block it, and what it shows the user is its _state, which it sets from  *)
(* their results.  The native library outlives it: an engine restart       *)
(* begins with a new service in the same process.  Callers that are not    *)
(* services use the interface as they like.                                *)
(***************************************************************************)
EXTENDS TransportFfi

VARIABLES
    services,   \* the callers that are services
    state,      \* per caller: _state; always idle for one that is no service
    abandoned   \* history: workers whose service was gone when it said running

service == <<services, state, abandoned>>
allVars == <<vars, service>>

ServiceInit ==
    /\ Init
    /\ services \in SUBSET Callers
    /\ state = [c \in Callers |-> "idle"]
    /\ abandoned = {}

Becomes(c, s) ==
    /\ state' = IF c \in services THEN [state EXCEPT ![c] = s] ELSE state
    /\ UNCHANGED services

-----------------------------------------------------------------------------
\* start with settings that transport_start accepts, and nothing in the slot.
start(c, w, p) ==
    /\ state[c] # "running"
    /\ StartSpawns(c, w, p)
    /\ Becomes(c, "starting")
    /\ abandoned' = abandoned \ {w}

\* Mutant of startRefused: a running service tries again.
startRefused_Again(c) ==
    /\ c \in services /\ pc[c] = "idle"
    /\ Becomes(c, "error")
    /\ UNCHANGED <<vars, abandoned>>

\* start with something in the slot, or with a list that parse_endpoints refuses: -1.
startRefused(c) ==
    /\ c \in services /\ pc[c] = "idle"
    /\ state[c] # "running"
    /\ Becomes(c, "error")
    /\ UNCHANGED <<vars, abandoned>>

\* start with settings that are not isConfigured.
startUnconfigured(c) ==
    /\ c \in services /\ pc[c] = "idle"
    /\ state[c] # "running"
    /\ Becomes(c, "idle")
    /\ UNCHANGED <<vars, abandoned>>

\* stop, which does nothing unless the service says running.
stop(c) ==
    /\ c \in services => state[c] = "running"
    /\ StopTakes(c)
    /\ UNCHANGED service

stopFindsNothing(c) ==
    /\ c \in services /\ pc[c] = "idle"
    /\ state[c] = "running" /\ slot = None
    /\ Becomes(c, "idle")
    /\ UNCHANGED <<vars, abandoned>>

\* The call returns and its result becomes the state.
callReturns(c) ==
    /\ \/ StartSucceeds(c) /\ Becomes(c, "running")
       \/ (StartFails(c) \/ StartTimesOut(c)) /\ Becomes(c, "error")
       \/ StopJoins(c) /\ Becomes(c, "idle")
    /\ UNCHANGED abandoned

\* The Flutter engine is torn down and started again; no call is under way.
EngineRestarts(c) ==
    /\ c \in services /\ pc[c] = "idle"
    /\ state[c] # "idle"
    /\ abandoned' = IF state[c] = "running" THEN abandoned \cup ({slot} \ {None}) ELSE abandoned
    /\ Becomes(c, "idle")
    /\ UNCHANGED vars

Native ==
    /\ \/ \E w \in Workers : Runs(w) \/ AcceptFails(w)
       \/ \E p \in Ports : OtherProcess(p)
    /\ UNCHANGED service

ServiceNext ==
    \/ \E c \in Callers, w \in Workers, p \in Ports : start(c, w, p)
    \/ \E c \in Callers :
          \/ startRefused(c) \/ startUnconfigured(c) \/ stop(c) \/ stopFindsNothing(c)
          \/ callReturns(c) \/ EngineRestarts(c)
    \/ Native

ServiceSpec == ServiceInit /\ [][ServiceNext]_allVars

(* The fairness of TransportFfi: threads run, and calls return when they   *)
(* can.                                                                    *)
ServiceFairSpec ==
    /\ ServiceSpec
    /\ \A c \in Callers : WF_allVars(callReturns(c))
    /\ \A w \in Workers : WF_allVars(Runs(w) /\ UNCHANGED service)

-----------------------------------------------------------------------------
(* As long as only the app uses the library, a transport that runs can be  *)
(* stopped from the app: some service says running, which stop asks for.   *)
(* There is one exception, an engine restart that finds the transport      *)
(* running: the new service is idle, its start is refused, and its stop    *)
(* does nothing (transport_service.dart:146 and :237).                     *)
StoppableFromApp ==
    services = Callers /\ slot # None =>
        slot \in abandoned \/ \E c \in Callers : state[c] = "running"
==============================================================================
