------------------------------ MODULE Endpoints ------------------------------
(***************************************************************************)
(* The endpoint list on its way from the app to the transport: what the    *)
(* app takes for a usable endpoint (GatewayEndpoint.isValid, endpoint.dart)*)
(* and what transport_start takes (parse_endpoints, endpoint.rs).  An      *)
(* endpoint is its host, its port and the first thing wrong with the rest. *)
(***************************************************************************)
EXTENDS Naturals, Sequences

CONSTANTS
    Hosts, Ports,   \* what may be entered; a port need not be in range
    MAX_ENDPOINTS   \* MAX_ENDPOINTS: 16

ASSUME MaxEndpointsAssumption == MAX_ENDPOINTS \in Nat
ASSUME PortsAssumption == Ports \subseteq Nat

Flaws == {"none", "padded host", "blank host", "empty sni", "blank sni", "bad hex"}
Endpoint == [host : Hosts, port : Ports, flaw : Flaws]
hostPortKey(e) == <<e.host, e.port>>

InRange(port) == port >= 1 /\ port <= 65535

\* host.trim() == host, but only isNotEmpty for the SNI.
isValid(e) == InRange(e.port) /\ e.flaw \in {"none", "blank sni"}

\* host.trim() and sni.trim() are not empty; a port above 65535 is no u16.
Acceptable(e) == InRange(e.port) /\ e.flaw \in {"none", "padded host"}

NoDuplicates(list) ==
    \A i, j \in DOMAIN list : hostPortKey(list[i]) = hostPortKey(list[j]) => i = j

parse_endpoints(list) ==
    /\ list # <<>>
    /\ Len(list) <= MAX_ENDPOINTS
    /\ \A i \in DOMAIN list : Acceptable(list[i])
    /\ NoDuplicates(list)
==============================================================================
