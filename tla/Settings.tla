------------------------------- MODULE Settings ------------------------------
(***************************************************************************)
(* The app's settings (SettingsService, settings_service.dart): the list   *)
(* of endpoints, and its migration from the five keys of version 0.1.0.    *)
(* An edit and the call that saves it are one event; the SOCKS port and    *)
(* the shared secret are saved the same way and are left out.              *)
(***************************************************************************)
EXTENDS Endpoints

CONSTANTS
    LegacyFlaws     \* what may be wrong with version 0.1.0's endpoint: Flaws, "no host"

VARIABLES
    endpoints,      \* _endpoints
    stored,         \* gateway_endpoints_v2, or NotStored
    legacy,         \* the keys of version 0.1.0 that are still there
    before,         \* history: what the keys of version 0.1.0 said, a missing one its default
    loading,        \* load: "load", the legacy key to remove next, or "done"
    edited          \* history: the list was edited

settingsVars == <<endpoints, stored, legacy, before, loading, edited>>

LegacyKeys == <<"gateway_host", "gateway_port", "sni_list", "server_public", "client_psk">>
AllLegacy == {LegacyKeys[i] : i \in DOMAIN LegacyKeys}
NotStored == <<[host |-> "nowhere", port |-> 0, flaw |-> "none"]>>

ASSUME NotStoredAssumption == "nowhere" \notin Hosts

SettingsInit ==
    /\ before \in {<<>>} \cup {<<e>> : e \in [host : Hosts, port : Ports, flaw : LegacyFlaws]}
    /\ legacy = IF before = <<>> THEN {} ELSE AllLegacy
    /\ stored = NotStored
    /\ endpoints = <<>>
    /\ loading = "load"
    /\ edited = FALSE

clampPort(port) == IF InRange(port) THEN port ELSE 18080

\* _migrateLegacyIfPresent finds an endpoint to migrate: its host is not empty.
LegacyPresent == "gateway_host" \in legacy /\ before[1].flaw # "no host"

\* The endpoint it makes of the five keys.
Migrated == <<[before[1] EXCEPT !.port = clampPort(@)]>>

\* Mutant of LoadSettings: the migrated list is not saved before the keys go.
LoadSettings_Unsaved ==
    /\ loading = "load"
    /\ IF stored # NotStored THEN endpoints' = stored /\ loading' = "done"
       ELSE IF LegacyPresent
       THEN endpoints' = Migrated /\ loading' = LegacyKeys[1]
       ELSE endpoints' = <<>> /\ loading' = "done"
    /\ UNCHANGED <<stored, legacy, before, edited>>

\* load, up to the write of the migrated list.
LoadSettings ==
    /\ loading = "load"
    /\ IF stored # NotStored
       THEN endpoints' = stored /\ loading' = "done" /\ UNCHANGED stored
       ELSE IF LegacyPresent
       THEN endpoints' = Migrated /\ stored' = endpoints' /\ loading' = LegacyKeys[1]
       ELSE endpoints' = <<>> /\ loading' = "done" /\ UNCHANGED stored
    /\ UNCHANGED <<legacy, before, edited>>

RemoveLegacy ==
    \E i \in DOMAIN LegacyKeys :
        /\ loading = LegacyKeys[i]
        /\ legacy' = legacy \ {LegacyKeys[i]}
        /\ loading' = IF i = Len(LegacyKeys) THEN "done" ELSE LegacyKeys[i + 1]
        /\ UNCHANGED <<endpoints, stored, before, edited>>

-----------------------------------------------------------------------------
(* Edits *)

Edit(list) ==
    /\ endpoints' = list
    /\ stored' = list
    /\ edited' = TRUE
    /\ UNCHANGED <<legacy, before, loading>>

\* The dialog of the settings screen gives back nothing but this.
Entered == {e \in Endpoint : InRange(e.port) /\ e.flaw = "none"}

addEndpoint(e) ==
    /\ \A i \in DOMAIN endpoints : hostPortKey(endpoints[i]) # hostPortKey(e)
    /\ Edit(Append(endpoints, e))

\* Mutant of replaceEndpoint: the other endpoints are not looked at.
replaceEndpoint_Unchecked(old, new) ==
    \E i \in DOMAIN endpoints :
        /\ endpoints[i] = old /\ \A j \in 1..i-1 : endpoints[j] # old
        /\ Edit([endpoints EXCEPT ![i] = new])

replaceEndpoint(old, new) ==
    \E i \in DOMAIN endpoints :
        /\ endpoints[i] = old /\ \A j \in 1..i-1 : endpoints[j] # old
        /\ \A j \in DOMAIN endpoints \ {i} : hostPortKey(endpoints[j]) # hostPortKey(new)
        /\ Edit([endpoints EXCEPT ![i] = new])

Dropped(list, i) == [k \in 1..Len(list)-1 |-> IF k < i THEN list[k] ELSE list[k + 1]]

\* The endpoint is named by its value; no two have the same address.
removeEndpoint(e) ==
    \E i \in DOMAIN endpoints : endpoints[i] = e /\ Edit(Dropped(endpoints, i))

\* The item at i goes to place j of the list without it.
Moved(list, i, j) ==
    LET rest == Dropped(list, i) IN
        [k \in DOMAIN list |-> IF k < j THEN rest[k] ELSE IF k = j THEN list[i] ELSE rest[k - 1]]

reorderEndpoint(i, j) == Edit(Moved(endpoints, i, j))

setEndpoints(list) == NoDuplicates(list) /\ Edit(list)

SettingsCall ==
    \/ \E e \in Entered : addEndpoint(e)
    \/ \E i \in DOMAIN endpoints :
          \/ removeEndpoint(endpoints[i])
          \/ \E e \in Entered : replaceEndpoint(endpoints[i], e)
          \/ \E j \in DOMAIN endpoints : reorderEndpoint(i, j)
    \/ \E e, f \in Entered : setEndpoints(<<e, f>>)

SettingsKilled ==
    /\ loading' = "load"
    /\ UNCHANGED <<endpoints, stored, legacy, before, edited>>

-----------------------------------------------------------------------------
isConfigured == endpoints # <<>> /\ \A i \in DOMAIN endpoints : isValid(endpoints[i])

\* The list is the endpoint e but for a port out of range, which is now one in range.
MadeOf(list, e) ==
    \E p \in Ports \cup {18080} :
        /\ list = <<[e EXCEPT !.port = p]>>
        /\ InRange(p)
        /\ InRange(e.port) => p = e.port

(* The endpoint of version 0.1.0 is there once the settings are loaded,    *)
(* and it alone, until the user edits the list: however often the process  *)
(* is killed during the migration (settings_service.dart:144-147).  It is  *)
(* as it was but for a port out of range, which becomes a port in range;   *)
(* without a host there is none.                                           *)
MigrationKept ==
    loading = "done" /\ ~edited =>
        IF before = <<>> \/ before[1].flaw = "no host" THEN endpoints = <<>>
        ELSE MadeOf(endpoints, before[1])

(* A list the app takes for configured is one that transport_start takes.  *)
(* There are two exceptions: an SNI of blanks, which only migration can    *)
(* bring, and a list longer than MAX_ENDPOINTS, which the app does not     *)
(* limit (endpoint.dart:4, "1:1").                                         *)
ConfiguredAccepted ==
    loading = "done" /\ isConfigured =>
        \/ parse_endpoints(endpoints)
        \/ \E i \in DOMAIN endpoints : endpoints[i].flaw = "blank sni"
        \/ Len(endpoints) > MAX_ENDPOINTS
==============================================================================
