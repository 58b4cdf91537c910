------------------------------- MODULE AppStore ------------------------------
(***************************************************************************)
(* The app as a process that is killed and launched again: main.dart loads *)
(* the settings, then the catalog, then the subscription, and only then    *)
(* shows a screen.  The services keep what outlives the process in         *)
(* SharedPreferences under keys of their own.                              *)
(***************************************************************************)
EXTENDS Catalog, Settings, Subscription

CONSTANTS
    MaxCalls,   \* bound: operations the user calls
    MaxKills    \* bound: times the process is killed

VARIABLES calls, kills

appVars == <<catalogVars, settingsVars, subVars, calls, kills>>
budget == <<calls, kills>>

AppInit ==
    /\ CatalogInit /\ SettingsInit /\ SubscriptionInit
    /\ calls = 0 /\ kills = 0

\* main: each load is awaited before the next.
Load ==
    \/ (LoadSettings \/ RemoveLegacy) /\ UNCHANGED <<catalogVars, subVars, budget>>
    \/ /\ loading = "done"
       /\ SubscriptionLoads
       /\ UNCHANGED <<catalogVars, settingsVars, budget>>

\* The screens are there.
Ready == loading = "done" /\ step = "ready"

Call ==
    /\ Ready
    /\ calls < MaxCalls /\ calls' = calls + 1
    /\ UNCHANGED kills
    /\ \/ (\E t \in Tasks : CatalogCall(t)) /\ UNCHANGED <<settingsVars, subVars>>
       \/ SettingsCall /\ UNCHANGED <<catalogVars, subVars>>
       \/ SubscriptionCall /\ UNCHANGED <<catalogVars, settingsVars>>

\* What calls still have to do.
Continue ==
    /\ UNCHANGED budget
    /\ \/ (\E t \in Tasks : Persist(t)) /\ UNCHANGED <<settingsVars, subVars>>
       \/ (\E t \in Redeemers : Record(t)) /\ UNCHANGED <<catalogVars, settingsVars>>

Kill ==
    /\ kills < MaxKills /\ kills' = kills + 1
    /\ CatalogRestarts /\ SettingsKilled /\ SubscriptionKilled
    /\ UNCHANGED calls

AppNext == Load \/ Call \/ Continue \/ Kill

AppSpec == AppInit /\ [][AppNext]_appVars
==============================================================================
