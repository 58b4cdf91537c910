------------------------------- MODULE Catalog -------------------------------
(***************************************************************************)
(* The app's catalog (CatalogService, catalog_service.dart): which         *)
(* services there are and which of them the user has selected.  Every      *)
(* operation changes memory at once and then saves it in four writes.      *)
(*                                                                         *)
(* Dart runs one event at a time.  An operation runs up to the platform's  *)
(* answer to its first write; each later write is an event of its own, and *)
(* takes what memory holds by then.  The platform carries out writes in    *)
(* the order of the calls, so a kill between two writes stands for every   *)
(* way to lose the last of them.                                           *)
(***************************************************************************)
EXTENDS Naturals, Sequences

CONSTANTS
    Tasks,        \* operations under way at once
    Builtin,      \* kBuiltinServices
    Custom,       \* bound: services the owner ever adds
    kBaseSlots    \* kBaseSlots

ASSUME SlotsAssumption == kBaseSlots \in Nat

VARIABLES
    held,         \* memory: _plan, _baseSelected, _extraUnlocked, _catalog's custom part
    saved,        \* the same in SharedPreferences
    shown,        \* the services the widgets were built with at the last notification
    persisting,   \* per task: the next of the four writes of _persist, 0 when none is due
    minted,       \* history: the custom services ever added
    overlapped    \* history: an operation began while another was being saved

catalogVars == <<held, saved, shown, persisting, minted, overlapped>>

Ids == Builtin \cup Custom
Known(c) == Builtin \cup c.custom
Entries(s) == {s[i] : i \in DOMAIN s}

\* A new installation, or one where the base plan was activated and a service added.
Fresh == [plan |-> "none", base |-> <<>>, extra |-> {}, custom |-> {}]
Settled(id) == [plan |-> "base", base |-> <<>>, extra |-> {}, custom |-> {id}]

CatalogInit ==
    /\ saved \in {Fresh} \cup {Settled(id) : id \in Custom}
    /\ held = saved
    /\ shown = Known(saved)
    /\ persisting = [t \in Tasks |-> 0]
    /\ minted = saved.custom
    /\ overlapped = FALSE

-----------------------------------------------------------------------------
(* Saving *)

\* Mutant of Keys: the catalog is written before the selections.
Keys_CatalogFirst == <<"plan", "custom", "base", "extra">>

\* The order of the writes of _persist.
Keys == <<"plan", "base", "extra", "custom">>

\* Mutant of Change: a save that is under way is relied upon.
Change_Coalesced(t, new) ==
    /\ persisting[t] = 0
    /\ held' = new
    /\ IF \E u \in Tasks : persisting[u] # 0
       THEN UNCHANGED <<saved, persisting>>
       ELSE /\ saved' = [saved EXCEPT ![Keys[1]] = new[Keys[1]]]
            /\ persisting' = [persisting EXCEPT ![t] = 2]
    /\ overlapped' = (overlapped \/ \E u \in Tasks : persisting[u] # 0)
    /\ UNCHANGED shown

\* An operation up to the first await that waits for the platform.
Change(t, new) ==
    /\ persisting[t] = 0
    /\ held' = new
    /\ saved' = [saved EXCEPT ![Keys[1]] = new[Keys[1]]]
    /\ persisting' = [persisting EXCEPT ![t] = 2]
    /\ overlapped' = (overlapped \/ \E u \in Tasks : persisting[u] # 0)
    /\ UNCHANGED shown

\* The next write; the operation that made the last one notifies the widgets.
Persist(t) ==
    /\ persisting[t] # 0
    /\ LET k == persisting[t] IN
           /\ saved' = [saved EXCEPT ![Keys[k]] = held[Keys[k]]]
           /\ persisting' = [persisting EXCEPT ![t] = IF k = Len(Keys) THEN 0 ELSE k + 1]
           /\ shown' = IF k = Len(Keys) THEN Known(held) ELSE shown
    /\ UNCHANGED <<held, minted, overlapped>>

-----------------------------------------------------------------------------
(* The operations.  The user picks from a screen that was built when the   *)
(* catalog was last announced, or from one that is built now.              *)

Offered == shown \cup Known(held)

\* The list without the first id in it: List.remove and, as no list has an id twice,
\* the filter of ownerRemoveService.
Without(s, id) ==
    IF id \notin Entries(s) THEN s
    ELSE LET at == CHOOSE i \in DOMAIN s : s[i] = id /\ \A j \in 1..i-1 : s[j] # id IN
             [i \in 1..Len(s)-1 |-> IF i < at THEN s[i] ELSE s[i + 1]]

activateBase(t) == Change(t, [held EXCEPT !.plan = "base"]) /\ UNCHANGED minted
activateExtended(t) == Change(t, [held EXCEPT !.plan = "extended"]) /\ UNCHANGED minted

\* (Without a plan, with the service selected already or with every slot taken,
\* nothing changes.)
selectBase(t, id) ==
    /\ held.plan # "none"
    /\ id \notin Entries(held.base)
    /\ Len(held.base) < kBaseSlots
    /\ Change(t, [held EXCEPT !.base = Append(@, id)])
    /\ UNCHANGED minted

deselectBase(t, id) ==
    /\ Change(t, [held EXCEPT !.base = Without(@, id)])
    /\ UNCHANGED minted

swapBase(t, old, new) ==
    LET rest == Without(held.base, old) IN
        /\ Change(t, [held EXCEPT !.base = IF Len(rest) < kBaseSlots THEN Append(rest, new)
                                           ELSE rest])
        /\ UNCHANGED minted

\* The only dialog that calls it opens when selectBase has refused new for want of a
\* slot, and lists the services of the catalog that have one.
SwapOffered(old, new) ==
    /\ held.plan # "none"
    /\ new \notin Entries(held.base) /\ Len(held.base) >= kBaseSlots
    /\ old \in Entries(held.base) \cap Known(held)

unlockExtra(t, id) ==
    /\ Change(t, [held EXCEPT !.extra = @ \cup {id},
                              !.plan = IF @ = "base" THEN "extended" ELSE @])
    /\ UNCHANGED minted

revokeExtra(t, id) ==
    /\ Change(t, [held EXCEPT !.extra = @ \ {id},
                              !.plan = IF held.extra \subseteq {id} /\ @ = "extended"
                                       THEN "base" ELSE @])
    /\ UNCHANGED minted

\* The id is the time of the call.
ownerAddService(t, id) ==
    /\ id \in Custom \ minted
    /\ Change(t, [held EXCEPT !.custom = @ \cup {id}])
    /\ minted' = minted \cup {id}

\* The panel offers it for custom services only.
ownerRemoveService(t, id) ==
    /\ id \in Custom
    /\ Change(t, [held EXCEPT !.custom = @ \ {id}, !.extra = @ \ {id},
                              !.base = Without(@, id)])
    /\ UNCHANGED minted

\* A service's name and address are not part of the model: what it holds is saved.
ownerEditService(t) == Change(t, held) /\ UNCHANGED minted

CatalogCall(t) ==
    \/ activateBase(t) \/ activateExtended(t) \/ ownerEditService(t)
    \/ \E id \in Custom : ownerAddService(t, id)
    \/ \E id \in Offered :
          \/ selectBase(t, id) \/ deselectBase(t, id)
          \/ \E old \in Ids : SwapOffered(old, id) /\ swapBase(t, old, id)
          \/ unlockExtra(t, id) \/ revokeExtra(t, id) \/ ownerRemoveService(t, id)

-----------------------------------------------------------------------------
(* The process ends and comes back *)

\* The tasks are gone, and load, which main.dart awaits before it builds a widget,
\* reads back what was saved.
CatalogRestarts ==
    /\ persisting' = [t \in Tasks |-> 0]
    /\ held' = saved
    /\ shown' = Known(saved)
    /\ UNCHANGED <<saved, minted, overlapped>>

-----------------------------------------------------------------------------
(* When the last save is over SharedPreferences hold what memory holds,    *)
(* however the saves of several operations have mixed (_persist reads      *)
(* memory again for every write).                                          *)
CatalogSaved == (\A t \in Tasks : persisting[t] = 0) => saved = held

(* A selection names a service of the catalog, in memory and in what the   *)
(* next process will load, even if the process is killed between two       *)
(* writes of _persist: an unknown id would take a base slot that no screen *)
(* shows and nobody can free.  Operations that overlap are the exception.  *)
(* The base slots are never exceeded, by overlapping operations either.    *)
SelectionsSound ==
    \A c \in {held, saved} :
        /\ Len(c.base) <= kBaseSlots
        /\ overlapped \/ Entries(c.base) \cup c.extra \subseteq Known(c)
==============================================================================
