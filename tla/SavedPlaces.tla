---------------------------- MODULE SavedPlaces -----------------------------
(***************************************************************************)
(* The saved places and the resources of the profile page                  *)
(* (app/frontend/src/components/profile): the list with its limit          *)
(* (SavedLocations.tsx), the dialog with a map that adds one               *)
(* (AddLocation.tsx), the cross that deletes one (LocationCard.tsx), the   *)
(* hook between them (useSavedLocations.ts), the server's handlers, and    *)
(* the status of a resource (ResourcesTable.tsx, ResourceDropdown.tsx).    *)
(*                                                                         *)
(* The dialog may be cancelled and opened again while a place is on its    *)
(* way.  Here the form hands the map only places that were searched for.   *)
(***************************************************************************)
EXTENDS PinMap

CONSTANTS
  MAX_LOCATIONS,    \* 6 in the code
  MaxAdds,          \* bound: places sent
  Statuses, FirstStatus,
  MaxStatusChanges  \* bound

ASSUME SavedPlacesAssumption ==
  /\ MAX_LOCATIONS \in Nat /\ MaxAdds \in Nat /\ MaxStatusChanges \in Nat /\ FirstStatus \in Statuses

VARIABLES
  dialog,     \* the dialog: open, address, pin, the place searched for last, saving
  adds,       \* places on their way: the number, the place, how far the server is
  deletes,    \* places whose deletion is on its way
  saved,      \* the server's places, by the number they were sent with
  shownPlaces,\* the list of the page
  listing,    \* the list is being fetched again: how far that is, and what it says
  added,      \* places sent so far
  crossed,    \* (history) places counted before another was saved, and saved after
  missed,     \* (history) the page was not told of a change since the server read the list
  status, shownStatus,    \* of the resource: the server's and the page's
  changes,    \* status changes on their way: [n, to, done]
  changed,    \* status changes sent so far
  asking,     \* the resources are being fetched again: how far that is, and what they say
  untold      \* (history) the answer to a change, or the list after it, was lost

savedVars == <<dialog, adds, deletes, saved, shownPlaces, listing, added, crossed, missed>>
statusVars == <<status, shownStatus, changes, changed, asking, untold>>
savedPlacesVars == <<mapVars, savedVars>>

Idle == [at |-> "idle", says |-> {}]
Asked == [at |-> "asked", says |-> {}]
Closed == [open |-> FALSE, address |-> "placeholder", pin |-> Nowhere, searched |-> Nowhere, saving |-> 0]

SavedPlacesInit ==
  /\ MapInit
  /\ dialog = Closed /\ adds = {} /\ deletes = {} /\ saved = {} /\ shownPlaces = {} /\ listing = Idle
  /\ added = 0 /\ crossed = {} /\ missed = FALSE
  /\ status = FirstStatus /\ shownStatus = FirstStatus /\ changes = {} /\ changed = 0
  /\ asking = Idle /\ untold = FALSE

-----------------------------------------------------------------------------
(* The page: the cards of the list, and the button that adds one; neither  *)
(* while the list is being fetched.  The dialog: its button.               *)
rows == IF listing = Idle THEN shownPlaces ELSE {}
addButton == listing = Idle /\ Cardinality(shownPlaces) < MAX_LOCATIONS
AddLocation == dialog.open /\ dialog.saving = 0 /\ dialog.pin # Nowhere

(* The dialog: a map of its own each time.  What a map that is gone has    *)
(* asked for is of no use to anybody.                                      *)
OpenDialog ==
  /\ ~dialog.open /\ addButton
  /\ dialog' = [Closed EXCEPT !.open = TRUE]
  /\ pinMap' = FreshMap /\ lookups' = {}
  /\ UNCHANGED <<looked, viewVars, adds, deletes, saved, shownPlaces, listing, added, crossed, missed>>
CancelDialog ==
  /\ dialog.open
  /\ dialog' = Closed
  /\ UNCHANGED <<mapVars, adds, deletes, saved, shownPlaces, listing, added, crossed, missed>>

SetAddress(d) == dialog.open /\ dialog' = d
                 /\ UNCHANGED <<looked, viewVars, adds, deletes, saved, shownPlaces, listing, added, crossed, missed>>
handleAddressChange == SetAddress([dialog EXCEPT !.address = "typed", !.pin = Nowhere]) /\ UNCHANGED <<pinMap, lookups>>
handleSearchSelect(p) ==
  /\ SetAddress([dialog EXCEPT !.address = p, !.pin = p, !.searched = p])
  /\ pinMap' = externalPin(pinMap, dialog.searched, p)
  /\ UNCHANGED lookups
AddressInDialog(l) ==
  /\ reverseGeocode(l)
  /\ SetAddress([dialog EXCEPT !.address = l.place, !.pin = l.place])
  /\ UNCHANGED pinMap
PinInDialog(p) == dialog.open /\ handleMapClick(p) /\ UNCHANGED <<viewVars, savedVars>>

SubmitPlace ==
  /\ AddLocation /\ added < MaxAdds
  /\ dialog' = [dialog EXCEPT !.saving = added + 1]
  /\ adds' = adds \cup {[n |-> added + 1, place |-> dialog.pin, address |-> dialog.address, at |-> "sent"]}
  /\ added' = added + 1
  /\ UNCHANGED <<mapVars, deletes, saved, shownPlaces, listing, crossed, missed>>

-----------------------------------------------------------------------------
(* The server counts the user's places, then saves one more. *)
CountPlaces(a) ==
  /\ a \in adds /\ a.at = "sent"
  /\ adds' = (adds \ {a}) \cup
       {[a EXCEPT !.at = IF Cardinality(saved) >= MAX_LOCATIONS THEN "refused" ELSE "counted"]}
  /\ UNCHANGED <<mapVars, dialog, deletes, saved, shownPlaces, listing, added, crossed, missed>>
create_saved_location(a) ==
  /\ a \in adds /\ a.at = "counted"
  /\ adds' = (adds \ {a}) \cup {[a EXCEPT !.at = "saved"]}
  /\ saved' = saved \cup {a.n}
  /\ crossed' = crossed \cup {b.n : b \in {c \in adds \ {a} : c.at = "counted"}}
  /\ UNCHANGED <<mapVars, dialog, deletes, shownPlaces, listing, added, missed>>

(* The answer to a place that was saved has the list fetched again and     *)
(* closes the dialog: the one that is open.  A refusal and a lost answer   *)
(* are told by the dialog that sent it, if it is still there.              *)
addLocation(a) ==
  /\ a \in adds /\ a.at = "saved"
  /\ adds' = adds \ {a}
  /\ listing' = Asked
  /\ dialog' = Closed
  /\ UNCHANGED <<mapVars, deletes, saved, shownPlaces, added, crossed, missed>>
AddFails(a) ==
  /\ a \in adds /\ a.at \in {"sent", "refused", "saved"}
  /\ adds' = adds \ {a}
  /\ dialog' = IF dialog.saving = a.n THEN [dialog EXCEPT !.saving = 0] ELSE dialog
  /\ missed' = (missed \/ a.at = "saved")
  /\ UNCHANGED <<mapVars, deletes, saved, shownPlaces, listing, added, crossed>>

(* A place is deleted from its card. *)
handleDelete(x) ==
  /\ x \in rows
  /\ deletes' = deletes \cup {[of |-> x, done |-> FALSE]}
  /\ UNCHANGED <<mapVars, dialog, adds, saved, shownPlaces, listing, added, crossed, missed>>
delete_saved_location(d) ==
  /\ d \in deletes /\ ~d.done /\ d.of \in saved
  /\ saved' = saved \ {d.of}
  /\ deletes' = (deletes \ {d}) \cup {[d EXCEPT !.done = TRUE]}
  /\ UNCHANGED <<mapVars, dialog, adds, shownPlaces, listing, added, crossed, missed>>
removeLocation(d) ==
  /\ d \in deletes
  /\ deletes' = deletes \ {d}
  /\ \/ d.done /\ listing' = Asked /\ UNCHANGED missed
     \/ missed' = (missed \/ d.done) /\ UNCHANGED listing
  /\ UNCHANGED <<mapVars, dialog, adds, saved, shownPlaces, added, crossed>>

(* The list as it is fetched again: another change has it fetched anew;    *)
(* a failure leaves none.                                                  *)
ServerLists ==
  /\ listing = Asked
  /\ listing' = [at |-> "read", says |-> saved] /\ missed' = FALSE
  /\ UNCHANGED <<mapVars, dialog, adds, deletes, saved, shownPlaces, added, crossed>>
ListArrives ==
  /\ listing # Idle
  /\ listing' = Idle
  /\ \/ listing.at = "read" /\ shownPlaces' = listing.says /\ UNCHANGED missed
     \/ shownPlaces' = {} /\ missed' = TRUE
  /\ UNCHANGED <<mapVars, dialog, adds, deletes, saved, added, crossed>>

-----------------------------------------------------------------------------
(* The status of a resource is picked in its row, which waits for nothing  *)
(* but the list; the last change the server sees stands.                   *)
MyResourcesTable == asking = Idle /\ shownStatus # "none"
ResourceDropdown == IF MyResourcesTable THEN Statuses ELSE {}
handleStatusChange ==
  /\ changed < MaxStatusChanges
  /\ \E s \in ResourceDropdown : changes' = changes \cup {[n |-> changed + 1, to |-> s, done |-> FALSE]}
  /\ changed' = changed + 1
  /\ UNCHANGED <<status, shownStatus, asking, untold>>
update_resource_status(c) ==
  /\ c \in changes /\ ~c.done
  /\ status' = c.to
  /\ changes' = (changes \ {c}) \cup {[c EXCEPT !.done = TRUE]}
  /\ UNCHANGED <<shownStatus, changed, asking, untold>>
(* The answer has the resources fetched again; a failure is told nobody. *)
updateStatus(c) ==
  /\ c \in changes /\ c.done
  /\ changes' = changes \ {c}
  /\ asking' = Asked
  /\ UNCHANGED <<status, shownStatus, changed, untold>>
StatusNotUpdated(c) ==
  /\ c \in changes
  /\ changes' = changes \ {c}
  /\ untold' = (untold \/ c.done)
  /\ UNCHANGED <<status, shownStatus, changed, asking>>
ServerTellsStatus ==
  /\ asking = Asked
  /\ asking' = [at |-> "read", says |-> {status}] /\ untold' = FALSE
  /\ UNCHANGED <<status, shownStatus, changes, changed>>
ResourcesArrive ==
  /\ asking # Idle
  /\ asking' = Idle
  /\ \/ asking.at = "read" /\ shownStatus' \in asking.says /\ UNCHANGED untold
     \/ shownStatus' = "none" /\ untold' = TRUE
  /\ UNCHANGED <<status, changes, changed>>

SavedPlacesNext ==
  \/ OpenDialog \/ CancelDialog \/ handleAddressChange \/ SubmitPlace
  \/ \E p \in Places : handleSearchSelect(p) \/ PinInDialog(p)
  \/ \E l \in lookups : AddressInDialog(l)
  \/ \E a \in adds : CountPlaces(a) \/ create_saved_location(a) \/ addLocation(a) \/ AddFails(a)
  \/ \E x \in shownPlaces : handleDelete(x)
  \/ \E d \in deletes : delete_saved_location(d) \/ removeLocation(d)
  \/ ServerLists \/ ListArrives
StatusNext ==
  \/ handleStatusChange \/ ServerTellsStatus \/ ResourcesArrive
  \/ \E c \in changes : update_resource_status(c) \/ updateStatus(c) \/ StatusNotUpdated(c)

-----------------------------------------------------------------------------
SavedPlacesTypeOK ==
  /\ MapTypeOK
  /\ dialog \in [open : BOOLEAN, address : Places \cup {"placeholder", "typed"}, pin : Places \cup {Nowhere},
                 searched : Places \cup {Nowhere}, saving : 0..MaxAdds]
  /\ \A a \in adds : a.n \in 1..added /\ a.at \in {"sent", "counted", "refused", "saved"}
  /\ saved \subseteq 1..added /\ shownPlaces \subseteq 1..added /\ crossed \subseteq 1..added
  /\ \A d \in deletes : d.of \in 1..added
  /\ status \in Statuses /\ shownStatus \in Statuses \cup {"none"} /\ changed \in 0..MaxStatusChanges

(* There are never more places than the limit, except those that were      *)
(* counted out together.                                                   *)
PlacesAreFew == Cardinality({x \in saved : x \notin crossed}) <= MAX_LOCATIONS

(* A place is saved with the address of its pin, whichever of a click, a   *)
(* late address, a search and a word typed in between came last.           *)
PlacesAreNamed == \A a \in adds : a.address = a.place

(* When nothing is on its way the list is the server's, unless the page    *)
(* was not told of a change.                                               *)
ListFollows == adds = {} /\ deletes = {} /\ listing = Idle => shownPlaces = saved \/ missed

PlacesAreRight == PlacesAreFew /\ PlacesAreNamed /\ ListFollows

(* So it is with the status of a resource, however many changes were on    *)
(* their way at once and in whatever order the server saw them.            *)
StatusFollows == changes = {} /\ asking = Idle => shownStatus = status \/ untold
=============================================================================
