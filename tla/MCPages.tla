------------------------------ MODULE MCPages -------------------------------
(* An instance for TLC of the modules about the forms with a map           *)
(* and the notices of a tab, each in a scene.                              *)
EXTENDS ReportForm, ResourceForm, SavedPlaces, NotificationFeed, TLC

CONSTANTS p1, p2, t1, t2, s1, s2

VARIABLE scene

(* A scene that is not played starts in one state only. *)
PagesInit ==
  /\ ReportFormInit /\ ResourceFormInit /\ SavedPlacesInit /\ FeedInit
  /\ scene \in {"report", "view", "resource", "saved", "status", "feed"}
  /\ scene # "feed" => session /\ \A f \in fetches : f.toasts

PagesNext ==
  /\ UNCHANGED scene
  /\ \/ scene = "report" /\ ReportFormNext
        /\ UNCHANGED <<resourceVars, savedVars, statusVars, feedVars>>
     \/ scene = "resource" /\ ResourceFormNext
        /\ UNCHANGED <<formVars, savedVars, statusVars, feedVars>>
     \/ scene = "view" /\ ViewNext
        /\ UNCHANGED <<formVars, resourceVars, savedVars, statusVars, feedVars>>
     \/ scene = "saved" /\ SavedPlacesNext
        /\ UNCHANGED <<formVars, resourceVars, statusVars, feedVars>>
     \/ scene = "status" /\ StatusNext
        /\ UNCHANGED <<mapVars, formVars, resourceVars, savedVars, feedVars>>
     \/ scene = "feed" /\ FeedNext
        /\ UNCHANGED <<mapVars, formVars, resourceVars, savedVars, statusVars>>

pagesVars == <<scene, mapVars, formVars, resourceVars, savedVars, statusVars, feedVars>>
PagesSpec == PagesInit /\ [][PagesNext]_pagesVars

Symmetric == Permutations({p1, p2}) \cup Permutations({t1, t2})

-----------------------------------------------------------------------------
TypeOK ==
  /\ ReportFormTypeOK /\ ResourceFormTypeOK /\ SavedPlacesTypeOK /\ FeedTypeOK

(* What the forms file: see ReportsAreRight, WatchMovesOnce,               *)
(* ResourcesAreRight, PlacesAreRight and StatusFollows.                    *)
FormsHold ==
  /\ scene = "report" => ReportsAreRight
  /\ scene = "resource" => ResourcesAreRight
  /\ scene = "view" => WatchMovesOnce
  /\ scene = "saved" => PlacesAreRight
  /\ scene = "status" => StatusFollows

(* What a tab shows of notices: see ListedOnce and ToastsAreNew.           *)
TabsHold == scene = "feed" => ListedOnce /\ ToastsAreNew
=============================================================================
