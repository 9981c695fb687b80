---------------------------- MODULE FireNotices ----------------------------
(***************************************************************************)
(* Who is told of a fire                                                   *)
(* (app/backend/src/services/notifications/notifications.py).              *)
(*                                                                         *)
(* Every user has a ladder of distances; a proximity check compares the    *)
(* rung a user is on, for each verified fire, with the closest rung of the *)
(* notices already stored, and stores a notice when the user has come      *)
(* closer.  A sweep checks everybody every minute, a change of place       *)
(* checks the user who moved, and an administrator's decision about a      *)
(* fire is announced to those near it, or to those who were told of it.    *)
(* All of these run in threads of their own, with a commit at their end.   *)
(*                                                                         *)
(* Distances are to the fire's edge: a user who moves or a fire that grows *)
(* changes them.  Of the stored notices of a user about a fire only the    *)
(* least distance is ever read.  The live delivery over sockets and Web    *)
(* Push follows the commit and is left out.                                *)
(***************************************************************************)
EXTENDS Integers, FiniteSets, FiniteSetsExt

CONSTANTS
  Users, Fires,
  Thresholds,   \* the ladder of each user's role
  Distances,    \* to a fire's edge, in km
  Sweeper,      \* the proximity scheduler's thread
  NoOne, NoFire,
  MaxMoves,     \* bound: how often a user moves
  MaxGrowth,    \* bound: how often fires grow
  MaxDecisions  \* bound: decisions about fires, by people and by the system

NoDistance == 1000  \* no location shared, or no notice: farther than any rung
ASSUME DistancesAssumption == Distances \subseteq 0..NoDistance
ASSUME ThresholdsAssumption == Thresholds \in [Users -> SUBSET (1..NoDistance - 1)]
ASSUME BoundsAssumption == MaxMoves \in Nat /\ MaxGrowth \in Nat /\ MaxDecisions \in Nat
ASSUME ThreadsAssumption == Sweeper \notin Users /\ NoOne \notin Users /\ NoFire \notin Fires

VARIABLES
  distance, \* of each user to each fire's edge, NoDistance before a user shares a place
  fireStatus, \* of fire_reports, as far as it is verified or not
  closest,  \* min(notifications.distance) per user and fire
  check,    \* check_proximity_for_user, per thread
  round,    \* the users the sweep has still to check
  decision, \* status_change by an administrator and what it announces
  unheard,  \* history: the users told of a fire who have not heard it is no longer verified
  moves, growth, decisions

vars == <<distance, fireStatus, closest, check, round, decision, unheard,
          moves, growth, decisions>>
bounds == <<moves, growth, decisions>>

Threads == Users \cup {Sweeper}
Free == [at |-> "free", user |-> NoOne, todo |-> {}, near |-> <<>>, found |-> {}]
NoDecision == [at |-> "none", fire |-> NoFire, to |-> FALSE, previous |-> FALSE,
               near |-> <<>>, audience |-> {}]
AllDistances == Distances \cup {NoDistance}

Work == [at : {"free", "called", "looking"}, user : Users \cup {NoOne},
         todo : SUBSET Fires, near : [Fires -> AllDistances] \cup {<<>>},
         found : SUBSET Fires]
Deciding == [at : {"none", "read", "written", "counted"}, fire : Fires \cup {NoFire},
             to : BOOLEAN, previous : BOOLEAN,
             near : [Users -> AllDistances] \cup {<<>>}, audience : SUBSET Users]

NoticesTypeOK ==
  /\ distance \in [Users -> [Fires -> AllDistances]]
  /\ fireStatus \in [Fires -> BOOLEAN]
  /\ closest \in [Users -> [Fires -> AllDistances]]
  /\ check \in [Threads -> Work]
  /\ \A t \in Threads :
       /\ check[t].at # "free" => check[t].user \in Users
       /\ check[t].at = "looking" => check[t].near \in [Fires -> AllDistances]
  /\ round \subseteq Users
  /\ decision \in Deciding
  /\ decision.at # "none" => decision.fire \in Fires
  /\ decision.at = "counted" => decision.near \in [Users -> AllDistances]
  /\ unheard \subseteq Users \X Fires
  /\ moves \in [Users -> 0..MaxMoves] /\ growth \in 0..MaxGrowth
  /\ decisions \in 0..MaxDecisions

-----------------------------------------------------------------------------
\* tier_for_distance; NoDistance stands for None
Tier(d, rungs) ==
  LET reached == {t \in rungs : d <= t}
  IN IF reached = {} THEN NoDistance ELSE Min(reached)

Rung(u, d) == Tier(d, Thresholds[u])
Nearer(a, b) == IF a < b THEN a ELSE b

(* (fault) the rung is stored instead of the distance *)
RecordedRung(u, d) == Rung(u, d)
\* What a notice keeps of where the user was.
Recorded(u, d) == d

Init ==
  /\ distance = [u \in Users |-> [f \in Fires |-> NoDistance]]
  /\ fireStatus = [f \in Fires |-> FALSE]
  /\ closest = [u \in Users |-> [f \in Fires |-> NoDistance]]
  /\ check = [t \in Threads |-> Free]
  /\ round = {}
  /\ decision = NoDecision
  /\ unheard = {}
  /\ moves = [u \in Users |-> 0] /\ growth = 0 /\ decisions = 0

-----------------------------------------------------------------------------
(***************************************************************************)
(* What changes the distances, and the system's own verdicts, which are    *)
(* not announced (run_verification).                                       *)
(***************************************************************************)

\* PATCH /me/location: a user is somewhere else, and is checked.
Move(u) ==
  /\ check[u].at = "free" /\ moves[u] < MaxMoves
  /\ \E d \in [Fires -> Distances] : distance' = [distance EXCEPT ![u] = d]
  /\ check' = [check EXCEPT ![u] = [Free EXCEPT !.at = "called", !.user = u]]
  /\ moves' = [moves EXCEPT ![u] = @ + 1]
  /\ UNCHANGED <<fireStatus, closest, round, decision, unheard, growth, decisions>>

Grow(f) ==
  /\ growth < MaxGrowth
  /\ \E d \in [Users -> AllDistances] :
       /\ \A u \in Users : (d[u] = NoDistance) = (distance[u][f] = NoDistance)
       /\ \A u \in Users : d[u] <= distance[u][f]
       /\ distance' = [u \in Users |-> [distance[u] EXCEPT ![f] = d[u]]]
  /\ growth' = growth + 1
  /\ UNCHANGED <<fireStatus, closest, check, round, decision, unheard, moves, decisions>>

SystemDecides(f) ==
  /\ decisions < MaxDecisions
  /\ fireStatus' = [fireStatus EXCEPT ![f] = ~@]
  /\ decisions' = decisions + 1
  /\ UNCHANGED <<distance, closest, check, round, decision, unheard, moves, growth>>

-----------------------------------------------------------------------------
(***************************************************************************)
(* Proximity checks.                                                       *)
(***************************************************************************)

\* run_proximity_sweep: the users with a place, one after the other.
StartRound ==
  /\ round = {} /\ check[Sweeper].at = "free"
  /\ round' = {u \in Users : \E f \in Fires : distance[u][f] # NoDistance}
  /\ UNCHANGED <<distance, fireStatus, closest, check, decision, unheard, bounds>>

NextInRound(u) ==
  /\ u \in round /\ check[Sweeper].at = "free"
  /\ round' = round \ {u}
  /\ check' = [check EXCEPT ![Sweeper] = [Free EXCEPT !.at = "called", !.user = u]]
  /\ UNCHANGED <<distance, fireStatus, closest, decision, unheard, bounds>>

\* The verified fires within reach.
ReadFires(t) ==
  LET u == check[t].user
  IN /\ check[t].at = "called"
     /\ check' = [check EXCEPT ![t].at = "looking", ![t].near = distance[u],
          ![t].todo = {f \in Fires : fireStatus[f] /\ Rung(u, distance[u][f]) # NoDistance}]
     /\ UNCHANGED <<distance, fireStatus, closest, round, decision, unheard, bounds>>

(* (fault) the closest notice about any fire *)
PreviousOfAnyFire(u, f) == Min({closest[u][g] : g \in Fires})
Previous(u, f) == closest[u][f]

\* One query per fire; what is found is stored at the end.
Look(t, f) ==
  LET u == check[t].user
      closer == Rung(u, check[t].near[f]) < Rung(u, Previous(u, f))
  IN /\ check[t].at = "looking" /\ f \in check[t].todo
     /\ check' = [check EXCEPT ![t].todo = @ \ {f},
                               ![t].found = IF closer THEN @ \cup {f} ELSE @]
     /\ UNCHANGED <<distance, fireStatus, closest, round, decision, unheard, bounds>>

Store(t) ==
  LET u == check[t].user
  IN /\ check[t].at = "looking" /\ check[t].todo = {}
     /\ closest' = [closest EXCEPT ![u] = [f \in Fires |->
          IF f \in check[t].found THEN Nearer(@[f], Recorded(u, check[t].near[f])) ELSE @[f]]]
     /\ check' = [check EXCEPT ![t] = Free]
     /\ UNCHANGED <<distance, fireStatus, round, decision, unheard, bounds>>

-----------------------------------------------------------------------------
(***************************************************************************)
(* An administrator's decision and its announcement.  A change of how a    *)
(* verified fire behaves (fire_status_change) and a merge announce an      *)
(* update as well: they are the decision that leaves it verified.          *)
(***************************************************************************)

Told(u, f) == closest[u][f] # NoDistance

\* status_change: the row is read,
DecisionReads(f, to) ==
  /\ decision.at = "none" /\ decisions < MaxDecisions
  /\ decision' = [NoDecision EXCEPT !.at = "read", !.fire = f, !.to = to,
                                    !.previous = fireStatus[f]]
  /\ decisions' = decisions + 1
  /\ UNCHANGED <<distance, fireStatus, closest, check, round, unheard, moves, growth>>

\* the status written, unless it is the one that was read,
DecisionWrites ==
  LET f == decision.fire
      withdrawn == decision.previous /\ ~decision.to
  IN /\ decision.at = "read"
     /\ fireStatus' = [fireStatus EXCEPT ![f] =
                         IF decision.to = decision.previous THEN @ ELSE decision.to]
     /\ unheard' = (unheard \ (Users \X {f})) \cup
                   (IF withdrawn THEN {u \in Users : Told(u, f)} \X {f} ELSE {})
     /\ decision' = IF decision.to \/ decision.previous
                    THEN [decision EXCEPT !.at = "written"] ELSE NoDecision
     /\ UNCHANGED <<distance, closest, check, round, bounds>>

(* (fault) an update goes to those near the fire only *)
AudienceNearby ==
  LET f == decision.fire
  IN {u \in Users : Rung(u, distance[u][f]) # NoDistance}

\* notify_fire_alert tells those near, unless the refreshed row is not
\* verified; notify_fire_update tells those told before.
Audience ==
  LET f == decision.fire
  IN IF decision.to /\ ~decision.previous
     THEN {u \in Users : fireStatus[f] /\ Rung(u, distance[u][f]) # NoDistance}
     ELSE {u \in Users : Told(u, f)}

\* the row refreshed, the users and their distances read,
Count ==
  /\ decision.at = "written"
  /\ decision' = [decision EXCEPT !.at = "counted", !.audience = Audience,
                    !.near = [u \in Users |-> distance[u][decision.fire]]]
  /\ UNCHANGED <<distance, fireStatus, closest, check, round, unheard, bounds>>

\* and the notices stored.
Announce ==
  LET f == decision.fire
      who == decision.audience
  IN /\ decision.at = "counted"
     /\ closest' = [u \in Users |-> IF u \notin who THEN closest[u]
                     ELSE [closest[u] EXCEPT ![f] = Nearer(@, Recorded(u, decision.near[u]))]]
     /\ unheard' = unheard \ (who \X {f})
     /\ decision' = NoDecision
     /\ UNCHANGED <<distance, fireStatus, check, round, bounds>>

Announcing == DecisionWrites \/ Count \/ Announce

Checking(t) == ReadFires(t) \/ (\E f \in Fires : Look(t, f)) \/ Store(t)
Sweeping == StartRound \/ (\E u \in Users : NextInRound(u)) \/ Checking(Sweeper)

Next ==
  \/ \E u \in Users : Move(u) \/ Checking(u)
  \/ Sweeping
  \/ \E f \in Fires : Grow(f) \/ SystemDecides(f)
  \/ \E f \in Fires, to \in BOOLEAN : DecisionReads(f, to)
  \/ Announcing

Spec == Init /\ [][Next]_vars

\* run_proximity_check_loop goes on for ever, and threads run.
FairSpec == Spec /\ WF_vars(Sweeping) /\ WF_vars(Announcing)
                 /\ \A u \in Users : WF_vars(Checking(u))

-----------------------------------------------------------------------------
(* Properties. *)

(* Whoever stays on a rung of a verified fire has a notice of that rung or *)
(* a closer one in the end, whether they walked there or the fire came to  *)
(* them, and whatever threads looked and stored at the same time.          *)
EveryTierIsTold ==
  \A u \in Users, f \in Fires :
    []<>(fireStatus[f] => Rung(u, closest[u][f]) <= Rung(u, distance[u][f]))

(* Whoever was told of a fire hears that it is no longer verified, however *)
(* far away they are by then: no announcement ends with anyone left out.   *)
TrackersHearOfIt ==
  \A p \in unheard : decision.at # "none" /\ decision.fire = p[2]

=============================================================================
