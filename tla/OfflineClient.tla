---------------------------- MODULE OfflineClient ----------------------------
(***************************************************************************)
(* The browser without a network (app/frontend/src/lib/offlineStore.ts,    *)
(* lib/offline/shared.ts, components/shared/OfflineBar.tsx, pages/_app.tsx *)
(* and the part of the firefighter's and the guest's map that falls back   *)
(* to the fires kept from earlier).                                        *)
(*                                                                         *)
(* A health probe answers from the memory of a failure that is at most     *)
(* CACHE_TTL_MS old, or asks the server.  Actions queued in IndexedDB are  *)
(* replayed when the browser is back online, by the offline bar and by the *)
(* application, each without the other's knowledge; a page that closes     *)
(* drops what it was doing, and the stored data stay.                      *)
(*                                                                         *)
(* Queuing is the store's interface: no page calls it at this revision,    *)
(* and the server has no route at the paths the replay posts to, so that   *)
(* every post is refused; the server here accepts or refuses.              *)
(***************************************************************************)
EXTENDS Integers, FiniteSets

CONSTANTS
  Actions,        \* the actions the user may queue
  Incidents,      \* the fires a list may hold
  Verified,       \* those whose status is verified
  Lists,          \* the lists the server may send
  MaxProbes,      \* bound: the health probes in flight of one kind
  MaxReplays,     \* bound: replays of the queue
  MaxOutages, MaxCloses, MaxReads   \* bounds: drops of the network, pages closed, lists read

ASSUME OfflineAssumption ==
  /\ IsFiniteSet(Actions)
  /\ Verified \subseteq Incidents
  /\ Lists \subseteq SUBSET Incidents
  /\ {MaxProbes, MaxReplays, MaxOutages, MaxCloses, MaxReads} \subseteq Nat

Replays == 1..MaxReplays
Probers == {"bar", "app", "map"}

VARIABLES
  onLine,       \* navigator.onLine
  knownDown,    \* cachedHealthStatus is false and not yet CACHE_TTL_MS old
  probing,      \* of each caller: how many of its probes are in flight
  isOffline, failCount, queueCount,   \* the offline bar
  queued,       \* action_queue in IndexedDB
  started,      \* how many replays there have been
  counting,     \* the replays of the bar, which counts the queue when they have ended
  replay,       \* of each replay: the posts not yet answered
  removing,     \* of each replay: the accepted actions not yet removed
  made,         \* the actions that were ever queued
  accepted,     \* how often the server took each action
  doubled,      \* the actions posted while another post of theirs was under way,
                \* or left in the queue, accepted, by a page that closed
  fires,        \* the list of the hook, {} while there is none
  activeFires,  \* the fires on the map
  incidents,    \* the incidents in IndexedDB
  reading,      \* the stored incidents read and not yet shown
  given,        \* the last list with fires in it
  overtaken,    \* a list read before the last one came was shown after it
  outages, closes, reads

barVars == <<isOffline, failCount, queueCount>>
queueVars == <<queued, started, counting, replay, removing, made, accepted, doubled>>
mapVars == <<fires, activeFires, incidents, reading, given, overtaken, reads>>
netVars == <<onLine, knownDown, probing, outages, closes>>
offlineVars == <<netVars, barVars, queueVars, mapVars>>

OfflineTypeOK ==
  /\ onLine \in BOOLEAN /\ knownDown \in BOOLEAN /\ overtaken \in BOOLEAN
  /\ probing \in [Probers -> 0..MaxProbes]
  /\ isOffline \in BOOLEAN
  /\ failCount \in 0..2
  /\ queueCount \in 0..Cardinality(Actions)
  /\ queued \subseteq made /\ made \subseteq Actions /\ doubled \subseteq made
  /\ started \in 0..MaxReplays
  /\ counting \subseteq 1..started
  /\ replay \in [Replays -> SUBSET Actions]
  /\ removing \in [Replays -> SUBSET Actions]
  /\ accepted \in [Actions -> Nat]
  /\ fires \in Lists \cup {{}}
  /\ activeFires \subseteq Verified
  /\ incidents \subseteq Incidents
  /\ reading \subseteq SUBSET Incidents
  /\ given \subseteq Incidents
  /\ outages \in 0..MaxOutages /\ closes \in 0..MaxCloses /\ reads \in 0..MaxReads

OfflineInit ==
  /\ onLine = TRUE
  /\ knownDown = FALSE
  /\ probing = [p \in Probers |-> 0]
  /\ isOffline = FALSE
  /\ failCount = 0
  /\ queueCount = 0
  /\ queued = {}
  /\ started = 0
  /\ counting = {}
  /\ replay = [p \in Replays |-> {}]
  /\ removing = [p \in Replays |-> {}]
  /\ made = {}
  /\ accepted = [a \in Actions |-> 0]
  /\ doubled = {}
  /\ fires = {}
  /\ activeFires = {}
  /\ incidents \in Lists
  /\ reading = {}
  /\ given = {}
  /\ overtaken = FALSE
  /\ outages = 0
  /\ closes = 0
  /\ reads = 0

-----------------------------------------------------------------------------
(* probeHealth: at once from navigator.onLine or from the memory of a      *)
(* failure (which only the first of them writes), else with the server's   *)
(* answer, or its silence for three seconds.                               *)

ProbeAtOnce == ~onLine \/ knownDown
Probe(p) ==
  /\ onLine /\ ~knownDown
  /\ probing[p] < MaxProbes
  /\ probing' = [probing EXCEPT ![p] = @ + 1]
Remember == knownDown' = (knownDown \/ ~onLine)
HealthExpires ==
  /\ knownDown
  /\ knownDown' = FALSE
  /\ UNCHANGED <<onLine, probing, outages, closes, barVars, queueVars, mapVars>>

-----------------------------------------------------------------------------
(* The queue. *)

queueRawAction(a) ==
  /\ a \notin made
  /\ made' = made \cup {a}
  /\ queued' = queued \cup {a}
  /\ UNCHANGED <<netVars, barVars, started, counting, replay, removing, accepted, doubled, mapVars>>

(* A replay reads the queue and posts all of it together. *)
getQueuedActions == queued
UnderWay(a) == \E p \in Replays : a \in replay[p] \cup removing[p]
syncQueuedActions ==
  /\ started < MaxReplays
  /\ started' = started + 1
  /\ replay' = [replay EXCEPT ![started + 1] = getQueuedActions]
  /\ doubled' = doubled \cup {a \in getQueuedActions : UnderWay(a)}
PostRefused(p, a) ==
  /\ a \in replay[p]
  /\ replay' = [replay EXCEPT ![p] = @ \ {a}]
  /\ UNCHANGED <<netVars, barVars, queued, started, counting, removing, made, accepted, doubled, mapVars>>
\* (fault) The action leaves the queue with its post.
RemoveBeforeAnswer(p, a) ==
  /\ a \in replay[p]
  /\ queued' = queued \ {a}
  /\ replay' = [replay EXCEPT ![p] = @ \ {a}]
  /\ UNCHANGED <<netVars, barVars, started, counting, removing, made, accepted, doubled, mapVars>>
(* The action leaves the queue after the answer. *)
PostAccepted(p, a) ==
  /\ onLine
  /\ a \in replay[p]
  /\ accepted' = [accepted EXCEPT ![a] = @ + 1]
  /\ replay' = [replay EXCEPT ![p] = @ \ {a}]
  /\ removing' = [removing EXCEPT ![p] = @ \cup {a}]
  /\ UNCHANGED <<netVars, barVars, queued, started, counting, made, doubled, mapVars>>
removeQueueAction(p, a) ==
  /\ a \in removing[p]
  /\ queued' = queued \ {a}
  /\ removing' = [removing EXCEPT ![p] = @ \ {a}]
  /\ UNCHANGED <<netVars, barVars, started, counting, replay, made, accepted, doubled, mapVars>>

-----------------------------------------------------------------------------
(* The offline bar. *)

Counted == queueCount' = Cardinality(getQueuedActions)
BarReached ==
  /\ failCount' = 0
  /\ isOffline' = FALSE
BarFailed ==
  /\ failCount' = IF failCount = 0 THEN 1 ELSE 2
  /\ isOffline' = (isOffline \/ failCount >= 1)

(* Every 15 seconds.  The pause after a failure never applies: the time of *)
(* the last failure (lastFailRef) is not written anywhere.                 *)
checkStatus ==
  /\ Counted
  /\ IF ~onLine THEN /\ isOffline' = TRUE
                     /\ UNCHANGED <<failCount, netVars>>
     ELSE IF ProbeAtOnce THEN BarFailed /\ UNCHANGED netVars
     ELSE Probe("bar") /\ UNCHANGED <<isOffline, failCount, onLine, knownDown, outages, closes>>
  /\ UNCHANGED <<queueVars, mapVars>>
BarProbeAnswers(up) ==
  /\ probing["bar"] > 0
  /\ probing' = [probing EXCEPT !["bar"] = @ - 1]
  /\ up => onLine
  /\ IF up THEN BarReached ELSE BarFailed
  /\ Counted
  /\ UNCHANGED <<onLine, knownDown, outages, closes, queueVars, mapVars>>
BarCounts(r) ==
  /\ r \in counting
  /\ replay[r] = {} /\ removing[r] = {}
  /\ counting' = counting \ {r}
  /\ Counted
  /\ UNCHANGED <<netVars, isOffline, failCount, queued, started, replay, removing, made, accepted, doubled, mapVars>>

barShown == isOffline \/ queueCount > 0

(* The network comes back: the bar replays at once, the application after  *)
(* a probe, which may still answer from the failure before.                *)
HandleOnline ==
  /\ ~onLine
  /\ onLine' = TRUE
  /\ isOffline' = FALSE
  /\ failCount' = 0
  /\ syncQueuedActions
  /\ counting' = counting \cup {started + 1}
  /\ IF knownDown THEN UNCHANGED probing
     ELSE probing["app"] < MaxProbes /\ probing' = [probing EXCEPT !["app"] = @ + 1]
  /\ UNCHANGED <<knownDown, outages, closes, queueCount, queued, removing, made, accepted, mapVars>>
HandleReconnection(up) ==
  /\ probing["app"] > 0
  /\ probing' = [probing EXCEPT !["app"] = @ - 1]
  /\ up => onLine
  /\ IF up THEN syncQueuedActions ELSE UNCHANGED <<started, replay, doubled>>
  /\ UNCHANGED <<onLine, knownDown, outages, closes, barVars, queued, counting, removing, made, accepted, mapVars>>
HandleOffline ==
  /\ onLine /\ outages < MaxOutages
  /\ onLine' = FALSE
  /\ outages' = outages + 1
  /\ isOffline' = TRUE
  /\ UNCHANGED <<knownDown, probing, closes, failCount, queueCount, queueVars, mapVars>>

(* The page closes and is opened again. *)
PageCloses ==
  /\ closes < MaxCloses
  /\ closes' = closes + 1
  /\ probing' = [p \in Probers |-> 0]
  /\ knownDown' = FALSE
  /\ isOffline' = FALSE
  /\ failCount' = 0
  /\ queueCount' = 0
  /\ replay' = [p \in Replays |-> {}]
  /\ removing' = [p \in Replays |-> {}]
  /\ counting' = {}
  /\ doubled' = doubled \cup UNION {replay[p] \cup removing[p] : p \in Replays}
  /\ fires' = {}
  /\ activeFires' = {}
  /\ reading' = {}
  /\ given' = {}
  /\ overtaken' = FALSE
  /\ UNCHANGED <<onLine, outages, queued, started, made, accepted, incidents, reads>>

-----------------------------------------------------------------------------
(* The firefighter's map: a list with fires in it is shown and kept;       *)
(* without one, and without the server, the kept one is shown.             *)

cacheIncidents(list) == incidents' = list
ListArrives(list) ==
  /\ onLine /\ reads < MaxReads
  /\ reads' = reads + 1
  /\ fires' = list
  /\ IF list = {} THEN UNCHANGED <<activeFires, incidents, given, overtaken>>
     ELSE /\ activeFires' = list \cap Verified
          /\ cacheIncidents(list)
          /\ given' = list
          /\ overtaken' = FALSE
  /\ UNCHANGED <<netVars, barVars, queueVars, reading>>
ListFails ==
  /\ fires # {}
  /\ fires' = {}
  /\ UNCHANGED <<netVars, barVars, queueVars, activeFires, incidents, reading, given, overtaken, reads>>

(* The effect runs at every render while there is no list: it is a new     *)
(* empty array each time.                                                  *)
getCachedIncidents == reading' = reading \cup {incidents}
syncFires ==
  /\ fires = {}
  /\ IF ProbeAtOnce THEN getCachedIncidents /\ Remember /\ UNCHANGED probing
     ELSE Probe("map") /\ UNCHANGED <<reading, knownDown>>
  /\ UNCHANGED <<onLine, outages, closes, barVars, queueVars, fires, activeFires, incidents, given, overtaken, reads>>
SyncFiresAnswers(up) ==
  /\ probing["map"] > 0
  /\ probing' = [probing EXCEPT !["map"] = @ - 1]
  /\ up => onLine
  /\ IF up THEN UNCHANGED reading ELSE getCachedIncidents
  /\ UNCHANGED <<onLine, knownDown, outages, closes, barVars, queueVars, fires, activeFires, incidents, given, overtaken, reads>>
CachedShown(list) ==
  /\ list \in reading
  /\ reading' = reading \ {list}
  /\ activeFires' = IF list = {} THEN activeFires ELSE list \cap Verified
  /\ overtaken' = (list # given)
  /\ UNCHANGED <<netVars, barVars, queueVars, fires, incidents, given, reads>>

-----------------------------------------------------------------------------
QueueStep ==
  \/ \E a \in Actions : queueRawAction(a)
  \/ \E p \in Replays, a \in Actions : PostRefused(p, a) \/ PostAccepted(p, a) \/ removeQueueAction(p, a)
NetStep == HandleOnline \/ HandleOffline \/ HealthExpires \/ PageCloses
BarStep ==
  \/ checkStatus
  \/ \E r \in counting : BarCounts(r)
  \/ \E up \in BOOLEAN : BarProbeAnswers(up) \/ HandleReconnection(up)
MapStep ==
  \/ ListFails \/ syncFires
  \/ \E l \in Lists : ListArrives(l)
  \/ \E l \in reading : CachedShown(l)
  \/ \E up \in BOOLEAN : SyncFiresAnswers(up)
OfflineNext == QueueStep \/ NetStep \/ BarStep \/ MapStep
-----------------------------------------------------------------------------
(* An action that was queued stays in the queue until the server has taken *)
(* it, and the server takes it twice only where two posts of it overlapped *)
(* or a page closed between the answer and the removal (syncQueuedActions, *)
(* started by the bar and by the application on the same event).           *)
QueueIsKept ==
  \A a \in made :
     /\ a \in queued \/ accepted[a] > 0
     /\ accepted[a] > 1 => a \in doubled

(* The bar calls a browser with a network offline only after two probes    *)
(* have failed in a row, counts no more than was ever queued, and shows    *)
(* itself to nobody who has a network and queued nothing before then.      *)
BarIsFair ==
  /\ isOffline /\ onLine => failCount = 2
  /\ queueCount <= Cardinality(made)
  /\ onLine /\ failCount < 2 /\ made = {} => ~barShown

(* The map shows the verified fires of the last list that had any, unless  *)
(* what was read from the store before that list came is shown after it;   *)
(* and the store holds that list (syncFires, which nothing cancels).       *)
MapIsUpToDate ==
  given # {} =>
    /\ activeFires = given \cap Verified \/ overtaken
    /\ incidents = given
=============================================================================
