----------------------------- MODULE LiveQueries -----------------------------
(***************************************************************************)
(* The hooks with which the pages ask the server (app/frontend/src/hooks). *)
(*                                                                         *)
(* A hook asks its question when the page's key for it changes: a URL, a   *)
(* place, a text.  Each hook has its own habits: what it shows while it    *)
(* waits, what it keeps when a request fails, what it does when there is   *)
(* nothing to ask, and whether it drops the answer to a question that is   *)
(* no longer asked.  One hook is followed at a time.  A text that is being *)
(* typed becomes the key when the typing pauses (useDebounce).             *)
(*                                                                         *)
(* Beside them: the terrain bias of the fires on the map, fetched once per *)
(* place and set for all of them together (useTerrainBias), and the two    *)
(* hooks that tell the server where the user is.                           *)
(***************************************************************************)
EXTENDS Integers, FiniteSets, SequencesExt

CONSTANTS
  Keys, NoKey,
  MaxAsks,                 \* bound: changes of the key, refetches
  BiasFires, BiasPlace,    \* fires, and their place to the accuracy of cacheKey
  Places, NoPlace,         \* places of the user that are MIN_DELTA_DEG apart
  FiresAt,                 \* the fires the server finds near a place, nearest first
  MaxSends                 \* bound: reports of the user's place

ASSUME QueriesAssumption ==
  /\ NoKey \notin Keys /\ NoPlace \notin Places
  /\ MaxAsks \in Nat \ {0} /\ MaxSends \in Nat
  /\ FiresAt \in [Places -> Seq(BiasFires)]

-----------------------------------------------------------------------------
(* The habits.  first: what is asked at the start; spins: the loading mark *)
(* is on from the start; blank: what happens when there is nothing to ask  *)
(* any more; keeps: the data survive a failure; tells: a failure is shown; *)
(* again: what makes it ask the same question again.                       *)
Habit(first, spins, blank, keeps, tells, again) ==
  [first |-> first, spins |-> spins, blank |-> blank, keeps |-> keeps, tells |-> tells, again |-> again]
useFetch           == Habit("key", TRUE, "reset", FALSE, TRUE, "refetch")
useFuelConditions  == Habit("none", FALSE, "leave", TRUE, TRUE, "never")
useNearbyFires     == Habit("none", TRUE, "once", FALSE, TRUE, "never")
useGuestDashboard  == Habit("key", TRUE, "never", TRUE, TRUE, "recenter")
useNearbyResources == Habit("key", TRUE, "never", FALSE, TRUE, "never")
useGeoSearch       == Habit("none", FALSE, "clear", FALSE, TRUE, "never")
useLiveFireEnvironment == Habit("key", FALSE, "leave", TRUE, FALSE, "interval")
useUserInfo        == Habit("key", TRUE, "fixed", TRUE, FALSE, "never")
HabitOf ==
  [fetch |-> useFetch, fuel |-> useFuelConditions, nearby |-> useNearbyFires,
   guest |-> useGuestDashboard, resources |-> useNearbyResources, search |-> useGeoSearch,
   weather |-> useLiveFireEnvironment, user |-> useUserInfo]
Hooks == DOMAIN HabitOf
Debounced == {"search"}

VARIABLES
  hook,       \* the hook that is followed
  typed,      \* the value of the page ...
  key,        \* ... and the key of the hook
  data,       \* the key the data on display are of
  loading,
  failed,     \* an error is shown
  requests,   \* the requests in flight: their key, by number
  current,    \* the request that is not cancelled, or 0
  asks

queryVars == <<hook, typed, key, data, loading, failed, requests, current, asks>>
habit == HabitOf[hook]

QueryInit ==
  /\ hook \in Hooks
  /\ key \in IF HabitOf[hook].first = "key" THEN Keys ELSE {NoKey}
  /\ typed = key
  /\ data = NoKey
  /\ loading = HabitOf[hook].spins
  /\ failed = FALSE
  /\ current = IF key = NoKey THEN 0 ELSE 1
  /\ requests = IF key = NoKey THEN <<>> ELSE <<key>>
  /\ asks = IF key = NoKey THEN 0 ELSE 1

(* The effect of a new key: the request before is cancelled.               *)
Send(k) ==
  /\ asks' = asks + 1
  /\ requests' = [n \in DOMAIN requests \cup {asks + 1} |-> IF n = asks + 1 THEN k ELSE requests[n]]
  /\ current' = IF k = key /\ habit.again = "interval" THEN current ELSE asks + 1
  /\ loading' = (hook # "weather")
  /\ failed' = FALSE
  /\ UNCHANGED data
Stop ==
  /\ asks' = asks + 1
  /\ current' = 0
  /\ data' = IF habit.blank \in {"reset", "clear"} THEN NoKey ELSE data
  /\ loading' = (loading /\ habit.blank # "reset")
  /\ UNCHANGED <<requests, failed>>
Effect(k) == IF k = NoKey THEN Stop ELSE Send(k)

KeyChanges(k) ==
  /\ asks < MaxAsks
  /\ k # typed
  /\ k = NoKey => habit.blank \in {"reset", "leave", "clear"}
  /\ habit.blank # "fixed"
  /\ habit.blank = "once" => typed = NoKey
  /\ typed' = k
  /\ IF hook \in Debounced THEN UNCHANGED <<key, data, loading, failed, requests, current, asks>>
     ELSE key' = k /\ Effect(k)
  /\ UNCHANGED hook
(* The last text stands; the hook has no effect if it is the one before. *)
useDebounce ==
  /\ hook \in Debounced /\ typed # key
  /\ asks < MaxAsks
  /\ key' = typed
  /\ Effect(typed)
  /\ UNCHANGED <<hook, typed>>
Refetch ==
  /\ habit.again # "never"
  /\ key # NoKey
  /\ asks < MaxAsks
  /\ Send(key)
  /\ UNCHANGED <<hook, typed, key>>

Others(n) == [m \in DOMAIN requests \ {n} |-> requests[m]]
(* The weather's interval asks again without cancelling what it asked.     *)
Counts(n) == current # 0 /\ n >= current
Answer(n) ==
  /\ requests' = Others(n)
  /\ IF Counts(n) THEN data' = requests[n] /\ loading' = FALSE ELSE UNCHANGED <<data, loading>>
  /\ UNCHANGED <<hook, typed, key, failed, current, asks>>
Fail(n) ==
  /\ requests' = Others(n)
  /\ IF Counts(n)
     THEN /\ loading' = FALSE
          /\ failed' = habit.tells
          /\ data' = IF habit.keeps THEN data ELSE NoKey
     ELSE UNCHANGED <<data, loading, failed>>
  /\ UNCHANGED <<hook, typed, key, current, asks>>

QueryNext ==
  \/ \E k \in Keys \cup {NoKey} : KeyChanges(k)
  \/ useDebounce \/ Refetch
  \/ \E n \in DOMAIN requests : Answer(n) \/ Fail(n)

(* A request that is sent is answered or fails; typing pauses. *)
QueryFairness ==
  /\ WF_queryVars(\E n \in DOMAIN requests : Answer(n) \/ Fail(n))
  /\ WF_queryVars(useDebounce)

QueryTypeOK ==
  /\ hook \in Hooks
  /\ {typed, key, data} \subseteq Keys \cup {NoKey}
  /\ loading \in BOOLEAN /\ failed \in BOOLEAN
  /\ asks \in 0..MaxAsks
  /\ current \in 0..asks

(* What is shown is the answer to the question that is asked, unless the   *)
(* hook is waiting for it, says that it failed, or is one of those that    *)
(* keep what they had without a word: the weather, and the fuel conditions *)
(* when the place is gone.                                                 *)
ShownAnswerIsAsked ==
  \/ data \in {key, NoKey}
  \/ loading \/ failed
  \/ hook = "weather"
  \/ hook = "fuel" /\ key = NoKey

(* A loading mark goes out, unless nothing is asked: a search text deleted *)
(* or a place withdrawn while the answer is awaited leaves it on.          *)
LoadingEnds == loading ~> (~loading \/ key = NoKey)

-----------------------------------------------------------------------------
(* useTerrainBias. *)

VARIABLES
  shownFires,   \* the fires on the map
  biasMap,      \* those with a bias
  biasCache, inflight,   \* by place
  batch         \* of each fire of the effect: its result, or that it waits
biasVars == <<shownFires, biasMap, biasCache, inflight, batch>>

BiasInit ==
  /\ shownFires = {}
  /\ biasMap = {}
  /\ biasCache = {}
  /\ inflight = {}
  /\ batch = <<>>

(* From the cache, from a request on its way, or by a request of its own.  *)
fetchTerrainBias(missing) ==
  inflight' = inflight \cup ({BiasPlace[f] : f \in missing} \ biasCache)
(* The effect keys off the ids of the fires; one before it is cancelled.   *)
ListOfFires(some) ==
  /\ some # shownFires
  /\ shownFires' = some
  /\ LET missing == some \ biasMap
     IN  /\ batch' = [f \in missing |-> IF BiasPlace[f] \in biasCache THEN "bias" ELSE "waits"]
         /\ fetchTerrainBias(missing)
  /\ UNCHANGED <<biasMap, biasCache>>
BiasAnswers(p, ok) ==
  /\ p \in inflight
  /\ inflight' = inflight \ {p}
  /\ biasCache' = IF ok THEN biasCache \cup {p} ELSE biasCache
  /\ batch' = [f \in DOMAIN batch |->
                 IF BiasPlace[f] = p /\ batch[f] = "waits" THEN (IF ok THEN "bias" ELSE "none") ELSE batch[f]]
  /\ UNCHANGED <<shownFires, biasMap>>
BatchEnds ==
  /\ batch # <<>>
  /\ \A f \in DOMAIN batch : batch[f] # "waits"
  /\ biasMap' = biasMap \cup {f \in DOMAIN batch : batch[f] = "bias"}
  /\ batch' = <<>>
  /\ UNCHANGED <<shownFires, biasCache, inflight>>
BiasNext ==
  \/ \E some \in SUBSET BiasFires : ListOfFires(some)
  \/ \E p \in {BiasPlace[f] : f \in BiasFires}, ok \in BOOLEAN : BiasAnswers(p, ok)
  \/ BatchEnds

(* Nobody waits for a bias that nobody fetches, and a bias that is set is  *)
(* in the cache (fetchTerrainBias shares the request on its way).          *)
NobodyWaitsForNothing ==
  /\ \A f \in DOMAIN batch : batch[f] = "waits" => BiasPlace[f] \in inflight
  /\ \A f \in biasMap : BiasPlace[f] \in biasCache
  /\ biasCache \cap inflight = {}

-----------------------------------------------------------------------------
(* useUpdateUserLocation and useGuestNotifications. *)

VARIABLES
  here,         \* where the user is
  lastSent, sending,             \* the signed-in user's place, and the reports in flight
  guestSent, checking,           \* the guest's place, and the checks in flight
  seenFires, toasts, sends
placeVars == <<here, lastSent, sending, guestSent, checking, seenFires, toasts, sends>>

PlaceInit ==
  /\ here \in Places
  /\ lastSent = NoPlace
  /\ sending = <<>>
  /\ guestSent = NoPlace
  /\ checking = <<>>
  /\ seenFires = {}
  /\ toasts = <<>>
  /\ sends = 0

UserMoves(p) ==
  /\ p # here
  /\ here' = p
  /\ UNCHANGED <<lastSent, sending, guestSent, checking, seenFires, toasts, sends>>
(* The place counts as sent when the server has answered, so that the same *)
(* place may be sent again meanwhile.                                      *)
SendPlace ==
  /\ here # lastSent
  /\ sends < MaxSends
  /\ sends' = sends + 1
  /\ sending' = Append(sending, here)
  /\ UNCHANGED <<here, lastSent, guestSent, checking, seenFires, toasts>>
PlaceAnswered(i, ok) ==
  /\ lastSent' = IF ok THEN sending[i] ELSE lastSent
  /\ sending' = RemoveAt(sending, i)
  /\ UNCHANGED <<here, guestSent, checking, seenFires, toasts, sends>>
(* The guest's counts when it is sent, so that a failed check is not made  *)
(* again before the guest has moved.                                       *)
CheckPlace ==
  /\ here # guestSent
  /\ sends < MaxSends
  /\ sends' = sends + 1
  /\ guestSent' = here
  /\ checking' = Append(checking, here)
  /\ UNCHANGED <<here, lastSent, sending, seenFires, toasts>>
(* Of the fires not seen before the first is shown; all count as seen.     *)
Unseen(found) == {i \in DOMAIN found : found[i] \notin seenFires}
First(found) == IF Unseen(found) = {} THEN <<>> ELSE <<found[Min(Unseen(found))]>>
CheckAnswered(i, ok) ==
  /\ checking' = RemoveAt(checking, i)
  /\ IF ok THEN /\ seenFires' = seenFires \cup ToSet(FiresAt[checking[i]])
                /\ toasts' = toasts \o First(FiresAt[checking[i]])
     ELSE UNCHANGED <<seenFires, toasts>>
  /\ UNCHANGED <<here, lastSent, sending, guestSent, sends>>
PlaceNext ==
  \/ \E p \in Places : UserMoves(p)
  \/ SendPlace \/ CheckPlace
  \/ \E i \in DOMAIN sending, ok \in BOOLEAN : PlaceAnswered(i, ok)
  \/ \E i \in DOMAIN checking, ok \in BOOLEAN : CheckAnswered(i, ok)

(* A guest is shown a fire at most once, however many checks are on their  *)
(* way; and a place that counts as sent was sent.                          *)
GuestToldOnce ==
  \A i, j \in DOMAIN toasts : toasts[i] = toasts[j] => i = j
=============================================================================
