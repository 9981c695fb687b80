--------------------------- MODULE SimulationJob ---------------------------
(***************************************************************************)
(* How a request for a simulation gets its answer                          *)
(* (app/backend/src/ai/simulation_api.py, ai/cache.py,                     *)
(* gpu_worker/worker.py).                                                  *)
(*                                                                         *)
(* A request is a group of tasks, one for each fire or cluster of fires.   *)
(* A task looks for a cached prediction, takes a permit of its request,    *)
(* looks again, offers the job to the volunteers (WorkerDispatch; here     *)
(* only its verdict), and, if they do not complete it, queues it for the   *)
(* cloud workers and polls for the result file until its own limit.  The   *)
(* queue delivers at least once; a message carries the time at which the   *)
(* backend stops waiting.  The result goes to S3 and then to a mounted     *)
(* directory that the backend reads first, and that is not written         *)
(* atomically.                                                             *)
(*                                                                         *)
(* Time is abstract: expired[j] says that 360 s have passed since job j    *)
(* was sent.  The waiter counts 360 sleeps of one second, and not the time *)
(* its reads take, so it never stops waiting before that.                  *)
(***************************************************************************)
EXTENDS Naturals, FiniteSets

CONSTANTS
  Requests, Tasks,
  RequestOf,        \* the request a task belongs to
  Fires,            \* the fires a task simulates: one, or a cluster
  Lines,            \* the containment lines drawn on a task's map
  LinesOf,          \* the containment lines a task is run with
  Near,             \* the lines within 0.15 degrees of their fire
  InGrid,           \* the lines that cross the simulated grid
  ProgressKeys, ProgressKey, \* where a request's progress is shown: "all", or the fire
  Permits,          \* MAX_CONCURR_USERS
  CloudWorkers,
  NoAnswer, NoJob

ASSUME TaskAssumption ==
  /\ RequestOf \in [Tasks -> Requests]
  /\ LinesOf \in [Tasks -> SUBSET Lines]
  /\ ProgressKey \in [Requests -> ProgressKeys]
  /\ DOMAIN Fires = Tasks
ASSUME FiniteAssumption == IsFiniteSet(Tasks)
ASSUME PermitsAssumption == Permits \in Nat \ {0}
ASSUME NoJobAssumption == NoJob \notin Tasks

VARIABLES
  task,      \* where each task is, and the prediction it has
  permits,   \* the free permits of each request's semaphore
  cache,     \* predictions in Valkey, by key
  message,   \* fire-system-gpu-inference: the message of each job
  expired,   \* the jobs sent more than 360 s ago
  worker,    \* the cloud workers
  store,     \* results/<job>.json in S3
  mirror,    \* the same file in the mounted directory
  progress   \* sim:progress:<key> in Valkey

vars == <<task, permits, cache, message, expired, worker, store, mirror, progress>>

-----------------------------------------------------------------------------
(* A prediction is what it was computed from: the fires, and those of the  *)
(* lines that cross the grid (the others leave the barrier mask alone).    *)

Payload(t) == [fires |-> Fires[t], lines |-> LinesOf[t]]
Predict(body) == [fires |-> body.fires, lines |-> body.lines \cap InGrid]
Answers == {Predict(Payload(t)) : t \in Tasks}

(* A line that is far from the fire is left out of the fire's key; the key *)
(* of a cluster leaves out the lines beyond the cluster's grid.            *)
\* (fault) The key does not depend on the lines.
FireKeyWithoutLines(t) == [fires |-> Fires[t], lines |-> {}]
FireKey(t) == [fires |-> Fires[t], lines |-> LinesOf[t] \cap Near]
ClusterKey(t) == [fires |-> Fires[t], lines |-> LinesOf[t] \cap InGrid]
CacheKey(t) == IF Cardinality(Fires[t]) = 1 THEN FireKey(t) ELSE ClusterKey(t)
CacheKeys == {CacheKey(t) : t \in Tasks}

(* The name of a job ends in a fresh uuid. *)
JobId(t) == t

Empty == [answer |-> NoAnswer, ttl |-> FALSE]
NoMessage == [at |-> "none", body |-> NoAnswer]
Free == [at |-> "idle", job |-> NoJob, body |-> NoAnswer]
Payloads == {Payload(t) : t \in Tasks}

(* The exceptions a task ends with: the job was not queued, HTTP 504, the  *)
(* result was malformed.                                                   *)
Failed == {"unsent", "timedout", "unreadable"}

TaskState ==
  [at : {"new", "queueing", "relooking", "volunteer", "sending", "waiting", "caching",
         "dating", "done"} \cup Failed,
   answer : Answers \cup {NoAnswer}]
CacheState == [answer : Answers \cup {NoAnswer}, ttl : BOOLEAN]
MessageState == [at : {"none", "visible", "inflight", "deleted"},
                 body : Payloads \cup {NoAnswer}]
WorkerState == [at : {"idle", "computing", "uploaded", "mirroring", "mirrored"},
                job : Tasks \cup {NoJob}, body : Payloads \cup {NoAnswer}]
FileState == [whole : BOOLEAN, answer : Answers \cup {NoAnswer}]

TypeOK ==
  /\ task \in [Tasks -> TaskState]
  /\ permits \in [Requests -> 0..Permits]
  /\ cache \in [CacheKeys -> CacheState]
  /\ message \in [Tasks -> MessageState]
  /\ expired \subseteq Tasks
  /\ worker \in [CloudWorkers -> WorkerState]
  /\ store \in [Tasks -> Answers \cup {NoAnswer}]
  /\ mirror \in [Tasks -> FileState]
  /\ progress \subseteq ProgressKeys

Init ==
  /\ task = [t \in Tasks |-> [at |-> "new", answer |-> NoAnswer]]
  /\ permits = [r \in Requests |-> Permits]
  /\ cache = [k \in CacheKeys |-> Empty]
  /\ message = [t \in Tasks |-> NoMessage]
  /\ expired = {}
  /\ worker = [w \in CloudWorkers |-> Free]
  /\ store = [t \in Tasks |-> NoAnswer]
  /\ mirror = [t \in Tasks |-> [whole |-> FALSE, answer |-> NoAnswer]]
  /\ progress = {}

-----------------------------------------------------------------------------
(* The task, in the backend. *)

Goto(t, where) == task' = [task EXCEPT ![t].at = where]
Ends(t, how, answer) == task' = [task EXCEPT ![t] = [at |-> how, answer |-> answer]]
\* (fault) The permit is given back by hand and by the semaphore.
ReleaseTwice(t) == permits' = [permits EXCEPT ![RequestOf[t]] = @ + 2]
Release(t) == permits' = [permits EXCEPT ![RequestOf[t]] = @ + 1]
Key(t) == ProgressKey[RequestOf[t]]

(* get_cached_prediction: before the semaphore ... *)
Lookup(t) ==
  /\ task[t].at = "new"
  /\ LET hit == cache[CacheKey(t)].answer
     IN IF hit # NoAnswer THEN Ends(t, "done", hit) ELSE Goto(t, "queueing")
  /\ UNCHANGED <<permits, cache, message, expired, worker, store, mirror, progress>>

TakePermit(t) ==
  /\ task[t].at = "queueing"
  /\ permits[RequestOf[t]] > 0
  /\ permits' = [permits EXCEPT ![RequestOf[t]] = @ - 1]
  /\ Goto(t, "relooking")
  /\ UNCHANGED <<cache, message, expired, worker, store, mirror, progress>>

(* ... and under it. *)
LookAgain(t) ==
  /\ task[t].at = "relooking"
  /\ LET hit == cache[CacheKey(t)].answer
     IN \/ /\ hit # NoAnswer
           /\ Ends(t, "done", hit)
           /\ Release(t)
           /\ UNCHANGED progress
        \/ /\ hit = NoAnswer              \* volunteers: set_sim_progress "queued"
           /\ Goto(t, "volunteer")
           /\ progress' = progress \cup {Key(t)}
           /\ UNCHANGED permits
        \/ /\ hit = NoAnswer              \* has_active_volunteer_workers() is false
           /\ Goto(t, "sending")
           /\ progress' = progress \cup {Key(t)}
           /\ UNCHANGED permits
  /\ UNCHANGED <<cache, message, expired, worker, store, mirror>>

(* dispatch_simulation_task returns {"status": "completed"} ... *)
VolunteerCompletes(t) ==
  /\ task[t].at = "volunteer"
  /\ Ends(t, "caching", Predict(Payload(t)))
  /\ progress' = progress \ {Key(t)}
  /\ UNCHANGED <<permits, cache, message, expired, worker, store, mirror>>

(* ... or cloud_fallback, or it raises. *)
FallBack(t) ==
  /\ task[t].at = "volunteer"
  /\ Goto(t, "sending")
  /\ progress' = progress \cup {Key(t)}
  /\ UNCHANGED <<permits, cache, message, expired, worker, store, mirror>>

Send(t) ==
  /\ task[t].at = "sending"
  /\ message' = [message EXCEPT ![JobId(t)] = [at |-> "visible", body |-> Payload(t)]]
  /\ Goto(t, "waiting")
  /\ UNCHANGED <<permits, cache, expired, worker, store, mirror, progress>>

SendFails(t) ==
  /\ task[t].at = "sending"
  /\ Goto(t, "unsent")
  /\ Release(t)
  /\ UNCHANGED <<cache, message, expired, worker, store, mirror, progress>>

(* The mounted file first; S3 when it is missing or cannot be parsed. *)
Result(j) == IF mirror[j].whole THEN mirror[j].answer ELSE store[j]

Found(t) ==
  /\ task[t].at = "waiting"
  /\ Result(JobId(t)) # NoAnswer
  /\ Ends(t, "caching", Result(JobId(t)))
  /\ progress' = progress \ {Key(t)}
  /\ UNCHANGED <<permits, cache, message, expired, worker, store, mirror>>

(* The 360th sleep is over: HTTP 504, even if a result came during it. *)
\* (fault) The progress is left.
TimeOutShows(t) ==
  /\ task[t].at = "waiting"
  /\ JobId(t) \in expired
  /\ Goto(t, "timedout")
  /\ Release(t)
  /\ UNCHANGED <<cache, message, expired, worker, store, mirror, progress>>
TimeOut(t) ==
  /\ task[t].at = "waiting"
  /\ JobId(t) \in expired
  /\ Goto(t, "timedout")
  /\ Release(t)
  /\ progress' = progress \ {Key(t)}
  /\ UNCHANGED <<cache, message, expired, worker, store, mirror>>

(* A result that decode_history cannot read, as a volunteer may send. *)
Unreadable(t) ==
  /\ task[t].at = "caching"
  /\ Ends(t, "unreadable", NoAnswer)
  /\ Release(t)
  /\ UNCHANGED <<cache, message, expired, worker, store, mirror, progress>>

(* cache_prediction: HSET, then EXPIRE. *)
CacheStore(t) ==
  /\ task[t].at = "caching"
  /\ cache' = [cache EXCEPT ![CacheKey(t)].answer = task[t].answer]
  /\ Goto(t, "dating")
  /\ UNCHANGED <<permits, message, expired, worker, store, mirror, progress>>

\* (fault) The permit is not given back.
CacheExpireInside(t) ==
  /\ task[t].at = "dating"
  /\ cache' = [cache EXCEPT ![CacheKey(t)].ttl = cache[CacheKey(t)].answer # NoAnswer]
  /\ Goto(t, "done")
  /\ UNCHANGED <<permits, message, expired, worker, store, mirror, progress>>
CacheExpire(t) ==
  /\ task[t].at = "dating"
  /\ cache' = [cache EXCEPT ![CacheKey(t)].ttl = cache[CacheKey(t)].answer # NoAnswer]
  /\ Goto(t, "done")
  /\ Release(t)
  /\ UNCHANGED <<message, expired, worker, store, mirror, progress>>

-----------------------------------------------------------------------------
(* The cloud worker. *)

Holding(w, j, where) == worker' = [worker EXCEPT ![w] = [@ EXCEPT !.at = where, !.job = j]]

\* (fault) Returns before the delete.
SkipUndeleted(w, j) ==
  /\ worker[w].at = "idle"
  /\ message[j].at = "visible"
  /\ j \in expired
  /\ message' = [message EXCEPT ![j].at = "inflight"]
  /\ UNCHANGED <<task, permits, cache, expired, worker, store, mirror, progress>>
Skip(w, j) ==
  /\ worker[w].at = "idle"
  /\ message[j].at = "visible"
  /\ j \in expired
  /\ message' = [message EXCEPT ![j].at = "deleted"]
  /\ UNCHANGED <<task, permits, cache, expired, worker, store, mirror, progress>>

\* (fault) The expiry is not looked at.
ReceiveAlways(w, j) ==
  /\ worker[w].at = "idle"
  /\ message[j].at = "visible"
  /\ message' = [message EXCEPT ![j].at = "inflight"]
  /\ worker' = [worker EXCEPT ![w] = [at |-> "computing", job |-> j, body |-> message[j].body]]
  /\ UNCHANGED <<task, permits, cache, expired, store, mirror, progress>>
Receive(w, j) ==
  /\ worker[w].at = "idle"
  /\ message[j].at = "visible"
  /\ j \notin expired
  /\ message' = [message EXCEPT ![j].at = "inflight"]
  /\ worker' = [worker EXCEPT ![w] = [at |-> "computing", job |-> j, body |-> message[j].body]]
  /\ UNCHANGED <<task, permits, cache, expired, store, mirror, progress>>

(* run_inference, then write_result_to_artifacts: S3 ... *)
Upload(w) ==
  /\ worker[w].at = "computing"
  /\ store' = [store EXCEPT ![worker[w].job] = Predict(worker[w].body)]
  /\ Holding(w, worker[w].job, "uploaded")
  /\ UNCHANGED <<task, permits, cache, message, expired, mirror, progress>>

(* ... and the mounted file, which is truncated and then written.  A       *)
(* failure is logged and the message is published all the same.            *)
OpenMirror(w) ==
  /\ worker[w].at = "uploaded"
  /\ mirror' = [mirror EXCEPT ![worker[w].job].whole = FALSE]
  /\ Holding(w, worker[w].job, "mirroring")
  /\ UNCHANGED <<task, permits, cache, message, expired, store, progress>>

WriteMirror(w) ==
  /\ worker[w].at = "mirroring"
  /\ mirror' = [mirror EXCEPT ![worker[w].job] =
                  [whole |-> TRUE, answer |-> Predict(worker[w].body)]]
  /\ Holding(w, worker[w].job, "mirrored")
  /\ UNCHANGED <<task, permits, cache, message, expired, store, progress>>

MirrorFails(w) ==
  /\ worker[w].at \in {"uploaded", "mirroring"}
  /\ Holding(w, worker[w].job, "mirrored")
  /\ UNCHANGED <<task, permits, cache, message, expired, store, mirror, progress>>

(* The pointer goes to the results queue (nobody reads it) and the job's   *)
(* message is deleted, even when it is visible again.                      *)
Finish(w) ==
  /\ worker[w].at = "mirrored"
  /\ message' = [message EXCEPT ![worker[w].job].at = "deleted"]
  /\ worker' = [worker EXCEPT ![w] = Free]
  /\ UNCHANGED <<task, permits, cache, expired, store, mirror, progress>>

(* A step raises, or the machine dies: the message is not deleted. *)
WorkerFails(w) ==
  /\ worker[w].at # "idle"
  /\ worker' = [worker EXCEPT ![w] = Free]
  /\ UNCHANGED <<task, permits, cache, message, expired, store, mirror, progress>>

-----------------------------------------------------------------------------
(* Time. *)

VisibilityEnds(j) ==
  /\ message[j].at = "inflight"
  /\ message' = [message EXCEPT ![j].at = "visible"]
  /\ UNCHANGED <<task, permits, cache, expired, worker, store, mirror, progress>>

JobExpires(j) ==
  /\ message[j].at # "none"
  /\ j \notin expired
  /\ expired' = expired \cup {j}
  /\ UNCHANGED <<task, permits, cache, message, worker, store, mirror, progress>>

CacheEnds(k) ==
  /\ cache[k].ttl
  /\ cache' = [cache EXCEPT ![k] = Empty]
  /\ UNCHANGED <<task, permits, message, expired, worker, store, mirror, progress>>

ProgressEnds(k) ==
  /\ k \in progress
  /\ progress' = progress \ {k}
  /\ UNCHANGED <<task, permits, cache, message, expired, worker, store, mirror>>

BackendStep(t) ==
  \/ Lookup(t) \/ TakePermit(t) \/ LookAgain(t) \/ VolunteerCompletes(t) \/ FallBack(t)
  \/ Send(t) \/ SendFails(t) \/ Found(t) \/ TimeOut(t)
  \/ Unreadable(t) \/ CacheStore(t) \/ CacheExpire(t)

WorkerStep(w) ==
  \/ \E j \in Tasks : Skip(w, j) \/ Receive(w, j)
  \/ Upload(w) \/ OpenMirror(w) \/ WriteMirror(w) \/ MirrorFails(w) \/ Finish(w)

Next ==
  \/ \E t \in Tasks : BackendStep(t)
  \/ \E w \in CloudWorkers : WorkerStep(w) \/ WorkerFails(w)
  \/ \E j \in Tasks : VisibilityEnds(j) \/ JobExpires(j)
  \/ \E k \in CacheKeys : CacheEnds(k)
  \/ \E k \in ProgressKeys : ProgressEnds(k)

Spec == Init /\ [][Next]_vars

(* The event loop runs its coroutines, the clock runs, and, for the queue, *)
(* some cloud worker runs.  Nothing says that a job ever succeeds.         *)
TimePasses ==
  /\ \A j \in Tasks : WF_vars(JobExpires(j)) /\ WF_vars(VisibilityEnds(j))
  /\ \A k \in CacheKeys : WF_vars(CacheEnds(k))
Fairness ==
  /\ \A t \in Tasks : WF_vars(BackendStep(t))
  /\ TimePasses
FairSpec == Spec /\ Fairness /\ WF_vars(\E w \in CloudWorkers : WorkerStep(w))

-----------------------------------------------------------------------------
(* Properties. *)

(* A task is never given a prediction of other fires, or one computed with *)
(* other lines across its grid, wherever it came from: the cache, a        *)
(* volunteer, the mounted file or S3.                                      *)
AnswersFit ==
  \A t \in Tasks : task[t].answer # NoAnswer => task[t].answer = Predict(Payload(t))

(* No permit is lost or made up: a request's free permits and its tasks    *)
(* under the semaphore add up, however the tasks end.                      *)
Inside == {"relooking", "volunteer", "sending", "waiting", "caching", "dating"}
PermitsAddUp ==
  \A r \in Requests :
    permits[r] + Cardinality({t \in Tasks : RequestOf[t] = r /\ task[t].at \in Inside}) = Permits

(* The expiry a message carries and the waiter's own limit fit together: a *)
(* cloud worker never starts a job whose caller has already been told 504. *)
NoWorkForNobody ==
  [][\A w \in CloudWorkers :
       worker[w].at = "idle" /\ worker'[w].at = "computing"
         => task[worker'[w].job].at # "timedout"]_vars

(* Progress is shown of running simulations only: the last task under a    *)
(* key takes the key with it.  A job that could not be queued is the       *)
(* exception: the finally that clears its progress covers the wait alone.  *)
ProgressIsOfARunningJob ==
  \A k \in progress : \E t \in Tasks :
    Key(t) = k /\ task[t].at \in {"volunteer", "sending", "waiting", "unsent"}

(* Every task ends, and with it the request that gathers it, even when no  *)
(* cloud worker ever finishes a job: a failed task gives its permit back.  *)
EveryTaskEnds == \A t \in Tasks : <>(task[t].at \in {"done"} \cup Failed)

(* Every message leaves the queue, even one whose job always fails. *)
QueueDrains == \A j \in Tasks : (message[j].at = "visible") ~> (message[j].at = "deleted")

(* No prediction is cached for ever. *)
CacheEntriesEnd == \A k \in CacheKeys : []<>(cache[k].answer = NoAnswer)

EverythingEnds == EveryTaskEnds /\ QueueDrains /\ CacheEntriesEnd

=============================================================================
