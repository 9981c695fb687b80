------------------------ MODULE SimulationJobProofs ------------------------
(* Proofs about SimulationJob, for every set of requests, tasks and cloud  *)
(* workers and every number of permits.                                    *)
EXTENDS SimulationJob, FiniteSetTheorems, TLAPS

(***************************************************************************)
(* The permits of a request.                                               *)
(***************************************************************************)

Holders(r) == {t \in Tasks : RequestOf[t] = r /\ task[t].at \in Inside}
TaskTypes == task \in [Tasks -> TaskState]

LEMMA HoldersAreFinite ==
  ASSUME NEW r
  PROVE  IsFiniteSet(Holders(r)) /\ Cardinality(Holders(r)) \in Nat
<1>1. Holders(r) \subseteq Tasks
  BY DEF Holders
<1>2. IsFiniteSet(Holders(r))
  BY <1>1, FiniteAssumption, FS_Subset
<1>3. QED
  BY <1>2, FS_CardinalityType

(* A task that stays under the semaphore, or outside it, with the permits. *)
LEMMA StayKeepsPermits ==
  ASSUME PermitsAddUp, TaskTypes, NEW t \in Tasks, NEW new \in TaskState,
         task' = [task EXCEPT ![t] = new],
         new.at \in Inside <=> task[t].at \in Inside,
         permits' = permits
  PROVE  PermitsAddUp'
<1>1. \A r \in Requests : Holders(r)' = Holders(r)
  BY DEF Holders, TaskTypes
<1>2. QED
  BY <1>1 DEF PermitsAddUp, Holders

(* A task that goes in takes one permit. *)
LEMMA EnterKeepsPermits ==
  ASSUME PermitsAddUp, TaskTypes, permits \in [Requests -> 0..Permits],
         NEW t \in Tasks, NEW new \in TaskState,
         task' = [task EXCEPT ![t] = new],
         new.at \in Inside, task[t].at \notin Inside,
         permits' = [permits EXCEPT ![RequestOf[t]] = @ - 1]
  PROVE  PermitsAddUp'
<1> DEFINE q == RequestOf[t]
<1>1. \A r \in Requests : r # q => Holders(r)' = Holders(r) /\ permits'[r] = permits[r]
  BY DEF Holders, TaskTypes
<1> q \in Requests
  BY TaskAssumption
<1>2. t \notin Holders(q) /\ Holders(q)' = Holders(q) \cup {t}
  BY DEF Holders, TaskTypes
<1>3. Cardinality(Holders(q)') = Cardinality(Holders(q)) + 1
  BY <1>2, HoldersAreFinite, FS_AddElement
<1>4. q \in Requests /\ permits'[q] = permits[q] - 1 /\ permits[q] \in Int
  BY TaskAssumption
<1>5. Cardinality(Holders(q)) \in Nat
  BY HoldersAreFinite
<1>6. permits[q] + Cardinality(Holders(q)) = Permits
  BY <1>4 DEF PermitsAddUp, Holders
<1>7. permits'[q] + Cardinality(Holders(q)') = Permits
  BY <1>3, <1>4, <1>5, <1>6
<1>8. ASSUME NEW r \in Requests
      PROVE  permits'[r] + Cardinality(Holders(r)') = Permits
  <2>1. permits[r] + Cardinality(Holders(r)) = Permits
    BY DEF PermitsAddUp, Holders
  <2>2. CASE r # q
    BY <1>1, <2>1, <2>2
  <2>3. CASE r = q
    BY <1>7, <2>3
  <2>4. QED
    BY <2>2, <2>3
<1>9. QED
  BY <1>8 DEF PermitsAddUp, Holders

(* A task that goes out gives one back. *)
LEMMA LeaveKeepsPermits ==
  ASSUME PermitsAddUp, TaskTypes, permits \in [Requests -> 0..Permits],
         NEW t \in Tasks, NEW new \in TaskState,
         task' = [task EXCEPT ![t] = new],
         new.at \notin Inside, task[t].at \in Inside,
         Release(t)
  PROVE  PermitsAddUp' /\ permits' \in [Requests -> 0..Permits]
<1> DEFINE q == RequestOf[t]
<1>1. \A r \in Requests : r # q => Holders(r)' = Holders(r) /\ permits'[r] = permits[r]
  BY DEF Holders, TaskTypes, Release
<1>2. t \in Holders(q) /\ Holders(q)' = Holders(q) \ {t}
  BY DEF Holders, TaskTypes
<1>3. Cardinality(Holders(q)') = Cardinality(Holders(q)) - 1 /\ Cardinality(Holders(q)') \in Nat
  <2>1. IsFiniteSet(Holders(q)) /\ Cardinality(Holders(q)) \in Nat
    BY HoldersAreFinite
  <2>2. /\ IsFiniteSet(Holders(q) \ {t})
        /\ Cardinality(Holders(q) \ {t}) = Cardinality(Holders(q)) - 1
    BY <1>2, <2>1, FS_RemoveElement
  <2>3. QED
    BY <1>2, <2>2, FS_CardinalityType
<1>4. q \in Requests /\ permits'[q] = permits[q] + 1 /\ permits[q] \in 0..Permits
  BY TaskAssumption DEF Release
<1>5. Cardinality(Holders(q)) \in Nat
  BY HoldersAreFinite
<1>6. permits[q] + Cardinality(Holders(q)) = Permits
  BY <1>4 DEF PermitsAddUp, Holders
<1>7. permits'[q] + Cardinality(Holders(q)') = Permits /\ permits'[q] \in 0..Permits
  BY <1>3, <1>4, <1>5, <1>6, PermitsAssumption
<1>8. ASSUME NEW r \in Requests
      PROVE  permits'[r] + Cardinality(Holders(r)') = Permits
  <2>1. permits[r] + Cardinality(Holders(r)) = Permits
    BY DEF PermitsAddUp, Holders
  <2>2. CASE r # q
    BY <1>1, <2>1, <2>2
  <2>3. CASE r = q
    BY <1>7, <2>3
  <2>4. QED
    BY <2>2, <2>3
<1>9. PermitsAddUp'
  BY <1>8 DEF PermitsAddUp, Holders
<1>10. permits' \in [Requests -> 0..Permits]
  BY <1>4, <1>7 DEF Release
<1>11. QED
  BY <1>9, <1>10

-----------------------------------------------------------------------------
(***************************************************************************)
(* What predictions are predictions of.                                    *)
(***************************************************************************)

Fit(t) == Predict(Payload(t))
Fits(answer, t) == answer \in {NoAnswer, Fit(t)}

(* Tasks with one key have one prediction. *)
KeysSeparate ==
  \A t, u \in Tasks : CacheKey(t) = CacheKey(u) => Fit(t) = Fit(u)

(* What travels to the cloud workers is what was sent. *)
Carried ==
  /\ \A j \in Tasks : message[j].at # "none" => message[j].body = Payload(j)
  /\ \A w \in CloudWorkers : worker[w].at # "idle" =>
       /\ worker[w].job \in Tasks /\ worker[w].body = Payload(worker[w].job)
       /\ message[worker[w].job].at # "none"

Genuine ==
  /\ \A t \in Tasks : Fits(task[t].answer, t)
  /\ \A t \in Tasks : Fits(cache[CacheKey(t)].answer, t)
  /\ \A j \in Tasks : Fits(store[j], j) /\ Fits(mirror[j].answer, j)

(* Where no line crosses the grid of a fire that its key leaves out, the   *)
(* keys separate the predictions: a cluster's key holds what is in its     *)
(* grid, a fire's key what is near.                                        *)
LEMMA NearGridSeparates == InGrid \subseteq Near => KeysSeparate
<1> SUFFICES ASSUME InGrid \subseteq Near, NEW t \in Tasks, NEW u \in Tasks,
                    CacheKey(t) = CacheKey(u)
             PROVE  Fit(t) = Fit(u)
  BY DEF KeysSeparate
<1>1. CASE Cardinality(Fires[t]) = 1 /\ Cardinality(Fires[u]) = 1
  <2>1. Fires[t] = Fires[u] /\ LinesOf[t] \cap Near = LinesOf[u] \cap Near
    BY <1>1 DEF CacheKey, FireKey
  <2>2. LinesOf[t] \cap InGrid = LinesOf[u] \cap InGrid
    BY <2>1
  <2>3. QED
    BY <2>1, <2>2 DEF Fit, Predict, Payload
<1>2. CASE Cardinality(Fires[t]) # 1 /\ Cardinality(Fires[u]) # 1
  BY <1>2 DEF CacheKey, ClusterKey, Fit, Predict, Payload
<1>3. Fires[t] = Fires[u]
  BY DEF CacheKey, FireKey, ClusterKey
<1>4. QED
  BY <1>1, <1>2, <1>3

LEMMA GenuineInit == Init => Genuine
BY DEF Init, Genuine, Fits, Empty, NoMessage, Free, CacheKeys

-----------------------------------------------------------------------------
(***************************************************************************)
(* Types, permits, messages, and who has been given up, in one invariant.  *)
(***************************************************************************)

GivenUpIsExpired == \A t \in Tasks : task[t].at = "timedout" => t \in expired

Base == TypeOK /\ PermitsAddUp /\ Carried /\ GivenUpIsExpired

LEMMA BaseInit == Init => Base
<1> SUFFICES ASSUME Init PROVE Base
  OBVIOUS
<1>1. /\ [at |-> "new", answer |-> NoAnswer] \in TaskState /\ Empty \in CacheState
      /\ NoMessage \in MessageState /\ Free \in WorkerState
      /\ [whole |-> FALSE, answer |-> NoAnswer] \in FileState
  BY DEF TaskState, Empty, CacheState, NoMessage, MessageState, Free, WorkerState, FileState
<1>2. TypeOK
  BY <1>1, PermitsAssumption DEF Init, TypeOK
<1>3. ASSUME NEW r \in Requests PROVE permits[r] + Cardinality(Holders(r)) = Permits
  <2>1. Holders(r) = {}
    BY DEF Init, Holders, Inside
  <2>2. QED
    BY <2>1, FS_EmptySet, PermitsAssumption DEF Init
<1>4. PermitsAddUp
  BY <1>3 DEF PermitsAddUp, Holders
<1>5. Carried /\ GivenUpIsExpired
  BY DEF Init, Carried, GivenUpIsExpired, NoMessage, Free
<1>6. QED
  BY <1>2, <1>4, <1>5 DEF Base

(* Where a task goes with the answer it has, and with another one. *)
Onward ==
  {"queueing", "relooking", "volunteer", "sending", "waiting", "dating", "done"} \cup Failed
Endings == {"done", "caching"} \cup Failed

LEMMA GotoState ==
  ASSUME TypeOK, NEW t \in Tasks, NEW where \in Onward,
         Goto(t, where)
  PROVE  \E new \in TaskState : task' = [task EXCEPT ![t] = new] /\ new.at = where
                                 /\ new.answer = task[t].answer
<1> DEFINE new == [task[t] EXCEPT !.at = where]
<1>1. task[t] \in TaskState
  BY DEF TypeOK
<1>2. new \in TaskState /\ new.at = where /\ new.answer = task[t].answer
  BY <1>1 DEF TaskState, Onward
<1>3. task' = [task EXCEPT ![t] = new]
  BY DEF Goto, TypeOK
<1>4. QED
  BY <1>2, <1>3

LEMMA EndsState ==
  ASSUME TypeOK, NEW t \in Tasks, NEW how, NEW answer \in Answers \cup {NoAnswer},
         how \in Endings,
         Ends(t, how, answer)
  PROVE  \E new \in TaskState : task' = [task EXCEPT ![t] = new] /\ new.at = how
                                 /\ new.answer = answer
<1> DEFINE new == [at |-> how, answer |-> answer]
<1>1. new \in TaskState /\ new.at = how /\ new.answer = answer
  BY DEF TaskState, Endings
<1>2. QED
  BY <1>1 DEF Ends

LEMMA Names ==
  /\ "queueing" \in Onward /\ "relooking" \in Onward /\ "volunteer" \in Onward
  /\ "sending" \in Onward /\ "waiting" \in Onward /\ "dating" \in Onward /\ "done" \in Onward
  /\ "unsent" \in Onward /\ "timedout" \in Onward
  /\ "done" \in Endings /\ "caching" \in Endings /\ "unreadable" \in Endings
BY DEF Onward, Endings, Failed

LEMMA OneLess ==
  ASSUME NEW n \in 0..Permits, n > 0 PROVE n - 1 \in 0..Permits
BY PermitsAssumption

(* What the steps of a task have in common. *)
LEMMA TaskStep ==
  ASSUME Base, NEW t \in Tasks, NEW new \in TaskState, task' = [task EXCEPT ![t] = new],
         \/ new.at \in Inside /\ task[t].at \in Inside /\ permits' = permits
         \/ new.at \notin Inside /\ task[t].at \notin Inside /\ permits' = permits
         \/ /\ new.at \in Inside /\ task[t].at \notin Inside
            /\ permits[RequestOf[t]] > 0
            /\ permits' = [permits EXCEPT ![RequestOf[t]] = @ - 1]
         \/ new.at \notin Inside /\ task[t].at \in Inside /\ Release(t),
         cache' \in [CacheKeys -> CacheState],
         progress' \subseteq ProgressKeys,
         new.at = "timedout" => t \in expired,
         UNCHANGED <<message, expired, worker, store, mirror>>
  PROVE  Base'
<1>1. TaskTypes /\ permits \in [Requests -> 0..Permits]
  BY DEF Base, TypeOK, TaskTypes
<1>2. PermitsAddUp' /\ permits' \in [Requests -> 0..Permits]
  <2>1. ASSUME permits' = permits, new.at \in Inside <=> task[t].at \in Inside
        PROVE  PermitsAddUp' /\ permits' \in [Requests -> 0..Permits]
    BY <1>1, <2>1, StayKeepsPermits DEF Base
  <2>2. CASE /\ new.at \in Inside /\ task[t].at \notin Inside
             /\ permits[RequestOf[t]] > 0
             /\ permits' = [permits EXCEPT ![RequestOf[t]] = @ - 1]
    <3>1. PermitsAddUp'
      BY <1>1, <2>2, EnterKeepsPermits DEF Base
    <3>2. permits' \in [Requests -> 0..Permits]
      <4>1. RequestOf[t] \in Requests /\ permits[RequestOf[t]] \in 0..Permits
        BY <1>1, TaskAssumption
      <4>2. permits[RequestOf[t]] - 1 \in 0..Permits
        <5>1. permits[RequestOf[t]] > 0
          BY <2>2
        <5>2. QED
          BY <4>1, <5>1, OneLess
      <4>3. QED
        BY <1>1, <2>2, <4>1, <4>2
    <3>3. QED
      BY <3>1, <3>2
  <2>3. CASE new.at \notin Inside /\ task[t].at \in Inside /\ Release(t)
    BY <1>1, <2>3, LeaveKeepsPermits DEF Base
  <2>4. QED
    BY <2>1, <2>2, <2>3
<1>3. TypeOK'
  BY <1>2 DEF Base, TypeOK
<1>4. Carried' /\ GivenUpIsExpired'
  BY DEF Base, Carried, GivenUpIsExpired, TypeOK
<1>5. QED
  BY <1>2, <1>3, <1>4 DEF Base

LEMMA AnswersAreTyped ==
  /\ \A t \in Tasks : Fit(t) \in Answers /\ Payload(t) \in Payloads
  /\ TypeOK => \A t \in Tasks : /\ cache[CacheKey(t)].answer \in Answers \cup {NoAnswer}
                                /\ Result(t) \in Answers \cup {NoAnswer}
  /\ \A t \in Tasks : Key(t) \in ProgressKeys /\ CacheKey(t) \in CacheKeys
<1>1. \A t \in Tasks : Fit(t) \in Answers /\ Payload(t) \in Payloads
  BY DEF Fit, Answers, Payloads
<1>2. \A t \in Tasks : Key(t) \in ProgressKeys /\ CacheKey(t) \in CacheKeys
  BY TaskAssumption DEF Key, CacheKeys
<1>3. ASSUME TypeOK, NEW t \in Tasks
      PROVE  /\ cache[CacheKey(t)].answer \in Answers \cup {NoAnswer}
             /\ Result(t) \in Answers \cup {NoAnswer}
  BY <1>2, <1>3 DEF TypeOK, Result, CacheState, FileState
<1>4. QED
  BY <1>1, <1>2, <1>3

LEMMA BackendKeepsBase ==
  ASSUME Base, NEW t \in Tasks, BackendStep(t) PROVE Base'
<1> TypeOK
  BY DEF Base
<1>0. task[t] \in TaskState /\ cache \in [CacheKeys -> CacheState] /\ progress \subseteq ProgressKeys
      /\ Key(t) \in ProgressKeys
  BY AnswersAreTyped DEF TypeOK
<1>1. CASE Lookup(t)
  <2>1. \E new \in TaskState : task' = [task EXCEPT ![t] = new] /\ new.at \in {"done", "queueing"}
    BY <1>1, AnswersAreTyped, Names, EndsState, GotoState DEF Lookup
  <2>2. PICK new \in TaskState : task' = [task EXCEPT ![t] = new] /\ new.at \in {"done", "queueing"}
    BY <2>1
  <2>3. QED
    BY <1>0, <1>1, <2>2, TaskStep DEF Lookup, Inside
<1>2. CASE TakePermit(t)
  <2>1. PICK new \in TaskState : task' = [task EXCEPT ![t] = new] /\ new.at = "relooking"
    BY <1>2, Names, GotoState DEF TakePermit
  <2>2. QED
    BY <1>0, <1>2, <2>1, TaskStep DEF TakePermit, Inside
<1>3. CASE LookAgain(t)
  <2>1. CASE Release(t) /\ Ends(t, "done", cache[CacheKey(t)].answer) /\ UNCHANGED progress
    <3>1. PICK new \in TaskState : task' = [task EXCEPT ![t] = new] /\ new.at = "done"
      BY <2>1, AnswersAreTyped, Names, EndsState
    <3>2. QED
      BY <1>0, <1>3, <2>1, <3>1, TaskStep DEF LookAgain, Inside
  <2>2. ASSUME NEW where \in {"volunteer", "sending"}, Goto(t, where),
               progress' = progress \cup {Key(t)}, permits' = permits
        PROVE  Base'
    <3>1. PICK new \in TaskState : task' = [task EXCEPT ![t] = new] /\ new.at = where
      BY <2>2, Names, GotoState
    <3>2. QED
      BY <1>0, <1>3, <2>2, <3>1, TaskStep DEF LookAgain, Inside
  <2>3. QED
    BY <1>3, <2>1, <2>2 DEF LookAgain
<1>4. CASE VolunteerCompletes(t)
  <2>1. PICK new \in TaskState : task' = [task EXCEPT ![t] = new] /\ new.at = "caching"
    BY <1>4, AnswersAreTyped, Names, EndsState DEF VolunteerCompletes, Fit
  <2>2. QED
    BY <1>0, <1>4, <2>1, TaskStep DEF VolunteerCompletes, Inside
<1>5. CASE FallBack(t)
  <2>1. PICK new \in TaskState : task' = [task EXCEPT ![t] = new] /\ new.at = "sending"
    BY <1>5, Names, GotoState DEF FallBack
  <2>2. QED
    BY <1>0, <1>5, <2>1, TaskStep DEF FallBack, Inside
<1>6. CASE Send(t)
  <2>1. PICK new \in TaskState : task' = [task EXCEPT ![t] = new] /\ new.at = "waiting"
    BY <1>6, Names, GotoState DEF Send
  <2>2. PermitsAddUp'
    BY <1>6, <2>1, StayKeepsPermits DEF Send, Inside, Base, TypeOK, TaskTypes
  <2>3. [at |-> "visible", body |-> Payload(t)] \in MessageState
    BY AnswersAreTyped DEF MessageState
  <2>4. message' = [message EXCEPT ![t] = [at |-> "visible", body |-> Payload(t)]]
    BY <1>6 DEF Send, JobId
  <2>5. TypeOK'
    BY <1>6, <2>1, <2>3, <2>4 DEF Send, TypeOK
  <2>6. Carried'
    <3>1. ASSUME NEW j \in Tasks, message'[j].at # "none" PROVE message'[j].body = Payload(j)
      BY <2>4, <3>1 DEF Base, TypeOK, Carried
    <3>2. /\ worker' = worker
          /\ \A j \in Tasks : message[j].at # "none" => message'[j].at # "none"
      BY <1>6, <2>4 DEF Send, Base, TypeOK
    <3>3. QED
      BY <3>1, <3>2 DEF Base, Carried, Payload
  <2>7. GivenUpIsExpired'
    BY <1>6, <2>1 DEF Send, Base, TypeOK, GivenUpIsExpired
  <2>8. QED
    BY <2>2, <2>5, <2>6, <2>7 DEF Base
<1>7. CASE SendFails(t)
  <2>0. Goto(t, "unsent")
    BY <1>7 DEF SendFails
  <2>1. PICK new \in TaskState : task' = [task EXCEPT ![t] = new] /\ new.at = "unsent"
    BY <2>0, Names, GotoState
  <2>2. QED
    BY <1>0, <1>7, <2>1, TaskStep DEF SendFails, Inside
<1>8. CASE Found(t)
  <2>1. PICK new \in TaskState : task' = [task EXCEPT ![t] = new] /\ new.at = "caching"
    BY <1>8, AnswersAreTyped, Names, EndsState DEF Found, JobId
  <2>2. QED
    BY <1>0, <1>8, <2>1, TaskStep DEF Found, Inside
<1>9. CASE TimeOut(t)
  <2>0. Goto(t, "timedout")
    BY <1>9 DEF TimeOut
  <2>1. PICK new \in TaskState : task' = [task EXCEPT ![t] = new] /\ new.at = "timedout"
    BY <2>0, Names, GotoState
  <2> t \in expired
    BY <1>9 DEF TimeOut, JobId
  <2>2. /\ task[t].at = "waiting" /\ Release(t)
        /\ progress' = progress \ {Key(t)}
        /\ UNCHANGED <<cache, message, expired, worker, store, mirror>>
    BY <1>9 DEF TimeOut
  <2>3. new.at \notin Inside /\ task[t].at \in Inside
    BY <2>1, <2>2 DEF Inside
  <2>4. cache' \in [CacheKeys -> CacheState] /\ progress' \subseteq ProgressKeys
    BY <1>0, <2>2
  <2>5. QED
    BY <2>1, <2>2, <2>3, <2>4, TaskStep
<1>10. CASE Unreadable(t)
  <2>0. Ends(t, "unreadable", NoAnswer)
    BY <1>10 DEF Unreadable
  <2>1. PICK new \in TaskState : task' = [task EXCEPT ![t] = new] /\ new.at = "unreadable"
    BY <2>0, Names, EndsState
  <2>2. QED
    BY <1>0, <1>10, <2>1, TaskStep DEF Unreadable, Inside
<1>11. CASE CacheStore(t)
  <2>1. PICK new \in TaskState : task' = [task EXCEPT ![t] = new] /\ new.at = "dating"
    BY <1>11, Names, GotoState DEF CacheStore
  <2>2. cache' \in [CacheKeys -> CacheState]
    BY <1>0, <1>11, AnswersAreTyped DEF CacheStore, CacheState, TaskState
  <2>3. QED
    BY <1>0, <1>11, <2>1, <2>2, TaskStep DEF CacheStore, Inside
<1>12. CASE CacheExpire(t)
  <2>1. PICK new \in TaskState : task' = [task EXCEPT ![t] = new] /\ new.at = "done"
    BY <1>12, Names, GotoState DEF CacheExpire
  <2>2. cache' \in [CacheKeys -> CacheState]
    BY <1>0, <1>12, AnswersAreTyped DEF CacheExpire, CacheState
  <2>3. QED
    BY <1>0, <1>12, <2>1, <2>2, TaskStep DEF CacheExpire, Inside
<1>13. QED
  BY <1>1, <1>2, <1>3, <1>4, <1>5, <1>6, <1>7, <1>8, <1>9, <1>10, <1>11, <1>12 DEF BackendStep

(* The steps of the cloud workers and of time move no task and no permit.  *)
LEMMA OthersKeepBase ==
  ASSUME Base, UNCHANGED <<task, permits>>, TypeOK', Carried', expired \subseteq expired'
  PROVE  Base'
<1>1. PermitsAddUp'
  BY DEF Base, PermitsAddUp
<1>2. GivenUpIsExpired'
  BY DEF Base, GivenUpIsExpired
<1>3. QED
  BY <1>1, <1>2 DEF Base

LEMMA WorkerKeepsBase ==
  ASSUME Base, NEW w \in CloudWorkers, WorkerStep(w) \/ WorkerFails(w) PROVE Base'
<1> TypeOK /\ Carried
  BY DEF Base
<1>0. /\ worker[w] \in WorkerState
      /\ worker[w].at # "idle" =>
           /\ worker[w].job \in Tasks /\ worker[w].body = Payload(worker[w].job)
           /\ message[worker[w].job].at # "none"
      /\ \A j \in Tasks : Predict(Payload(j)) \in Answers
      /\ Free \in WorkerState /\ Free.at = "idle"
  BY AnswersAreTyped DEF TypeOK, Carried, Fit, Free, WorkerState
<1>1. ASSUME NEW j \in Tasks, Skip(w, j) PROVE Base'
  <2>1. TypeOK'
    BY <1>1 DEF Skip, TypeOK, MessageState
  <2>2. Carried'
    BY <1>1 DEF Skip, TypeOK, MessageState, Carried, Payload
  <2>3. QED
    BY <1>1, <2>1, <2>2, OthersKeepBase DEF Skip
<1>2. ASSUME NEW j \in Tasks, Receive(w, j) PROVE Base'
  <2> DEFINE new == [at |-> "computing", job |-> j, body |-> message[j].body]
  <2>1. new \in WorkerState /\ worker' = [worker EXCEPT ![w] = new]
    BY <1>2 DEF Receive, TypeOK, MessageState, WorkerState
  <2>2. message[j].body = Payload(j)
    BY <1>2 DEF Receive, Carried
  <2> HIDE DEF new
  <2>3. TypeOK'
    <3>1. message' \in [Tasks -> MessageState]
      BY <1>2 DEF Receive, TypeOK, MessageState
    <3>2. worker' \in [CloudWorkers -> WorkerState]
      BY <2>1 DEF TypeOK
    <3>3. QED
      BY <1>2, <3>1, <3>2 DEF Receive, TypeOK
  <2> USE DEF new
  <2>4. Carried'
    <3>1. ASSUME NEW i \in Tasks, message'[i].at # "none"
          PROVE  message'[i].body = Payload(i) /\ message[i].at # "none"
      BY <1>2, <3>1 DEF Receive, TypeOK, MessageState, Carried
    <3>2. \A i \in Tasks : message[i].at # "none" => message'[i].at # "none"
      BY <1>2 DEF Receive, TypeOK, MessageState
    <3>3. ASSUME NEW v \in CloudWorkers, worker'[v].at # "idle"
          PROVE  /\ worker'[v].job \in Tasks /\ worker'[v].body = Payload(worker'[v].job)
                 /\ message'[worker'[v].job].at # "none"
      <4>1. CASE v = w
        <5>1. worker'[v].job = j /\ worker'[v].body = message[j].body
          BY <2>1, <4>1 DEF TypeOK
        <5>2. message[j].at # "none"
          BY <1>2 DEF Receive
        <5>3. QED
          BY <2>2, <3>2, <5>1, <5>2
      <4>2. CASE v # w
        <5>1. worker'[v] = worker[v]
          BY <2>1, <4>2 DEF TypeOK
        <5>2. QED
          BY <3>2, <3>3, <5>1 DEF Carried
      <4>3. QED
        BY <4>1, <4>2
    <3>4. QED
      BY <3>1, <3>3 DEF Carried, Payload
  <2>5. QED
    BY <1>2, <2>3, <2>4, OthersKeepBase DEF Receive
<1>3. CASE Upload(w)
  <2>1. TypeOK'
    BY <1>0, <1>3 DEF Upload, Holding, TypeOK, WorkerState
  <2>2. Carried'
    BY <1>0, <1>3 DEF Upload, Holding, TypeOK, WorkerState, Carried, Payload
  <2>3. QED
    BY <1>3, <2>1, <2>2, OthersKeepBase DEF Upload
<1>4. CASE OpenMirror(w)
  <2>1. TypeOK'
    BY <1>0, <1>4 DEF OpenMirror, Holding, TypeOK, WorkerState, FileState
  <2>2. Carried'
    BY <1>0, <1>4 DEF OpenMirror, Holding, TypeOK, WorkerState, Carried, Payload
  <2>3. QED
    BY <1>4, <2>1, <2>2, OthersKeepBase DEF OpenMirror
<1>5. CASE WriteMirror(w)
  <2>1. TypeOK'
    BY <1>0, <1>5 DEF WriteMirror, Holding, TypeOK, WorkerState, FileState
  <2>2. Carried'
    BY <1>0, <1>5 DEF WriteMirror, Holding, TypeOK, WorkerState, Carried, Payload
  <2>3. QED
    BY <1>5, <2>1, <2>2, OthersKeepBase DEF WriteMirror
<1>6. CASE MirrorFails(w)
  <2>1. TypeOK'
    BY <1>0, <1>6 DEF MirrorFails, Holding, TypeOK, WorkerState
  <2>2. Carried'
    BY <1>0, <1>6 DEF MirrorFails, Holding, TypeOK, WorkerState, Carried, Payload
  <2>3. QED
    BY <1>6, <2>1, <2>2, OthersKeepBase DEF MirrorFails
<1>7. CASE Finish(w)
  <2>1. TypeOK'
    BY <1>0, <1>7 DEF Finish, TypeOK, MessageState
  <2>2. Carried'
    <3>1. /\ worker[w].at # "idle"
          /\ message' = [message EXCEPT ![worker[w].job].at = "deleted"]
          /\ worker' = [worker EXCEPT ![w] = Free]
      BY <1>7 DEF Finish
    <3>2. \A i \in Tasks : /\ message[i].at # "none" <=> message'[i].at # "none"
                           /\ message'[i].body = message[i].body
      BY <1>0, <3>1 DEF TypeOK, MessageState
    <3>3. \A v \in CloudWorkers : worker'[v].at # "idle" => worker'[v] = worker[v]
      BY <1>0, <3>1 DEF TypeOK
    <3>4. QED
      BY <3>2, <3>3 DEF Carried, Payload
  <2>3. QED
    BY <1>7, <2>1, <2>2, OthersKeepBase DEF Finish
<1>8. CASE WorkerFails(w)
  <2>1. TypeOK'
    BY <1>0, <1>8 DEF WorkerFails, TypeOK
  <2>2. Carried'
    BY <1>0, <1>8 DEF WorkerFails, TypeOK, Carried, Payload
  <2>3. QED
    BY <1>8, <2>1, <2>2, OthersKeepBase DEF WorkerFails
<1>9. QED
  BY <1>1, <1>2, <1>3, <1>4, <1>5, <1>6, <1>7, <1>8 DEF WorkerStep

LEMMA BaseStep == Base /\ [Next]_vars => Base'
<1> SUFFICES ASSUME Base, [Next]_vars PROVE Base'
  OBVIOUS
<1> TypeOK /\ Carried
  BY DEF Base
<1>1. ASSUME NEW t \in Tasks, BackendStep(t) PROVE Base'
  BY <1>1, BackendKeepsBase
<1>2. ASSUME NEW w \in CloudWorkers, WorkerStep(w) \/ WorkerFails(w) PROVE Base'
  BY <1>2, WorkerKeepsBase
<1>3. ASSUME NEW j \in Tasks, VisibilityEnds(j) PROVE Base'
  <2>1. TypeOK'
    BY <1>3 DEF VisibilityEnds, TypeOK, MessageState
  <2>2. Carried'
    BY <1>3 DEF VisibilityEnds, TypeOK, MessageState, Carried, Payload
  <2>3. QED
    BY <1>3, <2>1, <2>2, OthersKeepBase DEF VisibilityEnds
<1>4. ASSUME NEW j \in Tasks, JobExpires(j) PROVE Base'
  <2>1. TypeOK' /\ Carried'
    BY <1>4 DEF JobExpires, TypeOK, Carried, Payload
  <2>2. QED
    BY <1>4, <2>1, OthersKeepBase DEF JobExpires
<1>5. ASSUME NEW k \in CacheKeys, CacheEnds(k) PROVE Base'
  <2>1. Empty \in CacheState
    BY DEF Empty, CacheState
  <2>2. TypeOK' /\ Carried'
    BY <1>5, <2>1 DEF CacheEnds, TypeOK, Carried, Payload
  <2>3. QED
    BY <1>5, <2>2, OthersKeepBase DEF CacheEnds
<1>6. ASSUME NEW k \in ProgressKeys, ProgressEnds(k) PROVE Base'
  <2>1. TypeOK' /\ Carried'
    BY <1>6 DEF ProgressEnds, TypeOK, Carried, Payload
  <2>2. QED
    BY <1>6, <2>1, OthersKeepBase DEF ProgressEnds
<1>7. CASE UNCHANGED vars
  <2>1. TypeOK' /\ Carried'
    BY <1>7 DEF vars, TypeOK, Carried, Payload
  <2>2. QED
    BY <1>7, <2>1, OthersKeepBase DEF vars
<1>8. QED
  BY <1>1, <1>2, <1>3, <1>4, <1>5, <1>6, <1>7 DEF Next

LEMMA BaseHolds == Spec => []Base
BY BaseInit, BaseStep, PTL DEF Spec

(* simulation_api.py, cache.py, worker.py: whatever the interleaving, the   *)
(* variables keep their types.                                             *)
THEOREM TypesAreKept == Spec => []TypeOK
<1>1. Base => TypeOK
  BY DEF Base
<1>2. QED
  BY <1>1, BaseHolds, PTL

(* simulation_api.py:346, the semaphore: for any number of requests, tasks *)
(* and permits, every way out of a task (a hit, an error, a time limit)    *)
(* gives the permit back, once.                                            *)
THEOREM PermitsAlwaysAddUp == Spec => []PermitsAddUp
<1>1. Base => PermitsAddUp
  BY DEF Base
<1>2. QED
  BY <1>1, BaseHolds, PTL

(* worker.py:233 and simulation_api.py:196: no cloud worker starts a job   *)
(* whose waiter has given up, since who has given up has seen the job      *)
(* expire.                                                                 *)
THEOREM NobodyIsServedTooLate == Spec => NoWorkForNobody
<1>1. Base /\ [Next]_vars =>
        [\A w \in CloudWorkers :
           worker[w].at = "idle" /\ worker'[w].at = "computing"
             => task[worker'[w].job].at # "timedout"]_vars
  <2> SUFFICES ASSUME Base, Next, NEW w \in CloudWorkers,
                      worker[w].at = "idle", worker'[w].at = "computing"
               PROVE  task[worker'[w].job].at # "timedout"
    OBVIOUS
  <2>1. PICK j \in Tasks : Receive(w, j)
    <3>1. ASSUME NEW t \in Tasks, BackendStep(t) PROVE FALSE
      BY <3>1 DEF BackendStep, Lookup, TakePermit, LookAgain, VolunteerCompletes, FallBack,
                  Send, SendFails, Found, TimeOut, Unreadable, CacheStore, CacheExpire
    <3>2. ASSUME NEW v \in CloudWorkers, WorkerFails(v) PROVE FALSE
      BY <3>2 DEF WorkerFails, Free, Base, TypeOK
    <3>3. ASSUME NEW v \in CloudWorkers,
                 Upload(v) \/ OpenMirror(v) \/ WriteMirror(v) \/ MirrorFails(v) \/ Finish(v)
          PROVE  FALSE
      BY <3>3 DEF Upload, OpenMirror, WriteMirror, MirrorFails, Finish, Holding, Free, Base,
                  TypeOK, WorkerState
    <3>4. ASSUME NEW v \in CloudWorkers, NEW j \in Tasks, Skip(v, j) PROVE FALSE
      BY <3>4 DEF Skip
    <3>5. ASSUME NEW j, VisibilityEnds(j) \/ JobExpires(j) \/ CacheEnds(j) \/ ProgressEnds(j)
          PROVE  FALSE
      BY <3>5 DEF VisibilityEnds, JobExpires, CacheEnds, ProgressEnds
    <3>6. PICK v \in CloudWorkers : \E j \in Tasks : Receive(v, j)
      BY <3>1, <3>2, <3>3, <3>4, <3>5 DEF Next, WorkerStep
    <3>7. v = w
      BY <3>6 DEF Receive, Base, TypeOK
    <3>8. QED
      BY <3>6, <3>7
  <2>2. worker'[w].job = j /\ j \notin expired
    BY <2>1 DEF Receive, Base, TypeOK
  <2>3. QED
    BY <2>2 DEF Base, GivenUpIsExpired
<1>2. QED
  BY <1>1, BaseHolds, PTL DEF Spec, NoWorkForNobody

-----------------------------------------------------------------------------
(***************************************************************************)
(* No answer strays from its question, where the keys separate them.       *)
(***************************************************************************)

LEMMA GenuineNext ==
  ASSUME \A t \in Tasks : task'[t].answer \in {NoAnswer, Fit(t)},
         \A t \in Tasks : cache'[CacheKey(t)].answer \in {NoAnswer, Fit(t)},
         \A t \in Tasks : store'[t] \in {NoAnswer, Fit(t)},
         \A t \in Tasks : mirror'[t].answer \in {NoAnswer, Fit(t)}
  PROVE  Genuine'
BY DEF Genuine, Fits, Fit, Predict, Payload, CacheKey, FireKey, ClusterKey

LEMMA TaskStaysGenuine ==
  ASSUME Base, Genuine, NEW t \in Tasks, NEW new \in TaskState, task' = [task EXCEPT ![t] = new],
         new.answer \in {NoAnswer, Fit(t)}, UNCHANGED <<cache, store, mirror>>
  PROVE  Genuine'
<1>1. \A u \in Tasks : task'[u].answer \in {NoAnswer, Fit(u)}
  BY DEF Base, TypeOK, Genuine, Fits
<1>2. QED
  BY <1>1, GenuineNext DEF Genuine, Fits

LEMMA BackendKeepsGenuine ==
  ASSUME KeysSeparate, Base, Genuine, NEW t \in Tasks, BackendStep(t) PROVE Genuine'
<1> TypeOK
  BY DEF Base
<1>0. /\ task[t].answer \in {NoAnswer, Fit(t)} /\ Result(t) \in {NoAnswer, Fit(t)}
      /\ cache[CacheKey(t)].answer \in {NoAnswer, Fit(t)}
      /\ Fit(t) = Predict(Payload(t)) /\ JobId(t) = t
      /\ Fit(t) \in Answers /\ CacheKey(t) \in CacheKeys
  BY AnswersAreTyped DEF Genuine, Fits, Result, Fit, JobId
<1>1. ASSUME NEW where \in Onward,
             Goto(t, where), UNCHANGED <<cache, store, mirror>>
      PROVE  Genuine'
  BY <1>0, <1>1, Names, GotoState, TaskStaysGenuine
<1>2. ASSUME NEW how \in Endings, NEW answer \in {NoAnswer, Fit(t)},
             Ends(t, how, answer), UNCHANGED <<cache, store, mirror>>
      PROVE  Genuine'
  <2>1. answer \in Answers \cup {NoAnswer}
    BY <1>0
  <2>2. QED
    BY <1>2, Names, <2>1, EndsState, TaskStaysGenuine
<1>3. CASE Lookup(t)
  <2>1. Ends(t, "done", cache[CacheKey(t)].answer) \/ Goto(t, "queueing")
    BY <1>3 DEF Lookup
  <2>2. QED
    BY <1>0, <1>1, Names, <1>2, <1>3, <2>1 DEF Lookup
<1>4. CASE TakePermit(t)
  BY <1>1, Names, <1>4 DEF TakePermit
<1>5. CASE LookAgain(t)
  <2>1. \/ Ends(t, "done", cache[CacheKey(t)].answer)
        \/ Goto(t, "volunteer") \/ Goto(t, "sending")
    BY <1>5 DEF LookAgain
  <2>2. QED
    BY <1>0, <1>1, Names, <1>2, <1>5, <2>1 DEF LookAgain
<1>6. CASE VolunteerCompletes(t)
  BY <1>0, <1>2, Names, <1>6 DEF VolunteerCompletes
<1>7. CASE FallBack(t)
  BY <1>1, Names, <1>7 DEF FallBack
<1>8. CASE Send(t)
  BY <1>1, Names, <1>8 DEF Send
<1>9. CASE Found(t)
  <2>1. Ends(t, "caching", Result(t))
    BY <1>0, <1>9 DEF Found
  <2>2. QED
    BY <1>0, <1>2, Names, <1>9, <2>1 DEF Found
<1>10. CASE SendFails(t) \/ TimeOut(t)
  <2>1. \E where \in Failed : Goto(t, where)
    BY <1>10 DEF SendFails, TimeOut, Failed
  <2>2. QED
    BY <1>1, Names, <1>10, <2>1 DEF SendFails, TimeOut
<1>11. CASE Unreadable(t)
  <2>1. \E how \in Failed : Ends(t, how, NoAnswer)
    BY <1>11 DEF Unreadable, Failed
  <2>2. QED
    BY <1>2, Names, <1>11, <2>1 DEF Unreadable
<1>12. CASE CacheStore(t)
  <2>1. \A u \in Tasks : task'[u].answer = task[u].answer
    BY <1>12 DEF CacheStore, Goto, TypeOK, TaskState
  <2>2. ASSUME NEW u \in Tasks PROVE cache'[CacheKey(u)].answer \in {NoAnswer, Fit(u)}
    <3>1. CASE CacheKey(u) = CacheKey(t)
      <4>1. cache'[CacheKey(u)].answer = task[t].answer
        BY <1>0, <1>12, <3>1 DEF CacheStore, TypeOK, CacheState
      <4>2. Fit(u) = Fit(t)
        BY <3>1 DEF KeysSeparate
      <4>3. QED
        BY <1>0, <4>1, <4>2
    <3>2. CASE CacheKey(u) # CacheKey(t)
      <4>1. CacheKey(u) \in CacheKeys
        BY AnswersAreTyped
      <4>2. cache'[CacheKey(u)] = cache[CacheKey(u)]
        BY <1>12, <3>2, <4>1 DEF CacheStore, TypeOK
      <4>3. QED
        BY <4>2 DEF Genuine, Fits
    <3>3. QED
      BY <3>1, <3>2
  <2>3. store' = store /\ mirror' = mirror
    BY <1>12 DEF CacheStore
  <2>4. QED
    BY <2>1, <2>2, <2>3, GenuineNext DEF Genuine, Fits
<1>13. CASE CacheExpire(t)
  <2>1. \A u \in Tasks : task'[u].answer = task[u].answer
    BY <1>13 DEF CacheExpire, Goto, TypeOK, TaskState
  <2>2. ASSUME NEW u \in Tasks PROVE cache'[CacheKey(u)].answer = cache[CacheKey(u)].answer
    <3>1. CacheKey(u) \in CacheKeys
      BY AnswersAreTyped
    <3>2. QED
      BY <1>13, <3>1 DEF CacheExpire, TypeOK, CacheState
  <2>3. store' = store /\ mirror' = mirror
    BY <1>13 DEF CacheExpire
  <2>4. QED
    BY <2>1, <2>2, <2>3, GenuineNext DEF Genuine, Fits
<1>14. QED
  BY <1>3, <1>4, <1>5, <1>6, <1>7, <1>8, <1>9, <1>10, <1>11, <1>12, <1>13 DEF BackendStep

LEMMA WorkerKeepsGenuine ==
  ASSUME Base, Genuine, NEW w \in CloudWorkers, WorkerStep(w) \/ WorkerFails(w) PROVE Genuine'
<1> DEFINE j == worker[w].job
<1>0. worker[w].at # "idle" => j \in Tasks /\ Predict(worker[w].body) = Fit(j)
  BY DEF Base, Carried, Fit
<1>1. CASE Upload(w)
  <2>1. \A t \in Tasks : store'[t] \in {NoAnswer, Fit(t)}
    BY <1>0, <1>1 DEF Upload, Base, TypeOK, Genuine, Fits
  <2>2. UNCHANGED <<task, cache, mirror>>
    BY <1>1 DEF Upload
  <2>3. QED
    BY <2>1, <2>2, GenuineNext DEF Genuine, Fits
<1>2. CASE OpenMirror(w) \/ WriteMirror(w)
  <2>1. CASE OpenMirror(w)
    BY <2>1, GenuineNext DEF OpenMirror, Base, TypeOK, FileState, Genuine, Fits
  <2>2. CASE WriteMirror(w)
    <3>1. \A t \in Tasks : mirror'[t].answer \in {NoAnswer, Fit(t)}
      BY <1>0, <2>2 DEF WriteMirror, Base, TypeOK, Genuine, Fits
    <3>2. QED
      BY <2>2, <3>1, GenuineNext DEF WriteMirror, Genuine, Fits
  <2>3. QED
    BY <1>2, <2>1, <2>2
<1>3. CASE UNCHANGED <<task, cache, store, mirror>>
  BY <1>3, GenuineNext DEF Genuine, Fits
<1>4. QED
  BY <1>1, <1>2, <1>3 DEF WorkerStep, WorkerFails, Skip, Receive, MirrorFails, Finish

LEMMA GenuineStep ==
  ASSUME KeysSeparate, Base, Genuine, [Next]_vars PROVE Genuine'
<1>1. CASE UNCHANGED <<task, cache, store, mirror>>
  BY <1>1, GenuineNext DEF Genuine, Fits
<1>2. ASSUME NEW k \in CacheKeys, CacheEnds(k) PROVE Genuine'
  <2>1. ASSUME NEW t \in Tasks PROVE cache'[CacheKey(t)].answer \in {NoAnswer, Fit(t)}
    <3>1. cache[CacheKey(t)].answer \in {NoAnswer, Fit(t)} /\ CacheKey(t) \in CacheKeys
      BY AnswersAreTyped DEF Genuine, Fits
    <3>2. cache'[CacheKey(t)] \in {cache[CacheKey(t)], Empty}
      BY <1>2, <3>1 DEF CacheEnds, Base, TypeOK
    <3>3. QED
      BY <3>1, <3>2 DEF Empty
  <2>2. UNCHANGED <<task, store, mirror>>
    BY <1>2 DEF CacheEnds
  <2>3. QED
    BY <2>1, <2>2, GenuineNext DEF Genuine, Fits
<1>3. QED
  BY <1>1, <1>2, BackendKeepsGenuine, WorkerKeepsGenuine
     DEF Next, vars, VisibilityEnds, JobExpires, ProgressEnds

(* cache.py:60-101, simulation_api.py:301-404: if every line that crosses  *)
(* a fire's grid is near the fire, each task is given the prediction of    *)
(* its own fires and lines, whatever is cached, redelivered, written over  *)
(* or torn.  README, section 9, tells of the case without the condition.   *)
THEOREM NearGridAnswersFit ==
  ASSUME InGrid \subseteq Near
  PROVE  Spec => []AnswersFit
<1>1. KeysSeparate
  BY NearGridSeparates
<1>2. Base /\ Genuine /\ [Next]_vars => Genuine'
  BY <1>1, GenuineStep
<1>3. Genuine => AnswersFit
  BY DEF Genuine, Fits, Fit, AnswersFit
<1>4. QED
  BY <1>2, <1>3, GenuineInit, BaseHolds, PTL DEF Spec

-----------------------------------------------------------------------------
(* A task at one of these places may have its progress shown. *)
Showing == {"volunteer", "sending", "waiting", "unsent"}

(* A task that leaves those places takes the key with it; one that was in  *)
(* none of them, or stays among them, takes nothing from the other tasks.  *)
LEMMA ProgressOfATask ==
  ASSUME TypeOK, ProgressIsOfARunningJob, NEW t \in Tasks, NEW s \in TaskState,
         task' = [task EXCEPT ![t] = s],
         \/ progress' \subseteq progress \cup {Key(t)} /\ s.at \in Showing
         \/ progress' = progress /\ task[t].at \notin Showing
         \/ progress' \subseteq progress \ {Key(t)}
  PROVE  ProgressIsOfARunningJob'
<1>1. task'[t] = s /\ \A u \in Tasks \ {t} : task'[u] = task[u]
  BY DEF TypeOK
<1>2. SUFFICES ASSUME NEW k \in progress'
               PROVE  \E u \in Tasks : Key(u) = k /\ task'[u].at \in Showing
  BY DEF ProgressIsOfARunningJob, Showing, Key
<1>3. CASE k = Key(t) /\ s.at \in Showing
  BY <1>1, <1>3
<1>4. CASE k \in progress /\ (k # Key(t) \/ task[t].at \notin Showing)
  <2>1. PICK u \in Tasks : Key(u) = k /\ task[u].at \in Showing
    BY <1>4 DEF ProgressIsOfARunningJob, Showing
  <2>2. u # t
    BY <1>4, <2>1
  <2>3. QED
    BY <1>1, <2>1, <2>2
<1>5. QED
  BY <1>2, <1>3, <1>4

LEMMA BackendKeepsProgress ==
  ASSUME TypeOK, TypeOK', ProgressIsOfARunningJob, NEW t \in Tasks, BackendStep(t)
  PROVE  ProgressIsOfARunningJob'
<1>0. task \in [Tasks -> TaskState] /\ task' \in [Tasks -> TaskState]
  BY DEF TypeOK
<1>1. /\ task'[t] \in TaskState
      /\ \E s : task' = [task EXCEPT ![t] = s]
  <2>1. (\E where : Goto(t, where)) \/ (\E how, answer : Ends(t, how, answer))
    BY DEF BackendStep, Lookup, TakePermit, LookAgain, VolunteerCompletes, FallBack, Send, SendFails,
           Found, TimeOut, Unreadable, CacheStore, CacheExpire
  <2>2. CASE \E where : Goto(t, where)
    <3>1. PICK where : task' = [task EXCEPT ![t].at = where]
      BY <2>2 DEF Goto
    <3>2. task' = [task EXCEPT ![t] = [task[t] EXCEPT !.at = where]]
      BY <3>1
    <3>3. QED
      BY <1>0, <3>2
  <2>3. CASE \E how, answer : Ends(t, how, answer)
    BY <1>0, <2>3 DEF Ends
  <2>4. QED
    BY <2>1, <2>2, <2>3
<1>2. task' = [task EXCEPT ![t] = task'[t]]
  BY <1>0, <1>1
<1>3. \A where : Goto(t, where) => task'[t].at = where
  BY <1>0 DEF Goto, TaskState
<1>4. \A how, answer : Ends(t, how, answer) => task'[t].at = how
  BY <1>0 DEF Ends
<1>5. CASE Lookup(t) \/ TakePermit(t)
  BY <1>1, <1>2, <1>5, ProgressOfATask DEF Lookup, TakePermit, Showing
<1>6. CASE LookAgain(t)
  BY <1>1, <1>2, <1>3, <1>6, ProgressOfATask DEF LookAgain, Showing
<1>7. CASE FallBack(t)
  BY <1>1, <1>2, <1>3, <1>7, ProgressOfATask DEF FallBack, Showing
<1>8. CASE Send(t) \/ SendFails(t)
  BY <1>1, <1>2, <1>3, <1>8, ProgressOfATask DEF Send, SendFails, Showing
<1>9. CASE VolunteerCompletes(t) \/ Found(t) \/ TimeOut(t)
  BY <1>1, <1>2, <1>9, ProgressOfATask DEF VolunteerCompletes, Found, TimeOut
<1>10. CASE Unreadable(t) \/ CacheStore(t) \/ CacheExpire(t)
  BY <1>1, <1>2, <1>10, ProgressOfATask DEF Unreadable, CacheStore, CacheExpire, Showing
<1>11. QED
  BY <1>5, <1>6, <1>7, <1>8, <1>9, <1>10 DEF BackendStep

LEMMA ProgressStep ==
  ASSUME TypeOK, TypeOK', ProgressIsOfARunningJob, [Next]_vars
  PROVE  ProgressIsOfARunningJob'
<1>1. ASSUME task' = task, progress' \subseteq progress PROVE ProgressIsOfARunningJob'
  BY <1>1 DEF ProgressIsOfARunningJob, Key
<1>2. ASSUME NEW w \in CloudWorkers, WorkerStep(w) \/ WorkerFails(w) PROVE task' = task /\ progress' = progress
  BY <1>2 DEF WorkerStep, WorkerFails, Skip, Receive, Upload, OpenMirror, WriteMirror, MirrorFails, Finish
<1>3. QED
  BY <1>1, <1>2, BackendKeepsProgress DEF Next, vars, VisibilityEnds, JobExpires, CacheEnds, ProgressEnds

(* simulation_api.py:273-404, routes/workers.py:42-63: whatever the tasks  *)
(* under a key do to one another's progress, progress is shown only while  *)
(* one of them is on its way, or after one that could not be queued.       *)
THEOREM ProgressIsAlwaysOfARunningJob == Spec => []ProgressIsOfARunningJob
<1>1. Init => ProgressIsOfARunningJob
  BY DEF Init, ProgressIsOfARunningJob
<1>2. TypeOK /\ TypeOK' /\ ProgressIsOfARunningJob /\ [Next]_vars => ProgressIsOfARunningJob'
  BY ProgressStep
<1>3. QED
  BY <1>1, <1>2, TypesAreKept, PTL DEF Spec

=============================================================================
