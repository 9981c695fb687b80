--------------------------- MODULE WorkerDispatch ---------------------------
(***************************************************************************)
(* Dispatch of simulation jobs to volunteer GPU workers                    *)
(* (app/backend/src/routes/workers.py and services/workers.py).            *)
(*                                                                         *)
(* One asyncio event loop runs every WebSocket handler (one per socket)    *)
(* and every dispatch coroutine (one per job): what they do between two    *)
(* awaits is one section, and LoopFree says that no section is half done.  *)
(* The REST endpoints are plain functions that FastAPI runs on a thread    *)
(* pool, so their database and Valkey calls fall inside a section too; a   *)
(* section in which that matters is split at its database accesses.        *)
(*                                                                         *)
(* Time is abstracted: the 90 s job limit and the 15 min back-off may have *)
(* elapsed at any moment.  The ids are finite sets, which bounds a run: a  *)
(* socket and a job are used once.                                         *)
(***************************************************************************)
EXTENDS Naturals, Sequences, Functions

CONSTANTS
  Workers,        \* rows of worker_nodes
  Socks,          \* accepted or attempted WebSocket connections
  WorkerOf,       \* the worker a socket's device token names
  Jobs,           \* simulation jobs (uuid job ids)
  Threads,        \* REST requests being served at the same time
  RestKinds,      \* the REST operations users call in this instance
  NoSock          \* no entry in active_worker_connections

ASSUME WorkerOfAssumption == WorkerOf \in [Socks -> Workers]
ASSUME WorkersAssumption == Workers # {}
ASSUME NoSockAssumption == NoSock \notin Socks
ASSUME RestKindsAssumption ==
  RestKinds \subseteq {"activate", "deactivate", "remove", "register"}

VARIABLES
  status,     \* committed worker_nodes.status
  idle,       \* Valkey set worker:pool:idle
  busy,       \* Valkey set worker:pool:busy
  conn,       \* active_worker_connections
  sock,       \* where the handler of a socket is
  peer,       \* whether the client's end of a socket is up
  seen,       \* the status a handler's ORM session holds, or "expired"
  toClient,   \* jobs sent on a socket the client has not answered
  inbox,      \* answers sent on a socket the handler has not received
  job,        \* where the dispatch coroutine of a job is
  assignee,   \* the worker a dispatch claimed
  via,        \* the socket a dispatch sends its job on
  future,     \* the asyncio future of a job
  pending,    \* jobs with an entry in pending_results
  outcome,    \* what the dispatch returned
  served,     \* history: jobs a client computed a result for
  rest        \* the REST requests in progress

poolVars == <<status, idle, busy>>
sockVars == <<conn, sock, peer, seen>>
wireVars == <<toClient, inbox, served>>
jobVars  == <<job, assignee, via, future, pending, outcome>>
vars     == <<poolVars, sockVars, wireVars, jobVars, rest>>

-----------------------------------------------------------------------------
Status ==
  {"active", "busy", "offline", "quarantined", "deactivated", "removed"}

SockPoints ==
  {"unused", "accepting", "joining", "open", "resuming", "pooling", "leaving",
   "closed"}
JobPoints ==
  {"new", "claimed", "sending", "waiting", "resetting", "repooling", "done"}

\* The points inside a section of the event loop, where only REST threads run.
SockMidSection == {"joining", "resuming", "pooling", "leaving"}
JobMidSection  == {"claimed", "resetting", "repooling"}

Message == [type : {"result", "data_error", "error"}, job : Jobs]

NoRequest == [at |-> "none"]
Request == [at : {"loaded", "committed"}, kind : RestKinds, worker : Workers,
            loaded : Status]

TypeOK ==
  /\ status \in [Workers -> Status]
  /\ idle \subseteq Workers
  /\ busy \subseteq Workers
  /\ conn \in [Workers -> Socks \cup {NoSock}]
  /\ sock \in [Socks -> SockPoints]
  /\ peer \in [Socks -> {"up", "down"}]
  /\ seen \in [Socks -> Status \cup {"expired"}]
  /\ toClient \in [Socks -> Seq(Jobs)]
  /\ inbox \in [Socks -> Seq(Message)]
  /\ job \in [Jobs -> JobPoints]
  /\ assignee \in [Jobs -> Workers]
  /\ via \in [Jobs -> Socks \cup {NoSock}]
  /\ future \in [Jobs -> {"none", "pending", "result", "error"}]
  /\ pending \subseteq Jobs
  /\ outcome \in [Jobs -> {"none", "completed", "fallback"}]
  /\ served \subseteq Jobs
  /\ rest \in [Threads -> Request \cup {NoRequest}]

-----------------------------------------------------------------------------
(***************************************************************************)
(* SQLAlchemy writes a column only when it differs from the value the      *)
(* session loaded; a commit expires what was loaded, and a refresh or the  *)
(* first access after it loads it anew.                                    *)
(***************************************************************************)
Flush(loaded, new, stored) == IF loaded = new THEN stored ELSE new

Loaded(s) == IF seen[s] = "expired" THEN status[WorkerOf[s]] ELSE seen[s]

LoopFree ==
  /\ \A s \in Socks : sock[s] \notin SockMidSection
  /\ \A j \in Jobs : job[j] \notin JobMidSection

\* A dispatch that has claimed a worker and has not returned.
InFlight(j) == job[j] \in {"claimed", "sending", "waiting"}

\* A dispatch whose worker still owes the answer.
Owed(j) == InFlight(j) /\ future[j] \notin {"result", "error"}

Init ==
  /\ status \in [Workers -> {"active", "offline"}]  \* registered, not connected
  /\ idle = {}
  /\ busy = {}
  /\ conn = [w \in Workers |-> NoSock]
  /\ sock = [s \in Socks |-> "unused"]
  /\ peer = [s \in Socks |-> "down"]
  /\ seen = [s \in Socks |-> "expired"]
  /\ toClient = [s \in Socks |-> <<>>]
  /\ inbox = [s \in Socks |-> <<>>]
  /\ job = [j \in Jobs |-> "new"]
  /\ assignee = [j \in Jobs |-> CHOOSE w \in Workers : TRUE]  \* unread until set
  /\ via = [j \in Jobs |-> NoSock]
  /\ future = [j \in Jobs |-> "none"]
  /\ pending = {}
  /\ outcome = [j \in Jobs |-> "none"]
  /\ served = {}
  /\ rest = [t \in Threads |-> NoRequest]

-----------------------------------------------------------------------------
(***************************************************************************)
(* The client of a worker (gpu_worker/client_worker.py): one job at a time *)
(* on a connection, answers in the order the jobs came.                    *)
(***************************************************************************)

\* The server has noticed that the worker's earlier sockets are gone, in the
\* handlers and in the dispatches that poll active_worker_connections.  A client
\* reconnects after 5 s, but may be hastier than the server, and machines may
\* share a row (register_worker_node lets them).
EarlierSocketsCleanedUp(w) ==
  /\ \A s \in Socks : WorkerOf[s] = w => sock[s] \in {"unused", "closed"}
  /\ \A j \in Jobs : InFlight(j) => assignee[j] # w

ClientAnswer(s, type) ==
  /\ peer[s] = "up"
  /\ toClient[s] # <<>>
  /\ LET j == Head(toClient[s]) IN
       /\ inbox' = [inbox EXCEPT ![s] = Append(@, [type |-> type, job |-> j])]
       /\ served' = IF type = "result" THEN served \cup {j} ELSE served
  /\ toClient' = [toClient EXCEPT ![s] = Tail(@)]
  /\ UNCHANGED <<poolVars, sockVars, jobVars, rest>>

\* The client or the network drops the connection: the job it ran is lost, and
\* so may be the last of the answers it had sent.
PeerDrop(s) ==
  /\ peer[s] = "up"
  /\ peer' = [peer EXCEPT ![s] = "down"]
  /\ toClient' = [toClient EXCEPT ![s] = <<>>]
  /\ \E n \in 0..Len(inbox[s]) :
       inbox' = [inbox EXCEPT ![s] = SubSeq(@, 1, n)]
  /\ UNCHANGED <<poolVars, conn, sock, seen, served, jobVars, rest>>

-----------------------------------------------------------------------------
(***************************************************************************)
(* websocket_worker_endpoint                                               *)
(***************************************************************************)

\* The client connects and the checks before accept() pass.  A quarantined row
\* is reset only when its back-off is over.
Handshake(s) ==
  LET w == WorkerOf[s] IN
  /\ LoopFree
  /\ sock[s] = "unused"
  /\ status[w] \notin {"removed", "deactivated"}
  /\ IF status[w] = "quarantined"
       THEN /\ status' = [status EXCEPT ![w] = "active"]
            /\ seen' = seen
       ELSE /\ seen' = [seen EXCEPT ![s] = status[w]]
            /\ status' = status
  /\ sock' = [sock EXCEPT ![s] = "accepting"]
  /\ peer' = [peer EXCEPT ![s] = "up"]
  /\ UNCHANGED <<idle, busy, conn, wireVars, jobVars, rest>>

\* accept() raises: the handler ends before its try block, without cleanup.
AcceptFails(s) ==
  /\ LoopFree
  /\ sock[s] = "accepting"
  /\ peer[s] = "down"
  /\ sock' = [sock EXCEPT ![s] = "closed"]
  /\ seen' = [seen EXCEPT ![s] = "expired"]
  /\ UNCHANGED <<poolVars, conn, peer, wireVars, jobVars, rest>>

Accepted(s) ==
  LET w == WorkerOf[s] IN
  /\ LoopFree
  /\ sock[s] = "accepting"
  /\ conn' = [conn EXCEPT ![w] = s]
  /\ status' = [status EXCEPT ![w] = Flush(seen[s], "active", @)]
  /\ seen' = [seen EXCEPT ![s] = "expired"]
  /\ sock' = [sock EXCEPT ![s] = "joining"]
  /\ UNCHANGED <<idle, busy, peer, wireVars, jobVars, rest>>

JoinPools(s) ==
  /\ sock[s] = "joining"
  /\ idle' = idle \cup {WorkerOf[s]}
  /\ busy' = busy \ {WorkerOf[s]}
  /\ sock' = [sock EXCEPT ![s] = "open"]
  /\ UNCHANGED <<status, conn, peer, seen, wireVars, jobVars, rest>>

\* A pong reaches the handler: last_heartbeat is committed.
Heartbeat(s) ==
  /\ LoopFree
  /\ sock[s] = "open"
  /\ peer[s] = "up"
  /\ seen[s] # "expired"
  /\ seen' = [seen EXCEPT ![s] = "expired"]
  /\ UNCHANGED <<poolVars, conn, sock, peer, wireVars, jobVars, rest>>

\* Takes the next message of the socket and gives the future it answers its
\* value, when the dispatch still waits for it.
Receive(s, type, value) ==
  /\ LoopFree
  /\ sock[s] = "open"
  /\ inbox[s] # <<>>
  /\ Head(inbox[s]).type = type
  /\ inbox' = [inbox EXCEPT ![s] = Tail(@)]
  /\ LET j == Head(inbox[s]).job IN
       /\ pending' = pending \ {j}
       /\ future' = [future EXCEPT ![j] = IF j \in pending THEN value ELSE @]

\* simulation_result, and simulation_error of kind data_source: the worker is
\* read afresh and, if it is busy, goes back to the idle pool in two more steps.
RecvAnswer(s, type, value) ==
  LET w == WorkerOf[s] IN
  /\ Receive(s, type, value)
  /\ busy' = busy \ {w}
  /\ seen' = [seen EXCEPT ![s] = status[w]]
  /\ sock' = [sock EXCEPT ![s] = IF status[w] = "busy" THEN "resuming" ELSE @]
  /\ UNCHANGED <<status, idle, conn, peer, toClient, served, job, assignee,
                 via, outcome, rest>>

RecvResult(s) == RecvAnswer(s, "result", "result")
RecvDataSourceError(s) == RecvAnswer(s, "data_error", "error")

Resume(s) ==
  /\ sock[s] = "resuming"
  /\ status' = [status EXCEPT ![WorkerOf[s]] = Flush(seen[s], "active", @)]
  /\ seen' = [seen EXCEPT ![s] = "expired"]
  /\ sock' = [sock EXCEPT ![s] = "pooling"]
  /\ UNCHANGED <<idle, busy, conn, peer, wireVars, jobVars, rest>>

ReturnToPool(s) ==
  /\ sock[s] = "pooling"
  /\ idle' = idle \cup {WorkerOf[s]}
  /\ sock' = [sock EXCEPT ![s] = "open"]
  /\ UNCHANGED <<status, busy, conn, peer, seen, wireVars, jobVars, rest>>

\* Any other simulation_error quarantines the worker, whatever its status is.
RecvError(s) ==
  LET w == WorkerOf[s] IN
  /\ Receive(s, "error", "error")
  /\ status' = [status EXCEPT ![w] = Flush(Loaded(s), "quarantined", @)]
  /\ seen' = [seen EXCEPT ![s] = "expired"]
  /\ busy' = busy \ {w}
  /\ idle' = idle \ {w}
  /\ UNCHANGED <<conn, sock, peer, toClient, served, job, assignee, via,
                 outcome, rest>>

\* (fault) The finally block forgets active_worker_connections.
DropKeepsEntry(s) ==
  /\ LoopFree
  /\ sock[s] = "open"
  /\ peer[s] = "down"
  /\ inbox[s] = <<>>
  /\ idle' = idle \ {WorkerOf[s]}
  /\ busy' = busy \ {WorkerOf[s]}
  /\ sock' = [sock EXCEPT ![s] = "leaving"]
  /\ seen' = [seen EXCEPT ![s] = Loaded(s)]
  /\ UNCHANGED <<status, conn, peer, wireVars, jobVars, rest>>

\* The handler notices the disconnect: its finally block.  The row it finds is
\* the one its session holds, which may be stale.
Drop(s) ==
  LET w == WorkerOf[s] IN
  /\ LoopFree
  /\ sock[s] = "open"
  /\ peer[s] = "down"
  /\ inbox[s] = <<>>
  /\ conn' = [conn EXCEPT ![w] = NoSock]
  /\ idle' = idle \ {w}
  /\ busy' = busy \ {w}
  /\ IF Loaded(s) \in {"quarantined", "removed", "deactivated"}
       THEN /\ sock' = [sock EXCEPT ![s] = "closed"]
            /\ seen' = [seen EXCEPT ![s] = "expired"]
       ELSE /\ sock' = [sock EXCEPT ![s] = "leaving"]
            /\ seen' = [seen EXCEPT ![s] = Loaded(s)]
  /\ UNCHANGED <<status, peer, wireVars, jobVars, rest>>

CommitOffline(s) ==
  /\ sock[s] = "leaving"
  /\ status' = [status EXCEPT ![WorkerOf[s]] = Flush(seen[s], "offline", @)]
  /\ seen' = [seen EXCEPT ![s] = "expired"]
  /\ sock' = [sock EXCEPT ![s] = "closed"]
  /\ UNCHANGED <<idle, busy, conn, peer, wireVars, jobVars, rest>>

-----------------------------------------------------------------------------
(***************************************************************************)
(* dispatch_simulation_task                                                *)
(***************************************************************************)

\* The dispatch returns to its caller before it has claimed a worker.
FallBackAtOnce(j) ==
  /\ LoopFree
  /\ job[j] = "new"
  /\ job' = [job EXCEPT ![j] = "done"]
  /\ outcome' = [outcome EXCEPT ![j] = "fallback"]
  /\ UNCHANGED <<status, sockVars, wireVars, assignee, via, future, pending,
                 rest>>

NoIdleWorker(j) ==
  /\ FallBackAtOnce(j)
  /\ idle = {}
  /\ UNCHANGED <<idle, busy>>

\* The popped worker has no socket.
StaleIdleEntry(j, w) ==
  /\ FallBackAtOnce(j)
  /\ w \in idle
  /\ conn[w] = NoSock
  /\ idle' = idle \ {w}
  /\ UNCHANGED busy

\* The popped worker's row is not active; it enters and leaves the busy pool.
SkipInactive(j, w) ==
  /\ FallBackAtOnce(j)
  /\ w \in idle
  /\ conn[w] # NoSock
  /\ status[w] # "active"
  /\ idle' = idle \ {w}
  /\ busy' = busy \ {w}

Claim(j, w) ==
  /\ LoopFree
  /\ job[j] = "new"
  /\ w \in idle
  /\ conn[w] # NoSock
  /\ status[w] = "active"
  /\ idle' = idle \ {w}
  /\ busy' = busy \cup {w}
  /\ assignee' = [assignee EXCEPT ![j] = w]
  /\ via' = [via EXCEPT ![j] = conn[w]]
  /\ job' = [job EXCEPT ![j] = "claimed"]
  /\ UNCHANGED <<status, sockVars, wireVars, future, pending, outcome, rest>>

CommitBusy(j) ==
  /\ job[j] = "claimed"
  /\ status' = [status EXCEPT ![assignee[j]] = Flush("active", "busy", @)]
  /\ future' = [future EXCEPT ![j] = "pending"]
  /\ pending' = pending \cup {j}
  /\ job' = [job EXCEPT ![j] = "sending"]
  /\ UNCHANGED <<idle, busy, sockVars, wireVars, assignee, via, outcome, rest>>

\* (fault) The socket is looked up again when the job is sent.
SendJobToCurrentSocket(j) ==
  LET s == conn[assignee[j]] IN
  /\ LoopFree
  /\ job[j] = "sending"
  /\ toClient' = IF s # NoSock THEN [toClient EXCEPT ![s] = Append(@, j)] ELSE toClient
  /\ job' = [job EXCEPT ![j] = "waiting"]
  /\ UNCHANGED <<poolVars, sockVars, inbox, served, assignee, via, future,
                 pending, outcome, rest>>

\* send_text() returns; what is sent to a dead peer is lost.
SendJob(j) ==
  /\ LoopFree
  /\ job[j] = "sending"
  /\ toClient' = IF peer[via[j]] = "up"
                   THEN [toClient EXCEPT ![via[j]] = Append(@, j)]
                   ELSE toClient
  /\ job' = [job EXCEPT ![j] = "waiting"]
  /\ UNCHANGED <<poolVars, sockVars, inbox, served, assignee, via, future,
                 pending, outcome, rest>>

\* (fault) An exit that leaves the worker in worker:pool:busy.
SettleKeepsBusy(j, verdict) ==
  /\ pending' = pending \ {j}
  /\ future' = [future EXCEPT ![j] = "none"]
  /\ outcome' = [outcome EXCEPT ![j] = verdict]
  /\ UNCHANGED busy

\* The finally block of the dispatch, and what it returns.
Settle(j, verdict) ==
  /\ pending' = pending \ {j}
  /\ future' = [future EXCEPT ![j] = "none"]
  /\ busy' = busy \ {assignee[j]}
  /\ outcome' = [outcome EXCEPT ![j] = verdict]

\* send_text() raises: the row is read afresh, and a worker still busy is
\* given back in up to two more steps.
SendFails(j) ==
  /\ LoopFree
  /\ job[j] = "sending"
  /\ peer[via[j]] = "down"
  /\ Settle(j, "fallback")
  /\ job' = [job EXCEPT
               ![j] = IF status[assignee[j]] = "busy" THEN "resetting" ELSE "done"]
  /\ UNCHANGED <<status, idle, sockVars, wireVars, assignee, via, rest>>

ResetWorker(j) ==
  LET w == assignee[j] IN
  /\ job[j] = "resetting"
  /\ status' = [status EXCEPT ![w] = Flush("busy", "active", @)]
  /\ job' = [job EXCEPT ![j] = IF conn[w] # NoSock THEN "repooling" ELSE "done"]
  /\ UNCHANGED <<idle, busy, sockVars, wireVars, assignee, via, future, pending,
                 outcome, rest>>

RepoolWorker(j) ==
  /\ job[j] = "repooling"
  /\ idle' = idle \cup {assignee[j]}
  /\ job' = [job EXCEPT ![j] = "done"]
  /\ UNCHANGED <<status, busy, sockVars, wireVars, assignee, via, future,
                 pending, outcome, rest>>

\* One poll of the future: it is done, or the worker's entry is gone, or the
\* time is up.
Verdict(j) == IF future[j] = "result" THEN "completed" ELSE "fallback"

Answered(j) ==
  /\ LoopFree
  /\ job[j] = "waiting"
  /\ future[j] # "pending"
  /\ Settle(j, Verdict(j))
  /\ job' = [job EXCEPT ![j] = "done"]
  /\ UNCHANGED <<status, idle, sockVars, wireVars, assignee, via, rest>>

WorkerGone(j) ==
  /\ LoopFree
  /\ job[j] = "waiting"
  /\ future[j] = "pending"
  /\ conn[assignee[j]] = NoSock
  /\ Settle(j, "fallback")
  /\ job' = [job EXCEPT ![j] = "done"]
  /\ UNCHANGED <<status, idle, sockVars, wireVars, assignee, via, rest>>

\* (fault) The loop never adds to elapsed.
TimeoutNever(j) ==
  /\ LoopFree
  /\ job[j] = "waiting"
  /\ future[j] = "pending"
  /\ UNCHANGED vars

\* (fault) The worker that timed out is offered the next job.
TimeoutReturnsWorker(j) ==
  /\ LoopFree
  /\ job[j] = "waiting"
  /\ future[j] = "pending"
  /\ conn[assignee[j]] # NoSock
  /\ Settle(j, "fallback")
  /\ status' = [status EXCEPT ![assignee[j]] = "active"]
  /\ idle' = idle \cup {assignee[j]}
  /\ job' = [job EXCEPT ![j] = "done"]
  /\ UNCHANGED <<sockVars, wireVars, assignee, via, rest>>

Timeout(j) ==
  /\ LoopFree
  /\ job[j] = "waiting"
  /\ future[j] = "pending"
  /\ conn[assignee[j]] # NoSock
  /\ Settle(j, "fallback")
  /\ status' = [status EXCEPT ![assignee[j]] = "quarantined"]
  /\ job' = [job EXCEPT ![j] = "done"]
  /\ UNCHANGED <<idle, sockVars, wireVars, assignee, via, rest>>

-----------------------------------------------------------------------------
(***************************************************************************)
(* The REST operations: read the row and check, commit, update the pool.   *)
(* A request the checks turn away changes nothing and is left out.         *)
(***************************************************************************)
\* (fault) A status outside the enumeration.
TargetMisspelt(kind) ==
  CASE kind = "deactivate" -> "inactive"
    [] kind = "remove"     -> "removed"
    [] OTHER               -> "active"

Target(kind) ==
  CASE kind = "deactivate" -> "deactivated"
    [] kind = "remove"     -> "removed"
    [] OTHER               -> "active"

Admitted(kind, w, admin) ==
  CASE kind = "activate"   -> status[w] = "deactivated"
    [] kind = "deactivate" -> admin \/ status[w] # "removed"
    [] kind = "remove"     -> TRUE
    [] kind = "register"   -> status[w] # "removed"

RestLoad(t, kind, w, admin) ==
  /\ rest[t] = NoRequest
  /\ Admitted(kind, w, admin)
  /\ rest' = [rest EXCEPT ![t] = [at |-> "loaded", kind |-> kind, worker |-> w,
                                  loaded |-> status[w]]]
  /\ UNCHANGED <<poolVars, sockVars, wireVars, jobVars>>

\* register_worker_node touches no pool and is over with its commit.
RestCommit(t) ==
  LET r == rest[t] IN
  /\ r.at = "loaded"
  /\ status' = [status EXCEPT ![r.worker] = Flush(r.loaded, Target(r.kind), @)]
  /\ rest' = [rest EXCEPT ![t] = IF r.kind = "register" THEN NoRequest
                                 ELSE [r EXCEPT !.at = "committed"]]
  /\ UNCHANGED <<idle, busy, sockVars, wireVars, jobVars>>

RestPool(t) ==
  LET r == rest[t] IN
  /\ r.at = "committed"
  /\ idle' = IF r.kind = "activate" THEN idle \cup {r.worker}
                                    ELSE idle \ {r.worker}
  /\ rest' = [rest EXCEPT ![t] = NoRequest]
  /\ UNCHANGED <<status, busy, sockVars, wireVars, jobVars>>

-----------------------------------------------------------------------------
\* Every job has been settled and every socket is gone: the bounds of the
\* instance are used up.
Exhausted ==
  /\ \A j \in Jobs : job[j] = "done"
  /\ \A s \in Socks : sock[s] \in {"unused", "closed"}
  /\ UNCHANGED vars

HandlerSection(s) == JoinPools(s) \/ Resume(s) \/ ReturnToPool(s) \/ CommitOffline(s)
HandlerEvent(s) ==
  \/ AcceptFails(s) \/ Accepted(s)
  \/ RecvResult(s) \/ RecvDataSourceError(s) \/ RecvError(s) \/ Drop(s)
Client(s) ==
  \/ Handshake(s) \/ PeerDrop(s) \/ Heartbeat(s)
  \/ \E type \in {"result", "data_error", "error"} : ClientAnswer(s, type)

DispatchStart(j) ==
  \/ NoIdleWorker(j)
  \/ \E w \in Workers : StaleIdleEntry(j, w) \/ SkipInactive(j, w) \/ Claim(j, w)
DispatchSection(j) == CommitBusy(j) \/ ResetWorker(j) \/ RepoolWorker(j)
DispatchEvent(j) ==
  \/ SendJob(j) \/ SendFails(j)
  \/ Answered(j) \/ WorkerGone(j) \/ Timeout(j)

Rest(t) ==
  \/ \E kind \in RestKinds, w \in Workers, admin \in BOOLEAN :
       RestLoad(t, kind, w, admin)
  \/ RestCommit(t)
  \/ RestPool(t)

Next ==
  \/ \E s \in Socks : HandlerSection(s) \/ HandlerEvent(s) \/ Client(s)
  \/ \E j \in Jobs : DispatchStart(j) \/ DispatchSection(j) \/ DispatchEvent(j)
  \/ \E t \in Threads : Rest(t)
  \/ Exhausted

Spec == Init /\ [][Next]_vars

(***************************************************************************)
(* The event loop finishes the section it is in and resumes every          *)
(* coroutine whose wait is over: the poll of a job wakes every second and  *)
(* gives up after 90.  Clients, REST users and new jobs owe nothing.       *)
(***************************************************************************)
Fairness ==
  /\ \A s \in Socks : WF_vars(HandlerSection(s)) /\ WF_vars(HandlerEvent(s))
  /\ \A j \in Jobs : WF_vars(DispatchSection(j)) /\ WF_vars(DispatchEvent(j))

FairSpec == Spec /\ Fairness

-----------------------------------------------------------------------------
(***************************************************************************)
(* Properties that hold whatever users, clients and the network do.        *)
(***************************************************************************)

\* active_worker_connections never names a socket whose handler has ended, so a
\* dispatch never sends a job where nobody can answer it and the poll for a
\* vanished worker (workers.py:473) can trust the entry.
ConnectionsAreServed ==
  \A w \in Workers : conn[w] # NoSock =>
    /\ WorkerOf[conn[w]] = w
    /\ sock[conn[w]] \in {"joining", "open", "resuming", "pooling"}

\* Every worker in worker:pool:busy is held by a dispatch that has not returned:
\* no exit of a dispatch or of a handler leaks an entry of the pool.
BusyPoolTracksJobs ==
  \A w \in busy : \E j \in Jobs : Owed(j) /\ assignee[j] = w

\* pending_results holds exactly the futures somebody waits for: a dispatch that
\* waits can still be answered or has its answer, and no entry outlives it.
PendingTracksDispatches ==
  \A j \in Jobs :
    /\ j \in pending => job[j] \in {"sending", "waiting"}
    /\ job[j] = "waiting" => (j \in pending <=> future[j] = "pending")

\* A job is reported completed only when a client computed a result for that
\* very job, through duplicates, late answers, reconnects and REST changes.
CompletedMeansServed ==
  \A j \in Jobs : (future[j] = "result" \/ outcome[j] = "completed") => j \in served

\* What travels on a socket belongs to a job that was sent on that very socket,
\* by a dispatch that claimed the socket's worker; a result was computed.  So an
\* answer can never be credited to another worker or to a later job.
SentBy(j, s) ==
  via[j] = s /\ assignee[j] = WorkerOf[s] /\ job[j] \in {"waiting", "done"}

AnswersAreRouted ==
  \A s \in Socks :
    /\ \A j \in Range(toClient[s]) : SentBy(j, s)
    /\ \A m \in Range(inbox[s]) :
         SentBy(m.job, s) /\ (m.type = "result" => m.job \in served)

\* What is written down of a dispatch, in the pool and in pending_results, and
\* what is told of a job, on the wire and to the caller.
BooksAgree == BusyPoolTracksJobs /\ PendingTracksDispatches
AnswersAreGenuine == CompletedMeansServed /\ AnswersAreRouted

\* What the caller of a dispatch knows of a job.
BrokerPhase ==
  [j \in Jobs |-> CASE outcome[j] # "none" -> outcome[j]
                    [] job[j] = "new"      -> "new"
                    [] OTHER               -> "offered"]

Broker == INSTANCE JobBroker WITH phase <- BrokerPhase, answered <- served

\* The dispatcher implements the promise JobBroker states to its callers: a
\* verdict is final, "completed" needs a computed answer, and a job that was
\* offered gets a verdict whatever happens to the worker.
ImplementsBroker == Broker!BrokerFairSpec

(***************************************************************************)
(* Properties of a pool nobody operates on by REST, whose workers come     *)
(* back only after the server has noticed that they were gone.             *)
(***************************************************************************)

\* A live socket never carries two jobs at once: a worker runs one simulation
\* at a time, and the 90 s limit of a job never pays for another job's time.
OneJobPerSocket ==
  /\ \A s \in Socks : Len(toClient[s]) <= 1
  /\ \A i, j \in Jobs : i # j /\ Owed(i) /\ Owed(j) => via[i] # via[j]

\* Whatever the idle pool offers can take a job at once: it is connected, its
\* row is active and it works for nobody.
IdleIsReady ==
  \A w \in idle :
    /\ conn[w] # NoSock
    /\ status[w] = "active"
    /\ \A j \in Jobs : Owed(j) => assignee[j] # w

\* No connected worker is lost from the pool: it is offered, or quarantined, or
\* working for a dispatch that will give it back.
NoWorkerLost ==
  LoopFree => \A w \in Workers : conn[w] # NoSock =>
    \/ w \in idle
    \/ status[w] = "quarantined"
    \/ \E j \in Jobs : Owed(j) /\ assignee[j] = w

\* A row that says busy belongs to a worker some dispatch has given a job.
BusyIsWorking ==
  LoopFree => \A w \in Workers : status[w] = "busy" =>
    \E j \in Jobs : Owed(j) /\ assignee[j] = w

PoolsAreExact == OneJobPerSocket /\ IdleIsReady /\ NoWorkerLost /\ BusyIsWorking

-----------------------------------------------------------------------------
(***************************************************************************)
(* What the comments on WorkerStatus (enums/worker_status.py) say of a     *)
(* status, and the code does not keep.                                     *)
(***************************************************************************)

\* "admin revoked / blacklisted node": removal is final.
RemovedStaysRemoved ==
  [][\A w \in Workers : status[w] = "removed" => status'[w] = "removed"]_vars
=============================================================================
