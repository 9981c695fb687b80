------------------------ MODULE WorkerDispatchProofs ------------------------
(* Proofs about WorkerDispatch, for every set of workers, sockets and jobs. *)
EXTENDS MCDispatchPromise, SequenceTheorems, TLAPS

LEMMA TypeInit == Init => TypeOK
<1> SUFFICES ASSUME Init PROVE TypeOK
  OBVIOUS
<1>1. (CHOOSE w \in Workers : TRUE) \in Workers
  BY WorkersAssumption
<1>2. /\ toClient \in [Socks -> Seq(Jobs)]
      /\ inbox \in [Socks -> Seq(Message)]
  BY DEF Init
<1>3. QED
  BY <1>1, <1>2 DEF Init, TypeOK, Status, SockPoints, JobPoints

(* What the next message of a socket is, and what is left when it is taken. *)
LEMMA NextMessage ==
  ASSUME TypeOK, NEW s \in Socks, inbox[s] # <<>>
  PROVE  /\ Head(inbox[s]) \in Message
         /\ Head(inbox[s]).job \in Jobs
         /\ Tail(inbox[s]) \in Seq(Message)
<1>1. inbox[s] \in Seq(Message)
  BY DEF TypeOK
<1>2. Head(inbox[s]) \in Message /\ Tail(inbox[s]) \in Seq(Message)
  BY <1>1
<1>3. QED
  BY <1>2 DEF Message

LEMMA TypeStep == TypeOK /\ [Next]_vars => TypeOK'
<1> SUFFICES ASSUME TypeOK, [Next]_vars PROVE TypeOK'
  OBVIOUS
<1> USE WorkerOfAssumption
<1>1. ASSUME NEW s \in Socks, Handshake(s) PROVE TypeOK'
  <2>1. CASE status[WorkerOf[s]] = "quarantined"
    <3>1. status' = [status EXCEPT ![WorkerOf[s]] = "active"] /\ seen' = seen
      BY <1>1, <2>1 DEF Handshake
    <3>2. status' \in [Workers -> Status] /\ seen' \in [Socks -> Status \cup {"expired"}]
      BY <3>1 DEF TypeOK, Status
    <3>3. QED
      BY <1>1, <3>2 DEF Handshake, TypeOK, SockPoints, poolVars, sockVars, wireVars, jobVars
  <2>2. CASE status[WorkerOf[s]] # "quarantined"
    <3>1. seen' = [seen EXCEPT ![s] = status[WorkerOf[s]]] /\ status' = status
      BY <1>1, <2>2 DEF Handshake
    <3>2. status' \in [Workers -> Status] /\ seen' \in [Socks -> Status \cup {"expired"}]
      BY <3>1 DEF TypeOK
    <3>3. QED
      BY <1>1, <3>2 DEF Handshake, TypeOK, SockPoints, poolVars, sockVars, wireVars, jobVars
  <2>3. QED
    BY <2>1, <2>2
<1>2. ASSUME NEW s \in Socks, JoinPools(s) PROVE TypeOK'
  BY <1>2 DEF JoinPools, TypeOK, Status, SockPoints, JobPoints, poolVars, sockVars, wireVars, jobVars
<1>3. ASSUME NEW s \in Socks, Resume(s) PROVE TypeOK'
  BY <1>3 DEF Resume, Flush, TypeOK, Status, SockPoints, JobPoints, poolVars, sockVars, wireVars, jobVars
<1>4. ASSUME NEW s \in Socks, ReturnToPool(s) PROVE TypeOK'
  BY <1>4 DEF ReturnToPool, TypeOK, Status, SockPoints, JobPoints, poolVars, sockVars, wireVars, jobVars
<1>5. ASSUME NEW s \in Socks, CommitOffline(s) PROVE TypeOK'
  BY <1>5 DEF CommitOffline, Flush, TypeOK, Status, SockPoints, JobPoints, poolVars, sockVars, wireVars, jobVars
<1>6. ASSUME NEW s \in Socks, AcceptFails(s) PROVE TypeOK'
  BY <1>6 DEF AcceptFails, TypeOK, Status, SockPoints, JobPoints, poolVars, sockVars, wireVars, jobVars
<1>7. ASSUME NEW s \in Socks, Accepted(s) PROVE TypeOK'
  BY <1>7 DEF Accepted, Flush, TypeOK, Status, SockPoints, JobPoints, poolVars, sockVars, wireVars, jobVars
<1>8. ASSUME NEW s \in Socks, Heartbeat(s) PROVE TypeOK'
  BY <1>8 DEF Heartbeat, TypeOK, Status, SockPoints, JobPoints, poolVars, sockVars, wireVars, jobVars
<1>9. ASSUME NEW s \in Socks, RecvResult(s) PROVE TypeOK'
  BY <1>9, NextMessage DEF RecvResult, RecvAnswer, Receive, TypeOK, Status, SockPoints, JobPoints, poolVars, sockVars, wireVars, jobVars
<1>10. ASSUME NEW s \in Socks, RecvDataSourceError(s) PROVE TypeOK'
  BY <1>10, NextMessage DEF RecvDataSourceError, RecvAnswer, Receive, TypeOK, Status, SockPoints, JobPoints, poolVars, sockVars, wireVars, jobVars
<1>11. ASSUME NEW s \in Socks, RecvError(s) PROVE TypeOK'
  BY <1>11, NextMessage DEF RecvError, Receive, Flush, Loaded, TypeOK, Status, SockPoints, JobPoints, poolVars, sockVars, wireVars, jobVars
<1>12. ASSUME NEW s \in Socks, Drop(s) PROVE TypeOK'
  <2>1. Loaded(s) \in Status
    BY DEF TypeOK, Loaded, Status
  <2>2. seen' \in [Socks -> Status \cup {"expired"}] /\ sock' \in [Socks -> SockPoints]
    BY <1>12, <2>1 DEF Drop, TypeOK, SockPoints
  <2>3. /\ conn' \in [Workers -> Socks \cup {NoSock}]
        /\ idle' \subseteq Workers /\ busy' \subseteq Workers
    BY <1>12 DEF Drop, TypeOK
  <2>4. QED
    BY <1>12, <2>2, <2>3 DEF Drop, TypeOK, wireVars, jobVars
<1>13. ASSUME NEW s \in Socks, PeerDrop(s) PROVE TypeOK'
  <2>1. PICK k \in 0..Len(inbox[s]) : inbox' = [inbox EXCEPT ![s] = SubSeq(@, 1, k)]
    BY <1>13 DEF PeerDrop
  <2>2. SubSeq(inbox[s], 1, k) \in Seq(Message)
    BY <2>1 DEF TypeOK
  <2>3. inbox' \in [Socks -> Seq(Message)]
    BY <2>1, <2>2 DEF TypeOK
  <2>4. toClient' \in [Socks -> Seq(Jobs)]
    BY <1>13 DEF PeerDrop, TypeOK
  <2>5. QED
    BY <1>13, <2>3, <2>4 DEF PeerDrop, TypeOK, Status, SockPoints, JobPoints, poolVars, sockVars, wireVars, jobVars
<1>14. ASSUME NEW s \in Socks, NEW type \in {"result", "data_error", "error"},
             ClientAnswer(s, type)
      PROVE  TypeOK'
  <2> DEFINE j == Head(toClient[s])
  <2>1. j \in Jobs /\ Tail(toClient[s]) \in Seq(Jobs)
    BY <1>14 DEF ClientAnswer, TypeOK
  <2>2. [type |-> type, job |-> j] \in Message
    BY <2>1 DEF Message
  <2>3. inbox' \in [Socks -> Seq(Message)]
    BY <1>14, <2>2 DEF ClientAnswer, TypeOK
  <2>4. toClient' \in [Socks -> Seq(Jobs)] /\ served' \subseteq Jobs
    BY <1>14, <2>1 DEF ClientAnswer, TypeOK
  <2>5. QED
    BY <1>14, <2>3, <2>4 DEF ClientAnswer, TypeOK, Status, SockPoints, JobPoints, poolVars, sockVars, wireVars, jobVars
<1>15. ASSUME NEW j \in Jobs, NoIdleWorker(j) PROVE TypeOK'
  BY <1>15 DEF NoIdleWorker, FallBackAtOnce, TypeOK, Status, SockPoints, JobPoints, poolVars, sockVars, wireVars, jobVars
<1>16. ASSUME NEW j \in Jobs, CommitBusy(j) PROVE TypeOK'
  BY <1>16 DEF CommitBusy, Flush, TypeOK, Status, SockPoints, JobPoints, poolVars, sockVars, wireVars, jobVars
<1>17. ASSUME NEW j \in Jobs, ResetWorker(j) PROVE TypeOK'
  BY <1>17 DEF ResetWorker, Flush, TypeOK, Status, SockPoints, JobPoints, poolVars, sockVars, wireVars, jobVars
<1>18. ASSUME NEW j \in Jobs, RepoolWorker(j) PROVE TypeOK'
  BY <1>18 DEF RepoolWorker, TypeOK, Status, SockPoints, JobPoints, poolVars, sockVars, wireVars, jobVars
<1>19. ASSUME NEW j \in Jobs, SendFails(j) PROVE TypeOK'
  BY <1>19 DEF SendFails, Settle, TypeOK, Status, SockPoints, JobPoints, poolVars, sockVars, wireVars, jobVars
<1>20. ASSUME NEW j \in Jobs, Answered(j) PROVE TypeOK'
  BY <1>20 DEF Answered, Settle, Verdict, TypeOK, Status, SockPoints, JobPoints, poolVars, sockVars, wireVars, jobVars
<1>21. ASSUME NEW j \in Jobs, WorkerGone(j) PROVE TypeOK'
  BY <1>21 DEF WorkerGone, Settle, TypeOK, Status, SockPoints, JobPoints, poolVars, sockVars, wireVars, jobVars
<1>22. ASSUME NEW j \in Jobs, Timeout(j) PROVE TypeOK'
  BY <1>22 DEF Timeout, Settle, TypeOK, Status, SockPoints, JobPoints, poolVars, sockVars, wireVars, jobVars
<1>23. ASSUME NEW j \in Jobs, NEW w \in Workers, StaleIdleEntry(j, w) PROVE TypeOK'
  BY <1>23 DEF StaleIdleEntry, FallBackAtOnce, TypeOK, Status, SockPoints, JobPoints, poolVars, sockVars, wireVars, jobVars
<1>24. ASSUME NEW j \in Jobs, NEW w \in Workers, SkipInactive(j, w) PROVE TypeOK'
  BY <1>24 DEF SkipInactive, FallBackAtOnce, TypeOK, Status, SockPoints, JobPoints, poolVars, sockVars, wireVars, jobVars
<1>25. ASSUME NEW j \in Jobs, NEW w \in Workers, Claim(j, w) PROVE TypeOK'
  BY <1>25 DEF Claim, TypeOK, Status, SockPoints, JobPoints, poolVars, sockVars, wireVars, jobVars
<1>26. ASSUME NEW t \in Threads, NEW kind \in RestKinds, NEW w \in Workers,
             NEW admin \in BOOLEAN, RestLoad(t, kind, w, admin)
      PROVE  TypeOK'
  BY <1>26 DEF RestLoad, Request, NoRequest, TypeOK, Status, SockPoints, JobPoints, poolVars, sockVars, wireVars, jobVars
<1>27. ASSUME NEW j \in Jobs, SendJob(j) PROVE TypeOK'
  <2>1. ASSUME NEW s \in Socks PROVE Append(toClient[s], j) \in Seq(Jobs)
    BY DEF TypeOK
  <2>2. toClient' \in [Socks -> Seq(Jobs)]
    <3>1. CASE peer[via[j]] = "up"
      BY <1>27, <2>1, <3>1 DEF SendJob, TypeOK
    <3>2. CASE peer[via[j]] # "up"
      BY <1>27, <3>2 DEF SendJob, TypeOK
    <3>3. QED
      BY <3>1, <3>2
  <2>3. QED
    BY <1>27, <2>2 DEF SendJob, TypeOK, JobPoints, poolVars, sockVars, wireVars, jobVars
<1>28. ASSUME NEW t \in Threads, RestCommit(t) PROVE TypeOK'
  <2>1. rest[t] \in Request
    BY <1>28 DEF RestCommit, TypeOK, NoRequest
  <2>2. status' \in [Workers -> Status]
    BY <1>28, <2>1 DEF RestCommit, Flush, Target, TypeOK, Status, Request
  <2>3. [rest[t] EXCEPT !.at = "committed"] \in Request
    BY <2>1 DEF Request
  <2>4. rest' \in [Threads -> Request \cup {NoRequest}]
    BY <1>28, <2>3 DEF RestCommit, TypeOK
  <2>5. QED
    BY <1>28, <2>2, <2>4 DEF RestCommit, TypeOK, poolVars, sockVars, wireVars, jobVars
<1>29. ASSUME NEW t \in Threads, RestPool(t) PROVE TypeOK'
  <2>1. rest[t] \in Request
    BY <1>29 DEF RestPool, TypeOK, NoRequest
  <2>2. idle' \subseteq Workers
    BY <1>29, <2>1 DEF RestPool, TypeOK, Request
  <2>3. rest' \in [Threads -> Request \cup {NoRequest}]
    BY <1>29 DEF RestPool, TypeOK
  <2>4. QED
    BY <1>29, <2>2, <2>3 DEF RestPool, TypeOK, poolVars, sockVars, wireVars, jobVars
<1>30. CASE UNCHANGED vars
  BY <1>30 DEF vars, TypeOK, Status, SockPoints, JobPoints, poolVars, sockVars, wireVars, jobVars
<1>31. QED
  BY <1>1, <1>2, <1>3, <1>4, <1>5, <1>6, <1>7, <1>8, <1>9, <1>10, <1>11, <1>12, <1>13, <1>14, <1>15, <1>16, <1>17, <1>18, <1>19, <1>20, <1>21, <1>22, <1>23, <1>24, <1>25, <1>26, <1>27, <1>28, <1>29, <1>30
  DEF Next, HandlerSection, HandlerEvent, Client, DispatchStart, DispatchSection,
      DispatchEvent, Rest, Exhausted

-----------------------------------------------------------------------------
(* What each group of actions leaves alone. *)

LEMMA SectionFrame ==
  ASSUME NEW s \in Socks, HandlerSection(s)
  PROVE  UNCHANGED <<wireVars, jobVars, rest>>
  BY DEF HandlerSection, JoinPools, Resume, ReturnToPool, CommitOffline

LEMMA EventFrame ==
  ASSUME NEW s \in Socks, HandlerEvent(s)
  PROVE  UNCHANGED <<toClient, served, job, assignee, via, outcome, rest>>
  BY DEF HandlerEvent, AcceptFails, Accepted, RecvResult, RecvDataSourceError,
         RecvAnswer, Receive, RecvError, Drop, wireVars, jobVars

LEMMA ClientFrame ==
  ASSUME NEW s \in Socks, Client(s)
  PROVE  UNCHANGED <<idle, busy, conn, jobVars, rest>>
  BY DEF Client, Handshake, PeerDrop, Heartbeat, ClientAnswer, poolVars, sockVars

LEMMA DispatchFrame ==
  ASSUME NEW j \in Jobs, DispatchStart(j) \/ DispatchSection(j) \/ DispatchEvent(j)
  PROVE  UNCHANGED <<sockVars, inbox, served, rest>>
  BY DEF DispatchStart, DispatchSection, DispatchEvent, NoIdleWorker, StaleIdleEntry,
         SkipInactive, FallBackAtOnce, Claim, CommitBusy, SendJob, SendFails,
         ResetWorker, RepoolWorker, Answered, WorkerGone, Timeout, wireVars

LEMMA RestFrame ==
  ASSUME NEW t \in Threads, Rest(t)
  PROVE  UNCHANGED <<busy, sockVars, wireVars, jobVars>>
  BY DEF Rest, RestLoad, RestCommit, RestPool, poolVars

(* The steps of Next by group. *)
LEMMA StepGroups ==
  ASSUME [Next]_vars
  PROVE  \/ \E s \in Socks : HandlerSection(s)
         \/ \E s \in Socks : HandlerEvent(s)
         \/ \E s \in Socks : Client(s)
         \/ \E j \in Jobs : DispatchStart(j) \/ DispatchSection(j) \/ DispatchEvent(j)
         \/ \E t \in Threads : Rest(t)
         \/ UNCHANGED vars
  BY DEF Next, Exhausted

-----------------------------------------------------------------------------
LEMMA ConnectionsStep ==
  TypeOK /\ ConnectionsAreServed /\ [Next]_vars => ConnectionsAreServed'
<1> SUFFICES ASSUME TypeOK, ConnectionsAreServed, [Next]_vars
             PROVE  ConnectionsAreServed'
  OBVIOUS
<1> DEFINE Listening == {"joining", "open", "resuming", "pooling"}
<1> USE WorkerOfAssumption, NoSockAssumption
<1>1. conn \in [Workers -> Socks \cup {NoSock}] /\ sock \in [Socks -> SockPoints]
  BY DEF TypeOK
<1>2. ASSUME NEW s \in Socks, UNCHANGED conn, NEW p \in SockPoints,
             sock' = [sock EXCEPT ![s] = p], sock[s] \in Listening => p \in Listening
      PROVE  ConnectionsAreServed'
  BY <1>1, <1>2 DEF ConnectionsAreServed
<1>3. ASSUME NEW s \in Socks, Accepted(s) PROVE ConnectionsAreServed'
  BY <1>1, <1>3 DEF ConnectionsAreServed, Accepted
<1>4. ASSUME NEW s \in Socks, Drop(s) PROVE ConnectionsAreServed'
  <2>1. PICK p \in SockPoints : sock' = [sock EXCEPT ![s] = p]
    BY <1>4 DEF Drop, SockPoints
  <2>2. conn' = [conn EXCEPT ![WorkerOf[s]] = NoSock]
    BY <1>4 DEF Drop
  <2>3. QED
    BY <1>1, <2>1, <2>2 DEF ConnectionsAreServed
<1>5. ASSUME NEW s \in Socks, HandlerSection(s) PROVE ConnectionsAreServed'
  BY <1>2, <1>5 DEF HandlerSection, JoinPools, Resume, ReturnToPool, CommitOffline,
                    SockPoints
<1>6. ASSUME NEW s \in Socks, RecvAnswer(s, "result", "result")
                              \/ RecvAnswer(s, "data_error", "error")
      PROVE  ConnectionsAreServed'
  BY <1>1, <1>2, <1>6 DEF RecvAnswer, Receive, SockPoints
<1>7. ASSUME NEW s \in Socks, AcceptFails(s) \/ Handshake(s)
      PROVE  ConnectionsAreServed'
  BY <1>2, <1>7 DEF AcceptFails, Handshake, SockPoints
<1>8. CASE UNCHANGED <<conn, sock>>
  BY <1>8 DEF ConnectionsAreServed
<1>9. ASSUME NEW s \in Socks, HandlerEvent(s) PROVE ConnectionsAreServed'
  BY <1>3, <1>4, <1>6, <1>7, <1>8, <1>9
  DEF HandlerEvent, RecvResult, RecvDataSourceError, RecvError
<1>10. ASSUME NEW s \in Socks, Client(s) PROVE ConnectionsAreServed'
  BY <1>7, <1>8, <1>10 DEF Client, PeerDrop, Heartbeat, ClientAnswer, sockVars
<1>11. QED
  BY <1>5, <1>8, <1>9, <1>10, StepGroups, DispatchFrame, RestFrame DEF sockVars, vars

-----------------------------------------------------------------------------
(* pending_results, the futures and the dispatches that wait for them. *)
PendingInv ==
  \A j \in Jobs :
    /\ j \in pending <=> job[j] \in {"sending", "waiting"} /\ future[j] = "pending"
    /\ job[j] \in {"new", "claimed"} => future[j] = "none"
    /\ outcome[j] = "none" <=> job[j] \in {"new", "claimed", "sending", "waiting"}

LEMMA PendingStep == TypeOK /\ PendingInv /\ [Next]_vars => PendingInv'
<1> SUFFICES ASSUME TypeOK, PendingInv, [Next]_vars PROVE PendingInv'
  OBVIOUS
<1>0. /\ job \in [Jobs -> JobPoints] /\ pending \subseteq Jobs
      /\ future \in [Jobs -> {"none", "pending", "result", "error"}]
      /\ outcome \in [Jobs -> {"none", "completed", "fallback"}]
  BY DEF TypeOK
<1>1. ASSUME NEW s \in Socks, HandlerEvent(s) PROVE PendingInv'
  <2>1. CASE AcceptFails(s) \/ Accepted(s) \/ Drop(s)
    BY <2>1 DEF PendingInv, AcceptFails, Accepted, Drop, jobVars
  <2>2. ASSUME NEW value \in {"result", "error"}, NEW type, Receive(s, type, value),
               UNCHANGED <<job, outcome>>
        PROVE  PendingInv'
    BY <1>0, <2>2, NextMessage DEF PendingInv, Receive
  <2>3. CASE RecvResult(s) \/ RecvDataSourceError(s) \/ RecvError(s)
    BY <2>2, <2>3 DEF RecvResult, RecvDataSourceError, RecvAnswer, RecvError
  <2>4. QED
    BY <1>1, <2>1, <2>3 DEF HandlerEvent
<1>2. ASSUME NEW j \in Jobs, DispatchStart(j) PROVE PendingInv'
  <2>1. ASSUME FallBackAtOnce(j) PROVE PendingInv'
    BY <1>0, <2>1 DEF PendingInv, FallBackAtOnce
  <2>2. ASSUME NEW w \in Workers, Claim(j, w) PROVE PendingInv'
    BY <1>0, <2>2 DEF PendingInv, Claim
  <2>3. QED
    BY <1>2, <2>1, <2>2 DEF DispatchStart, NoIdleWorker, StaleIdleEntry, SkipInactive
<1>3. ASSUME NEW j \in Jobs, DispatchSection(j) PROVE PendingInv'
  <2>1. CASE CommitBusy(j)
    BY <1>0, <2>1 DEF PendingInv, CommitBusy
  <2>2. ASSUME job[j] \in {"resetting", "repooling"}, NEW p \in {"repooling", "done"},
               job' = [job EXCEPT ![j] = p], UNCHANGED <<future, pending, outcome>>
        PROVE  PendingInv'
    BY <1>0, <2>2 DEF PendingInv
  <2>3. CASE ResetWorker(j)
    BY <2>2, <2>3 DEF ResetWorker
  <2>4. CASE RepoolWorker(j)
    BY <2>2, <2>4 DEF RepoolWorker
  <2>5. QED
    BY <1>3, <2>1, <2>3, <2>4 DEF DispatchSection
<1>4. ASSUME NEW j \in Jobs, DispatchEvent(j) PROVE PendingInv'
  <2>1. CASE SendJob(j)
    BY <1>0, <2>1 DEF PendingInv, SendJob
  <2>2. ASSUME NEW verdict \in {"completed", "fallback"}, Settle(j, verdict),
               job[j] \in {"sending", "waiting"}, NEW p \in {"resetting", "done"},
               job' = [job EXCEPT ![j] = p]
        PROVE  PendingInv'
    BY <1>0, <2>2 DEF PendingInv, Settle
  <2>3. CASE SendFails(j) \/ Answered(j) \/ WorkerGone(j) \/ Timeout(j)
    BY <2>2, <2>3 DEF SendFails, Answered, WorkerGone, Timeout, Verdict
  <2>4. QED
    BY <1>4, <2>1, <2>3 DEF DispatchEvent
<1>5. CASE UNCHANGED jobVars
  BY <1>5 DEF PendingInv, jobVars
<1>6. QED
  BY <1>1, <1>2, <1>3, <1>4, <1>5, StepGroups, SectionFrame, ClientFrame, RestFrame
  DEF vars
-----------------------------------------------------------------------------
(* The elements of the sequences that carry jobs and answers. *)
LEMMA TailRange ==
  ASSUME NEW S, NEW q \in Seq(S), q # <<>>
  PROVE  Head(q) \in Range(q) /\ Range(Tail(q)) \subseteq Range(q)
<1>1. Len(q) \in Nat \ {0} /\ DOMAIN q = 1..Len(q) /\ Head(q) = q[1]
  OBVIOUS
<1>2. DOMAIN Tail(q) = 1..(Len(q) - 1)
  BY <1>1
<1>3. \A i \in DOMAIN Tail(q) : Tail(q)[i] = q[i + 1] /\ i + 1 \in DOMAIN q
  BY <1>1, <1>2
<1>4. QED
  BY <1>1, <1>2, <1>3 DEF Range

LEMMA AppendRange ==
  ASSUME NEW S, NEW q \in Seq(S), NEW e \in S
  PROVE  Range(Append(q, e)) = Range(q) \cup {e}
<1>1. DOMAIN q = 1..Len(q) /\ Len(q) \in Nat
  OBVIOUS
<1>2. DOMAIN Append(q, e) = 1..(Len(q) + 1)
  BY <1>1
<1>3. /\ \A i \in DOMAIN q : Append(q, e)[i] = q[i] /\ i \in DOMAIN Append(q, e)
      /\ Append(q, e)[Len(q) + 1] = e
      /\ Len(q) + 1 \in DOMAIN Append(q, e)
  BY <1>1, <1>2
<1>4. \A i \in DOMAIN Append(q, e) : i \in DOMAIN q \/ i = Len(q) + 1
  BY <1>1, <1>2
<1>5. QED
  BY <1>3, <1>4 DEF Range

LEMMA PrefixRange ==
  ASSUME NEW S, NEW q \in Seq(S), NEW n \in 0..Len(q)
  PROVE  Range(SubSeq(q, 1, n)) \subseteq Range(q)
<1>1. DOMAIN SubSeq(q, 1, n) = 1..n /\ 1..n \subseteq DOMAIN q
  OBVIOUS
<1>2. \A i \in 1..n : SubSeq(q, 1, n)[i] = q[i]
  OBVIOUS
<1>3. QED
  BY <1>1, <1>2 DEF Range

LEMMA RangeType ==
  ASSUME NEW S, NEW q \in Seq(S)
  PROVE  Range(q) \subseteq S
  BY DEF Range

-----------------------------------------------------------------------------
(* The socket a dispatch took belongs to the worker it claimed. *)
RouteInv == \A j \in Jobs : via[j] \in Socks => assignee[j] = WorkerOf[via[j]]

LEMMA RouteStep ==
  TypeOK /\ ConnectionsAreServed /\ RouteInv /\ [Next]_vars => RouteInv'
<1> SUFFICES ASSUME TypeOK, ConnectionsAreServed, RouteInv, [Next]_vars
             PROVE  RouteInv'
  OBVIOUS
<1>1. CASE UNCHANGED <<assignee, via>>
  BY <1>1 DEF RouteInv
<1>2. ASSUME NEW j \in Jobs, NEW w \in Workers, Claim(j, w) PROVE RouteInv'
  <2>1. WorkerOf[conn[w]] = w
    BY <1>2 DEF Claim, ConnectionsAreServed
  <2>2. QED
    BY <1>2, <2>1 DEF RouteInv, Claim, TypeOK
<1>3. ASSUME NEW j \in Jobs, DispatchStart(j) PROVE RouteInv'
  BY <1>1, <1>2, <1>3 DEF DispatchStart, NoIdleWorker, StaleIdleEntry, SkipInactive,
                          FallBackAtOnce
<1>4. ASSUME NEW j \in Jobs, DispatchSection(j) \/ DispatchEvent(j) PROVE RouteInv'
  BY <1>1, <1>4 DEF DispatchSection, DispatchEvent, CommitBusy, ResetWorker,
                    RepoolWorker, SendJob, SendFails, Answered, WorkerGone, Timeout
<1>5. QED
  BY <1>1, <1>3, <1>4, StepGroups, SectionFrame, EventFrame, ClientFrame, RestFrame
  DEF jobVars, vars

(* A job that was sent on a socket stays the job of that socket. *)
LEMMA SentByStable ==
  ASSUME TypeOK, [Next]_vars, NEW j \in Jobs, NEW s \in Socks, SentBy(j, s)
  PROVE  SentBy(j, s)'
<1>1. job[j] \in {"waiting", "done"}
  BY DEF SentBy
<1>2. CASE UNCHANGED <<job, assignee, via>>
  BY <1>2 DEF SentBy
<1>3. ASSUME NEW i \in Jobs, DispatchStart(i) PROVE SentBy(j, s)'
  BY <1>1, <1>3 DEF SentBy, TypeOK, DispatchStart, NoIdleWorker, StaleIdleEntry,
                    SkipInactive, FallBackAtOnce, Claim
<1>4. ASSUME NEW i \in Jobs, DispatchSection(i) PROVE SentBy(j, s)'
  BY <1>1, <1>4 DEF SentBy, TypeOK, DispatchSection, CommitBusy, ResetWorker,
                    RepoolWorker
<1>5. ASSUME NEW i \in Jobs, DispatchEvent(i) PROVE SentBy(j, s)'
  BY <1>1, <1>5 DEF SentBy, TypeOK, DispatchEvent, SendJob, SendFails, Answered,
                    WorkerGone, Timeout
<1>6. QED
  BY <1>2, <1>3, <1>4, <1>5, StepGroups, SectionFrame, EventFrame, ClientFrame,
     RestFrame
  DEF jobVars, vars

(* Nothing new on the wires: what was routed stays routed. *)
LEMMA NothingNew ==
  ASSUME TypeOK, AnswersAreRouted, [Next]_vars, served \subseteq served',
         \A s \in Socks : /\ Range(toClient'[s]) \subseteq Range(toClient[s])
                          /\ Range(inbox'[s]) \subseteq Range(inbox[s])
  PROVE  AnswersAreRouted'
<1> SUFFICES ASSUME NEW s \in Socks
             PROVE  /\ \A j \in Range(toClient'[s]) : SentBy(j, s)'
                    /\ \A m \in Range(inbox'[s]) :
                         SentBy(m.job, s)' /\ (m.type = "result" => m.job \in served')
  BY DEF AnswersAreRouted
<1>1. Range(toClient[s]) \subseteq Jobs /\ Range(inbox[s]) \subseteq Message
  BY RangeType DEF TypeOK
<1>2. \A m \in Range(inbox[s]) : m.job \in Jobs
  BY <1>1 DEF Message
<1>3. QED
  BY <1>1, <1>2, SentByStable DEF AnswersAreRouted

(* The job of an answer that is on its way. *)
LEMMA InboxJobs ==
  ASSUME TypeOK, NEW s \in Socks, NEW m \in Range(inbox[s])
  PROVE  m.job \in Jobs
<1>1. m \in Message
  BY RangeType DEF TypeOK
<1>2. QED
  BY <1>1 DEF Message

LEMMA RoutedStep ==
  TypeOK /\ RouteInv /\ AnswersAreRouted /\ [Next]_vars => AnswersAreRouted'
<1> SUFFICES ASSUME TypeOK, RouteInv, AnswersAreRouted, [Next]_vars
             PROVE  AnswersAreRouted'
  OBVIOUS
<1>1. CASE UNCHANGED wireVars
  BY <1>1, NothingNew DEF wireVars
<1>2. toClient \in [Socks -> Seq(Jobs)] /\ inbox \in [Socks -> Seq(Message)]
  BY DEF TypeOK
<1>3. ASSUME NEW s \in Socks, NEW type, NEW value, Receive(s, type, value),
             UNCHANGED <<toClient, served>>
      PROVE  AnswersAreRouted'
  <2>1. inbox' = [inbox EXCEPT ![s] = Tail(@)] /\ inbox[s] # <<>>
    BY <1>3 DEF Receive
  <2>2. Range(Tail(inbox[s])) \subseteq Range(inbox[s])
    BY <1>2, <2>1, TailRange
  <2>3. QED
    BY <1>2, <1>3, <2>1, <2>2, NothingNew
<1>4. ASSUME NEW s \in Socks, PeerDrop(s) PROVE AnswersAreRouted'
  <2>1. PICK n \in 0..Len(inbox[s]) : inbox' = [inbox EXCEPT ![s] = SubSeq(@, 1, n)]
    BY <1>4 DEF PeerDrop
  <2>2. Range(SubSeq(inbox[s], 1, n)) \subseteq Range(inbox[s])
    BY <1>2, PrefixRange
  <2>3. Range(<<>>) = {}
    BY DEF Range
  <2>4. toClient' = [toClient EXCEPT ![s] = <<>>] /\ served' = served
    BY <1>4 DEF PeerDrop
  <2>5. QED
    BY <1>2, <2>1, <2>2, <2>3, <2>4, NothingNew
<1>5. ASSUME NEW s \in Socks, NEW type \in {"result", "data_error", "error"},
             ClientAnswer(s, type)
      PROVE  AnswersAreRouted'
  <2> DEFINE j == Head(toClient[s])
             m == [type |-> type, job |-> j]
  <2>1. toClient[s] # <<>> /\ toClient' = [toClient EXCEPT ![s] = Tail(@)]
    BY <1>5 DEF ClientAnswer
  <2>2. j \in Range(toClient[s]) /\ Range(Tail(toClient[s])) \subseteq Range(toClient[s])
    BY <1>2, <2>1, TailRange
  <2>3. j \in Jobs /\ SentBy(j, s)
    BY <1>2, <2>2, RangeType DEF AnswersAreRouted
  <2>4. m \in Message /\ m.job = j /\ m.type = type
    BY <2>3 DEF Message
  <2>5. Range(Append(inbox[s], m)) = Range(inbox[s]) \cup {m}
    BY <1>2, <2>4, AppendRange
  <2>6. inbox' = [inbox EXCEPT ![s] = Append(@, m)]
    BY <1>5 DEF ClientAnswer
  <2>7. served \subseteq served' /\ (type = "result" => j \in served')
    BY <1>5 DEF ClientAnswer
  <2> HIDE DEF j, m
  <2>8. ASSUME NEW r \in Socks, NEW i \in Range(toClient'[r]) PROVE SentBy(i, r)'
    <3>1. i \in Range(toClient[r])
      BY <1>2, <2>1, <2>2, <2>8
    <3>2. i \in Jobs /\ SentBy(i, r)
      BY <1>2, <3>1, RangeType DEF AnswersAreRouted
    <3>3. QED
      BY <3>2, SentByStable
  <2>9. ASSUME NEW r \in Socks, NEW n \in Range(inbox'[r])
        PROVE  SentBy(n.job, r)' /\ (n.type = "result" => n.job \in served')
    <3>1. CASE r = s /\ n = m
      BY <2>3, <2>4, <2>7, <3>1, SentByStable
    <3>2. CASE n \in Range(inbox[r])
      <4>1. n.job \in Jobs
        BY <3>2, InboxJobs
      <4>2. SentBy(n.job, r) /\ (n.type = "result" => n.job \in served)
        BY <3>2 DEF AnswersAreRouted
      <4>3. QED
        BY <2>7, <4>1, <4>2, SentByStable
    <3>3. QED
      BY <1>2, <2>5, <2>6, <2>9, <3>1, <3>2
  <2>10. QED
    BY <2>8, <2>9 DEF AnswersAreRouted
<1>6. ASSUME NEW j \in Jobs, SendJob(j) PROVE AnswersAreRouted'
  <2>1. CASE UNCHANGED toClient
    BY <1>1, <1>6, <2>1 DEF SendJob, wireVars
  <2>2. CASE via[j] \notin Socks
    BY <1>2, <1>6, <2>1, <2>2 DEF SendJob
  <2>3. CASE /\ via[j] \in Socks
             /\ toClient' = [toClient EXCEPT ![via[j]] = Append(@, j)]
    <3>1. SentBy(j, via[j])'
      BY <1>6, <2>3 DEF SentBy, RouteInv, SendJob, TypeOK
    <3>2. Range(Append(toClient[via[j]], j)) = Range(toClient[via[j]]) \cup {j}
      BY <1>2, <2>3, AppendRange
    <3>3. via' = via /\ inbox' = inbox /\ served' = served
      BY <1>6 DEF SendJob
    <3>4. ASSUME NEW r \in Socks, NEW i \in Range(toClient'[r]) PROVE SentBy(i, r)'
      <4>1. (i = j /\ r = via[j]) \/ i \in Range(toClient[r])
        BY <1>2, <2>3, <3>2, <3>4
      <4>2. CASE i \in Range(toClient[r])
        BY <1>2, <4>2, RangeType, SentByStable DEF AnswersAreRouted
      <4>3. QED
        BY <3>1, <3>3, <4>1, <4>2
    <3>5. ASSUME NEW r \in Socks, NEW n \in Range(inbox[r])
          PROVE  SentBy(n.job, r)' /\ (n.type = "result" => n.job \in served)
      <4>1. n.job \in Jobs
        BY <3>5, InboxJobs
      <4>2. SentBy(n.job, r) /\ (n.type = "result" => n.job \in served)
        BY <3>5 DEF AnswersAreRouted
      <4>3. QED
        BY <4>1, <4>2, SentByStable
    <3>6. QED
      BY <3>3, <3>4, <3>5 DEF AnswersAreRouted
  <2>4. QED
    BY <1>6, <2>1, <2>2, <2>3 DEF SendJob
<1>7. ASSUME NEW s \in Socks, HandlerEvent(s) PROVE AnswersAreRouted'
  BY <1>1, <1>3, <1>7
  DEF HandlerEvent, AcceptFails, Accepted, RecvResult, RecvDataSourceError,
      RecvAnswer, RecvError, Drop
<1>8. ASSUME NEW s \in Socks, Client(s) PROVE AnswersAreRouted'
  BY <1>1, <1>4, <1>5, <1>8 DEF Client, Handshake, Heartbeat
<1>9. ASSUME NEW j \in Jobs, DispatchStart(j) \/ DispatchSection(j) \/ DispatchEvent(j)
      PROVE  AnswersAreRouted'
  BY <1>1, <1>6, <1>9
  DEF DispatchStart, NoIdleWorker, StaleIdleEntry, SkipInactive, FallBackAtOnce, Claim,
      DispatchSection, CommitBusy, ResetWorker, RepoolWorker, DispatchEvent, SendFails,
      Answered, WorkerGone, Timeout
<1>10. QED
  BY <1>1, <1>7, <1>8, <1>9, StepGroups, SectionFrame, RestFrame DEF vars

-----------------------------------------------------------------------------
LEMMA ServedStep ==
  TypeOK /\ AnswersAreRouted /\ CompletedMeansServed /\ [Next]_vars
    => CompletedMeansServed'
<1> SUFFICES ASSUME TypeOK, AnswersAreRouted, CompletedMeansServed, [Next]_vars
             PROVE  CompletedMeansServed'
  OBVIOUS
<1>1. CASE UNCHANGED <<future, outcome>> /\ served \subseteq served'
  BY <1>1 DEF CompletedMeansServed
<1>2. ASSUME NEW s \in Socks, NEW type, NEW value \in {"result", "error"},
             value = "result" => type = "result",
             Receive(s, type, value), UNCHANGED <<outcome, served>>
      PROVE  CompletedMeansServed'
  <2> DEFINE m == Head(inbox[s])
  <2>1. inbox[s] # <<>> /\ m.type = type
    BY <1>2 DEF Receive
  <2>2. m \in Range(inbox[s]) /\ m.job \in Jobs
    BY <2>1, TailRange, NextMessage DEF TypeOK
  <2>3. value = "result" => m.job \in served
    BY <1>2, <2>1, <2>2 DEF AnswersAreRouted
  <2>4. future' = [future EXCEPT ![m.job] = IF m.job \in pending THEN value ELSE @]
    BY <1>2 DEF Receive
  <2> HIDE DEF m
  <2>5. QED
    BY <1>2, <2>2, <2>3, <2>4 DEF CompletedMeansServed, TypeOK
<1>3. ASSUME NEW s \in Socks, HandlerEvent(s) PROVE CompletedMeansServed'
  BY <1>1, <1>2, <1>3
  DEF HandlerEvent, AcceptFails, Accepted, RecvResult, RecvDataSourceError,
      RecvAnswer, RecvError, Drop, wireVars, jobVars
<1>4. ASSUME NEW s \in Socks, Client(s) PROVE CompletedMeansServed'
  BY <1>1, <1>4 DEF Client, Handshake, Heartbeat, PeerDrop, ClientAnswer, wireVars,
                    jobVars
<1>5. ASSUME NEW j \in Jobs, NEW verdict \in {"completed", "fallback"},
             verdict = "completed" => future[j] = "result",
             Settle(j, verdict), served' = served
      PROVE  CompletedMeansServed'
  BY <1>5 DEF CompletedMeansServed, Settle, TypeOK
<1>6. ASSUME NEW j \in Jobs, DispatchEvent(j) PROVE CompletedMeansServed'
  BY <1>1, <1>5, <1>6, DispatchFrame DEF DispatchEvent, SendJob, SendFails, Answered,
     Verdict, WorkerGone, Timeout
<1>7. ASSUME NEW j \in Jobs, FallBackAtOnce(j) PROVE CompletedMeansServed'
  BY <1>7 DEF FallBackAtOnce, CompletedMeansServed, TypeOK, wireVars
<1>8. ASSUME NEW j \in Jobs, DispatchStart(j) PROVE CompletedMeansServed'
  BY <1>1, <1>7, <1>8 DEF DispatchStart, NoIdleWorker, StaleIdleEntry, SkipInactive,
                          Claim, wireVars
<1>9. ASSUME NEW j \in Jobs, CommitBusy(j) PROVE CompletedMeansServed'
  BY <1>9 DEF CommitBusy, CompletedMeansServed, TypeOK, wireVars
<1>10. ASSUME NEW j \in Jobs, DispatchSection(j) PROVE CompletedMeansServed'
  BY <1>1, <1>9, <1>10 DEF DispatchSection, ResetWorker, RepoolWorker, wireVars
<1>11. QED
  BY <1>1, <1>3, <1>4, <1>6, <1>8, <1>10, StepGroups, SectionFrame, RestFrame
  DEF vars, wireVars, jobVars

-----------------------------------------------------------------------------
(* A dispatch stops owing an answer only together with its worker's entry of the *)
(* busy pool.                                                                    *)
LEMMA BusyStep ==
  TypeOK /\ PendingInv /\ AnswersAreRouted /\ BusyPoolTracksJobs /\ [Next]_vars
    => BusyPoolTracksJobs'
<1> SUFFICES ASSUME TypeOK, PendingInv, AnswersAreRouted, BusyPoolTracksJobs,
                    [Next]_vars
             PROVE  BusyPoolTracksJobs'
  OBVIOUS
<1>1. busy \subseteq Workers /\ assignee \in [Jobs -> Workers]
  BY DEF TypeOK
<1>2. ASSUME busy' \subseteq busy,
             \A j \in Jobs : Owed(j) /\ assignee[j] \in busy' => Owed(j)' /\ assignee'[j] = assignee[j]
      PROVE  BusyPoolTracksJobs'
  BY <1>2 DEF BusyPoolTracksJobs
<1>3. CASE UNCHANGED <<job, assignee, future>> /\ busy' \subseteq busy
  BY <1>2, <1>3 DEF Owed, InFlight
<1>4. ASSUME NEW s \in Socks, NEW type, NEW value, Receive(s, type, value),
             busy' = busy \ {WorkerOf[s]}, UNCHANGED <<job, assignee>>
      PROVE  BusyPoolTracksJobs'
  <2> DEFINE i == Head(inbox[s]).job
  <2>1. inbox[s] # <<>>
    BY <1>4 DEF Receive
  <2>2. Head(inbox[s]) \in Range(inbox[s])
    BY <2>1, TailRange DEF TypeOK
  <2>3. SentBy(i, s)
    BY <2>2 DEF AnswersAreRouted
  <2>4. future' = [future EXCEPT ![i] = IF i \in pending THEN value ELSE @]
    BY <1>4 DEF Receive
  <2> HIDE DEF i
  <2>5. QED
    BY <1>2, <1>4, <2>3, <2>4 DEF Owed, InFlight, SentBy, TypeOK
<1>5. ASSUME NEW s \in Socks, HandlerSection(s) PROVE BusyPoolTracksJobs'
  BY <1>3, <1>5, SectionFrame DEF HandlerSection, JoinPools, Resume, ReturnToPool,
                                  CommitOffline, jobVars
<1>6. ASSUME NEW s \in Socks, HandlerEvent(s) PROVE BusyPoolTracksJobs'
  BY <1>3, <1>4, <1>6
  DEF HandlerEvent, AcceptFails, Accepted, RecvResult, RecvDataSourceError,
      RecvAnswer, RecvError, Drop, poolVars, jobVars
<1>7. ASSUME NEW j \in Jobs, FallBackAtOnce(j), busy' \subseteq busy
      PROVE  BusyPoolTracksJobs'
  BY <1>2, <1>7 DEF FallBackAtOnce, Owed, InFlight, TypeOK
<1>8. ASSUME NEW j \in Jobs, NEW w \in Workers, Claim(j, w) PROVE BusyPoolTracksJobs'
  <2>1. Owed(j)' /\ assignee'[j] = w
    BY <1>8 DEF Claim, Owed, InFlight, PendingInv, TypeOK
  <2>2. ASSUME NEW i \in Jobs, Owed(i) PROVE Owed(i)' /\ assignee'[i] = assignee[i]
    BY <1>8, <2>2 DEF Claim, Owed, InFlight, TypeOK
  <2>3. busy' = busy \cup {w}
    BY <1>8 DEF Claim
  <2>4. QED
    BY <2>1, <2>2, <2>3 DEF BusyPoolTracksJobs
<1>9. ASSUME NEW j \in Jobs, DispatchStart(j) PROVE BusyPoolTracksJobs'
  BY <1>7, <1>8, <1>9 DEF DispatchStart, NoIdleWorker, StaleIdleEntry, SkipInactive
<1>10. ASSUME NEW j \in Jobs, DispatchSection(j) PROVE BusyPoolTracksJobs'
  BY <1>2, <1>10 DEF DispatchSection, CommitBusy, ResetWorker, RepoolWorker, Owed,
                     InFlight, TypeOK
<1>11. ASSUME NEW j \in Jobs, SendJob(j) PROVE BusyPoolTracksJobs'
  BY <1>2, <1>11 DEF SendJob, Owed, InFlight, TypeOK, poolVars
<1>12. ASSUME NEW j \in Jobs, NEW verdict, Settle(j, verdict), assignee' = assignee,
              NEW p \in JobPoints, job' = [job EXCEPT ![j] = p]
       PROVE  BusyPoolTracksJobs'
  BY <1>1, <1>2, <1>12 DEF Settle, Owed, InFlight, TypeOK
<1>13. ASSUME NEW j \in Jobs, DispatchEvent(j) PROVE BusyPoolTracksJobs'
  BY <1>11, <1>12, <1>13 DEF DispatchEvent, SendFails, Answered, WorkerGone, Timeout,
                             JobPoints
<1>14. QED
  BY <1>3, <1>5, <1>6, <1>9, <1>10, <1>13, StepGroups, ClientFrame, RestFrame
  DEF vars, poolVars, jobVars

-----------------------------------------------------------------------------
(* The inductive invariant.  A socket's answers and the busy pool can only be   *)
(* followed when it is known which dispatch took which socket (RouteInv) and in *)
(* which state its future is (PendingInv); neither follows from the properties  *)
(* themselves.                                                                  *)
DispatchInv ==
  /\ TypeOK
  /\ ConnectionsAreServed
  /\ PendingInv
  /\ RouteInv
  /\ AnswersAreRouted
  /\ CompletedMeansServed
  /\ BusyPoolTracksJobs

LEMMA DispatchInvInit == Init => DispatchInv
<1> SUFFICES ASSUME Init PROVE DispatchInv
  OBVIOUS
<1>1. TypeOK
  BY TypeInit
<1>2. ConnectionsAreServed
  BY DEF Init, ConnectionsAreServed
<1>3. PendingInv
  BY DEF Init, PendingInv
<1>4. RouteInv
  BY NoSockAssumption DEF Init, RouteInv
<1>5. AnswersAreRouted
  BY DEF Init, AnswersAreRouted, Range
<1>6. CompletedMeansServed
  BY DEF Init, CompletedMeansServed
<1>7. BusyPoolTracksJobs
  BY DEF Init, BusyPoolTracksJobs
<1>8. QED
  BY <1>1, <1>2, <1>3, <1>4, <1>5, <1>6, <1>7 DEF DispatchInv

LEMMA DispatchInvStep == DispatchInv /\ [Next]_vars => DispatchInv'
  BY TypeStep, ConnectionsStep, PendingStep, RouteStep, RoutedStep, ServedStep, BusyStep
  DEF DispatchInv

LEMMA DispatchInvariant == Spec => []DispatchInv
  BY DispatchInvInit, DispatchInvStep, PTL DEF Spec

(* Every variable keeps its type: no step of the dispatcher, of a handler, of a *)
(* client or of a REST request writes a status outside WorkerStatus.            *)
THEOREM TypesAreKept == Spec => []TypeOK
<1>1. DispatchInv => TypeOK
  BY DEF DispatchInv
<1>2. QED
  BY <1>1, DispatchInvariant, PTL

(* active_worker_connections names only sockets whose handler is still there. *)
THEOREM ConnectionsAreAlwaysServed == Spec => []ConnectionsAreServed
<1>1. DispatchInv => ConnectionsAreServed
  BY DEF DispatchInv
<1>2. QED
  BY <1>1, DispatchInvariant, PTL

(* No exit of a dispatch leaks an entry of worker:pool:busy, and                *)
(* pending_results holds the futures somebody waits for, and only those.        *)
THEOREM BooksAlwaysAgree == Spec => []BooksAgree
<1>1. DispatchInv => BusyPoolTracksJobs
  BY DEF DispatchInv
<1>2. DispatchInv => PendingTracksDispatches
  BY DEF DispatchInv, PendingInv, PendingTracksDispatches
<1>3. DispatchInv => BooksAgree
  BY <1>1, <1>2 DEF BooksAgree
<1>4. QED
  BY <1>3, DispatchInvariant, PTL

(* An answer that travels on a socket is for a job sent on that socket to the   *)
(* worker behind it, and a job is reported completed only when a client         *)
(* computed its result.                                                         *)
THEOREM AnswersAreAlwaysGenuine == Spec => []AnswersAreGenuine
<1>1. DispatchInv => CompletedMeansServed /\ AnswersAreRouted
  BY DEF DispatchInv
<1>2. DispatchInv => AnswersAreGenuine
  BY <1>1 DEF AnswersAreGenuine
<1>3. QED
  BY <1>2, DispatchInvariant, PTL

-----------------------------------------------------------------------------
(* The dispatcher implements JobBroker: each step maps to a step of the broker *)
(* or to a stutter.                                                            *)

LEMMA PhaseOf ==
  ASSUME DispatchInv, NEW j \in Jobs
  PROVE  /\ job[j] = "new" => BrokerPhase[j] = "new"
         /\ job[j] \in {"claimed", "sending", "waiting"} => BrokerPhase[j] = "offered"
         /\ job[j] = "done" => BrokerPhase[j] # "new"
  BY DEF DispatchInv, PendingInv, TypeOK, BrokerPhase

(* A step that gives no verdict and takes no new job leaves the phases alone. *)
LEMMA PhasesUnchanged ==
  ASSUME UNCHANGED outcome, \A j \in Jobs : job'[j] = "new" <=> job[j] = "new"
  PROVE  BrokerPhase' = BrokerPhase
  BY DEF BrokerPhase

(* A step that moves one job changes the phase of that job only. *)
LEMMA PhaseUpdate ==
  ASSUME NEW j \in Jobs, TypeOK, NEW v, BrokerPhase'[j] = v,
         \A i \in Jobs \ {j} : job'[i] = job[i] /\ outcome'[i] = outcome[i]
  PROVE  BrokerPhase' = [BrokerPhase EXCEPT ![j] = v]
<1>1. \A i \in Jobs \ {j} : BrokerPhase'[i] = BrokerPhase[i]
  BY DEF BrokerPhase
<1>2. DOMAIN BrokerPhase' = Jobs /\ DOMAIN BrokerPhase = Jobs
      /\ BrokerPhase' = [i \in Jobs |-> BrokerPhase'[i]]
  BY DEF BrokerPhase
<1>3. BrokerPhase' = [i \in Jobs |-> IF i = j THEN v ELSE BrokerPhase[i]]
  BY <1>1, <1>2
<1>4. QED
  BY <1>2, <1>3

LEMMA BrokerStep ==
  DispatchInv /\ DispatchInv' /\ [Next]_vars
    => [Broker!BrokerNext]_<<BrokerPhase, served>>
<1> SUFFICES ASSUME DispatchInv, DispatchInv', [Next]_vars
             PROVE  [Broker!BrokerNext]_<<BrokerPhase, served>>
  OBVIOUS
<1>1. CASE UNCHANGED <<job, outcome, served>>
  BY <1>1, PhasesUnchanged
<1>2. ASSUME NEW s \in Socks, NEW type \in {"result", "data_error", "error"},
             ClientAnswer(s, type)
      PROVE  [Broker!BrokerNext]_<<BrokerPhase, served>>
  <2> DEFINE j == Head(toClient[s])
  <2>1. BrokerPhase' = BrokerPhase
    BY <1>2, PhasesUnchanged DEF ClientAnswer, jobVars
  <2>2. toClient[s] \in Seq(Jobs) /\ toClient[s] # <<>>
    BY <1>2 DEF ClientAnswer, DispatchInv, TypeOK
  <2>3. j \in Jobs /\ SentBy(j, s)
    BY <2>2, TailRange, RangeType DEF DispatchInv, AnswersAreRouted
  <2>4. BrokerPhase[j] # "new"
    BY <2>3, PhaseOf DEF SentBy
  <2>5. served' = served \/ served' = served \cup {j}
    BY <1>2 DEF ClientAnswer
  <2> HIDE DEF j
  <2>6. QED
    BY <2>1, <2>3, <2>4, <2>5 DEF Broker!BrokerNext, Broker!ComputeAnswer
<1>3. ASSUME NEW j \in Jobs, FallBackAtOnce(j) PROVE Broker!FallBack(j)
  <2>1. BrokerPhase[j] = "new"
    BY <1>3, PhaseOf DEF FallBackAtOnce
  <2>2. BrokerPhase' = [BrokerPhase EXCEPT ![j] = "fallback"]
    <3>1. outcome'[j] = "fallback" /\ job'[j] = "done"
      BY <1>3 DEF FallBackAtOnce, DispatchInv, TypeOK
    <3>2. BrokerPhase'[j] = "fallback"
      BY <3>1 DEF BrokerPhase
    <3>3. QED
      BY <1>3, <3>2, PhaseUpdate DEF FallBackAtOnce, DispatchInv, TypeOK
  <2>3. QED
    BY <1>3, <2>1, <2>2 DEF Broker!FallBack, FallBackAtOnce, wireVars
<1>4. ASSUME NEW j \in Jobs, NEW w \in Workers, Claim(j, w) PROVE Broker!Offer(j)
  <2>1. BrokerPhase[j] = "new" /\ outcome[j] = "none"
    BY <1>4, PhaseOf DEF Claim, DispatchInv, PendingInv
  <2>2. BrokerPhase' = [BrokerPhase EXCEPT ![j] = "offered"]
    <3>1. outcome'[j] = "none" /\ job'[j] = "claimed"
      BY <1>4, <2>1 DEF Claim, DispatchInv, TypeOK
    <3>2. BrokerPhase'[j] = "offered"
      BY <3>1 DEF BrokerPhase
    <3>3. QED
      BY <1>4, <3>2, PhaseUpdate DEF Claim, DispatchInv, TypeOK
  <2>3. QED
    BY <1>4, <2>1, <2>2 DEF Broker!Offer, Claim, wireVars
<1>5. ASSUME NEW j \in Jobs, DispatchStart(j)
      PROVE  [Broker!BrokerNext]_<<BrokerPhase, served>>
  BY <1>3, <1>4, <1>5 DEF DispatchStart, NoIdleWorker, StaleIdleEntry, SkipInactive,
                          Broker!BrokerNext
<1>6. ASSUME NEW j \in Jobs, DispatchSection(j) \/ SendJob(j)
      PROVE  BrokerPhase' = BrokerPhase /\ served' = served
  <2>1. outcome' = outcome /\ served' = served
    BY <1>6 DEF DispatchSection, CommitBusy, ResetWorker, RepoolWorker, SendJob, wireVars
  <2>2. \A i \in Jobs : job'[i] = "new" <=> job[i] = "new"
    BY <1>6 DEF DispatchSection, CommitBusy, ResetWorker, RepoolWorker, SendJob,
                DispatchInv, TypeOK
  <2>3. QED
    BY <2>1, <2>2, PhasesUnchanged
<1>7. ASSUME NEW j \in Jobs, NEW verdict \in {"completed", "fallback"},
             verdict = "completed" => future[j] = "result",
             Settle(j, verdict), job[j] \in {"sending", "waiting"}, served' = served,
             NEW p \in {"resetting", "done"}, job' = [job EXCEPT ![j] = p]
      PROVE  Broker!Complete(j) \/ Broker!FallBack(j)
  <2>1. BrokerPhase[j] = "offered"
    BY <1>7, PhaseOf
  <2>2. verdict = "completed" => j \in served
    BY <1>7 DEF DispatchInv, CompletedMeansServed
  <2>3. BrokerPhase' = [BrokerPhase EXCEPT ![j] = verdict]
    <3>1. outcome'[j] = verdict /\ job'[j] = p
      BY <1>7 DEF Settle, DispatchInv, TypeOK
    <3>2. BrokerPhase'[j] = verdict
      BY <1>7, <3>1 DEF BrokerPhase
    <3>3. QED
      BY <1>7, <3>2, PhaseUpdate DEF Settle, DispatchInv, TypeOK
  <2>4. QED
    BY <1>7, <2>1, <2>2, <2>3 DEF Broker!Complete, Broker!FallBack
<1>8. ASSUME NEW j \in Jobs, SendFails(j) \/ Answered(j) \/ WorkerGone(j) \/ Timeout(j)
      PROVE  Broker!Complete(j) \/ Broker!FallBack(j)
  BY <1>7, <1>8 DEF SendFails, Answered, Verdict, WorkerGone, Timeout, wireVars
<1>9. ASSUME NEW j \in Jobs, DispatchSection(j) \/ DispatchEvent(j)
      PROVE  [Broker!BrokerNext]_<<BrokerPhase, served>>
  BY <1>6, <1>8, <1>9 DEF DispatchEvent, Broker!BrokerNext
<1>10. ASSUME NEW s \in Socks, Client(s)
       PROVE  [Broker!BrokerNext]_<<BrokerPhase, served>>
  BY <1>1, <1>2, <1>10 DEF Client, Handshake, Heartbeat, PeerDrop, wireVars, jobVars
<1>11. QED
  BY <1>1, <1>5, <1>9, <1>10, StepGroups, SectionFrame, EventFrame, RestFrame
  DEF vars, wireVars, jobVars

(* The dispatcher keeps the promise of JobBroker to its callers: a job's verdict *)
(* is given once and is final, and "completed" is given only for a job whose     *)
(* result a worker has computed.                                                 *)
THEOREM ImplementsBrokerSafety == Spec => Broker!BrokerSpec
<1>1. Init => Broker!BrokerInit
  BY DEF Init, Broker!BrokerInit, BrokerPhase
<1>2. DispatchInv /\ DispatchInv' /\ [Next]_vars
        => [Broker!BrokerNext]_(Broker!brokerVars)
  BY BrokerStep DEF Broker!brokerVars
<1>3. QED
  BY <1>1, <1>2, DispatchInvariant, PTL DEF Spec, Broker!BrokerSpec

-----------------------------------------------------------------------------
(***************************************************************************)
(* The pools of workers that come back promptly and that nobody operates   *)
(* on by REST.  PoolInv(w) says where worker w is: each point of its       *)
(* handler and of a dispatch that took it goes with one status, one place  *)
(* in the pools and one content of the wire.                               *)
(***************************************************************************)
Mine(w) == {s \in Socks : WorkerOf[s] = w}
Live(s) == sock[s] \notin {"unused", "closed"}
Serving == {"joining", "open", "resuming", "pooling"}
GivingBack == {"resetting", "repooling"}
Works(w) == \E j \in Jobs : Owed(j) /\ assignee[j] = w

NoWire(s) == toClient[s] = <<>> /\ inbox[s] = <<>>
Carries(s, j) ==
  \/ toClient[s] = <<j>> /\ inbox[s] = <<>>
  \/ toClient[s] = <<>> /\ \E m \in Message : m.job = j /\ inbox[s] = <<m>>

(* A socket carries at most one job; it is the one its worker works on, unless *)
(* the worker was quarantined or the socket is no longer the worker's.         *)
WireInv(s) ==
  NoWire(s) \/ \E j \in Jobs :
    /\ Carries(s, j)
    /\ Owed(j) \/ status[WorkerOf[s]] = "quarantined" \/ conn[WorkerOf[s]] # s

SockInv(s) ==
  LET w == WorkerOf[s] IN
  /\ sock[s] \in {"unused", "leaving", "closed"} => peer[s] = "down"
  /\ sock[s] = "unused" => seen[s] = "expired" /\ NoWire(s)
  /\ sock[s] = "accepting" => conn[w] = NoSock /\ seen[s] \in {"expired", status[w]}
  /\ sock[s] \in {"accepting", "joining"} =>
       NoWire(s) /\ \A j \in Jobs : InFlight(j) => assignee[j] # w
  /\ sock[s] \in Serving => conn[w] = s
  /\ sock[s] \in {"joining", "pooling"} => status[w] = "active" /\ seen[s] = "expired"
  /\ sock[s] = "open" =>
       seen[s] = "expired" \/ (seen[s] = "quarantined" /\ status[w] = "quarantined")
  /\ sock[s] = "resuming" => status[w] = "busy" /\ seen[s] = "busy"
  /\ sock[s] \in {"resuming", "pooling"} => NoWire(s) /\ ~Works(w)
  /\ sock[s] = "leaving" => conn[w] = NoSock /\ seen[s] = status[w]

JobInv(j) ==
  LET w == assignee[j] IN
  /\ InFlight(j) => /\ via[j] \in Socks
                    /\ sock[via[j]] \notin {"unused", "accepting", "joining"}
                    /\ conn[w] # NoSock => conn[w] = via[j]
  /\ job[j] = "sending" => future[j] = "pending"
  /\ job[j] = "waiting" => future[j] # "none"
  /\ job[j] = "claimed" => conn[w] = via[j] /\ status[w] = "active"
  /\ Owed(j) /\ conn[w] # NoSock =>
       /\ sock[conn[w]] = "open" /\ w \notin idle
       /\ job[j] # "claimed" => status[w] = "busy"
  /\ job[j] \in {"claimed", "sending"} => NoWire(via[j])
  /\ job[j] \in GivingBack =>
       /\ conn[w] # NoSock /\ sock[conn[w]] = "open" /\ NoWire(conn[w])
       /\ ~Works(w) /\ w \notin idle
       /\ status[w] = IF job[j] = "resetting" THEN "busy" ELSE "active"

WorkerInv(w) ==
  /\ w \in idle =>
       /\ conn[w] # NoSock /\ status[w] = "active" /\ ~Works(w)
       /\ sock[conn[w]] = "open" /\ NoWire(conn[w])
  /\ conn[w] # NoSock /\ sock[conn[w]] = "open" =>
       \/ w \in idle \/ status[w] = "quarantined" \/ Works(w)
       \/ \E j \in Jobs : job[j] \in GivingBack /\ assignee[j] = w
  /\ status[w] = "busy" =>
       \/ conn[w] # NoSock /\ (sock[conn[w]] = "resuming" \/ Works(w))
       \/ \E j \in Jobs : job[j] = "resetting" /\ assignee[j] = w
       \/ \E s \in Mine(w) : sock[s] = "leaving"

OneLive(w) == \A r, s \in Mine(w) : Live(r) /\ Live(s) => r = s
OneTask(w) ==
  \A i, j \in Jobs :
    Owed(i) /\ Owed(j) /\ assignee[i] = w /\ assignee[j] = w => i = j

PoolInv(w) ==
  /\ OneLive(w)
  /\ OneTask(w)
  /\ \A s \in Mine(w) : SockInv(s) /\ WireInv(s)
  /\ \A j \in Jobs : assignee[j] = w => JobInv(j)
  /\ WorkerInv(w)

(* At most one section of the event loop is half done. *)
OneSection ==
  /\ \A r, s \in Socks : sock[r] \in SockMidSection /\ sock[s] \in SockMidSection => r = s
  /\ \A i, j \in Jobs : job[i] \in JobMidSection /\ job[j] \in JobMidSection => i = j
  /\ \A s \in Socks, j \in Jobs : ~(sock[s] \in SockMidSection /\ job[j] \in JobMidSection)

NoRest == \A t \in Threads : rest[t] = NoRequest

PromptInv == NoRest /\ OneSection /\ \A w \in Workers : PoolInv(w)

-----------------------------------------------------------------------------
(* A step that does not touch a worker keeps what is known of it. *)
Engaged(j, w) == /\ assignee[j] = w
                 /\ job[j] \in {"claimed", "sending", "waiting", "resetting", "repooling"}

Untouched(w) ==
  /\ status'[w] = status[w] /\ conn'[w] = conn[w]
  /\ w \in idle' <=> w \in idle
  /\ \A s \in Mine(w) :
       /\ sock'[s] = sock[s] /\ peer'[s] = peer[s] /\ seen'[s] = seen[s]
       /\ toClient'[s] = toClient[s] /\ inbox'[s] = inbox[s]
  /\ \A j \in Jobs :
       /\ Engaged(j, w)' <=> Engaged(j, w)
       /\ Engaged(j, w) => job'[j] = job[j] /\ via'[j] = via[j] /\ future'[j] = future[j]

LEMMA Elsewhere ==
  ASSUME TypeOK, ConnectionsAreServed, RouteInv, AnswersAreRouted,
         TypeOK', AnswersAreRouted', NEW w \in Workers, PoolInv(w), Untouched(w)
  PROVE  PoolInv(w)'
<1> USE WorkerOfAssumption, NoSockAssumption
<1>1. \A j \in Jobs : Engaged(j, w) =>
        (Owed(j)' <=> Owed(j)) /\ (InFlight(j)' <=> InFlight(j)) /\ assignee'[j] = w
  BY DEF Untouched, Engaged, Owed, InFlight
<1>2. \A j \in Jobs : /\ assignee[j] = w /\ InFlight(j) => Engaged(j, w)
                      /\ assignee'[j] = w /\ InFlight(j)' => Engaged(j, w)
  BY DEF Untouched, Engaged, InFlight
<1>3. Works(w)' <=> Works(w)
  BY <1>1, <1>2 DEF Works, Owed, Engaged
<1>4. conn[w] # NoSock => conn[w] \in Mine(w)
  BY DEF ConnectionsAreServed, TypeOK, Mine
<1>5. OneLive(w)'
  BY DEF PoolInv, OneLive, Untouched, Live
<1>6. OneTask(w)'
  <2>1. \A j \in Jobs : Owed(j)' /\ assignee'[j] = w => Owed(j) /\ assignee[j] = w
    <3>1. \A j \in Jobs : Owed(j)' => InFlight(j)'
      BY DEF Owed
    <3>2. QED
      BY <1>1, <1>2, <3>1 DEF Engaged
  <2>2. QED
    BY <2>1 DEF PoolInv, OneTask
<1>7. ASSUME NEW s \in Mine(w) PROVE NoWire(s)' <=> NoWire(s)
  BY DEF NoWire, Untouched
<1>8. ASSUME NEW s \in Mine(w) PROVE SockInv(s)'
  <2>1. SockInv(s) /\ s \in Socks /\ WorkerOf[s] = w
    BY DEF PoolInv, Mine
  <2>2. QED
    BY <1>1, <1>2, <1>3, <1>7, <2>1 DEF SockInv, Untouched, Engaged
<1>9. ASSUME NEW s \in Mine(w) PROVE WireInv(s)'
  <2>1. WireInv(s) /\ s \in Socks /\ WorkerOf[s] = w
    BY DEF PoolInv, Mine
  <2>2. CASE NoWire(s)
    BY <1>7, <2>2 DEF WireInv
  <2>3. ASSUME NEW j \in Jobs, Carries(s, j),
               Owed(j) \/ status[w] = "quarantined" \/ conn[w] # s
        PROVE  WireInv(s)'
    <3>1. Carries(s, j)'
      BY <2>3 DEF Carries, Untouched
    <3>2. SentBy(j, s)
      <4>1. CASE toClient[s] = <<j>>
        BY <2>1, <4>1 DEF AnswersAreRouted, Range
      <4>2. CASE \E m \in Message : m.job = j /\ inbox[s] = <<m>>
        BY <2>1, <4>2 DEF AnswersAreRouted, Range
      <4>3. QED
        BY <2>3, <4>1, <4>2 DEF Carries
    <3>3. Owed(j) => Owed(j)'
      BY <1>1, <1>2, <2>1, <3>2 DEF SentBy, Owed
    <3>4. QED
      BY <2>1, <2>3, <3>1, <3>3 DEF WireInv, Untouched
  <2>4. QED
    BY <2>1, <2>2, <2>3 DEF WireInv
<1>10. ASSUME NEW j \in Jobs, assignee'[j] = w PROVE JobInv(j)'
  <2>1. CASE ~Engaged(j, w)
    <3>1. job'[j] \notin {"claimed", "sending", "waiting", "resetting", "repooling"}
      BY <1>10, <2>1 DEF Untouched, Engaged
    <3>2. QED
      BY <3>1 DEF JobInv, InFlight, Owed, GivingBack
  <2>2. CASE Engaged(j, w)
    <3>1. JobInv(j) /\ assignee[j] = w
      BY <2>2 DEF PoolInv, Engaged
    <3>2. InFlight(j) => via[j] \in Mine(w)
      BY <3>1 DEF JobInv, RouteInv, Mine
    <3>3. job'[j] = job[j] /\ via'[j] = via[j] /\ future'[j] = future[j]
      BY <2>2 DEF Untouched
    <3>4. /\ InFlight(j) => sock'[via[j]] = sock[via[j]] /\ (NoWire(via[j])' <=> NoWire(via[j]))
          /\ conn[w] # NoSock => /\ sock'[conn[w]] = sock[conn[w]]
                                 /\ NoWire(conn[w])' <=> NoWire(conn[w])
      BY <1>4, <3>2, <3>3 DEF Untouched, NoWire
    <3>5. QED
      BY <1>1, <1>3, <1>10, <2>2, <3>1, <3>3, <3>4
      DEF JobInv, Untouched, InFlight, GivingBack, NoWire
  <2>3. QED
    BY <2>1, <2>2
<1>11. WorkerInv(w)'
  <2>1. conn[w] # NoSock => /\ sock'[conn[w]] = sock[conn[w]]
                            /\ NoWire(conn[w])' <=> NoWire(conn[w])
    BY <1>4 DEF Untouched, NoWire
  <2>2. \A j \in Jobs : job[j] \in GivingBack /\ assignee[j] = w =>
          job'[j] = job[j] /\ assignee'[j] = w
    BY <1>1 DEF Untouched, Engaged, GivingBack
  <2>3. WorkerInv(w)
    BY DEF PoolInv
  <2>4. QED
    BY <1>3, <2>1, <2>2, <2>3 DEF WorkerInv, Untouched, GivingBack, NoWire
<1>12. QED
  BY <1>5, <1>6, <1>8, <1>9, <1>10, <1>11 DEF PoolInv

(* A handler that is over, or has not begun, keeps what is known of its socket. *)
LEMMA DeadSocket ==
  ASSUME ConnectionsAreServed', TypeOK', NEW s \in Socks, ~Live(s), SockInv(s), WireInv(s),
         sock'[s] = sock[s], peer'[s] = peer[s], seen'[s] = seen[s],
         toClient'[s] = toClient[s], inbox'[s] = inbox[s]
  PROVE  SockInv(s)' /\ WireInv(s)'
<1> USE WorkerOfAssumption, NoSockAssumption
<1>1. NoWire(s)' <=> NoWire(s)
  BY DEF NoWire
<1>2. SockInv(s)'
  BY <1>1 DEF SockInv, Live, Serving
<1>3. conn'[WorkerOf[s]] # s
  BY DEF ConnectionsAreServed, Live
<1>4. \A j \in Jobs : Carries(s, j)' <=> Carries(s, j)
  BY DEF Carries
<1>5. QED
  BY <1>1, <1>2, <1>3, <1>4 DEF WireInv

LEMMA TasksStay ==
  ASSUME UNCHANGED jobVars
  PROVE  /\ \A j \in Jobs : /\ Owed(j)' <=> Owed(j)
                            /\ InFlight(j)' <=> InFlight(j)
         /\ \A w \in Workers : Works(w)' <=> Works(w)
<1>1. \A j \in Jobs : (Owed(j)' <=> Owed(j)) /\ (InFlight(j)' <=> InFlight(j))
  BY DEF jobVars, Owed, InFlight
<1>2. QED
  BY <1>1 DEF Works, jobVars

(* A step of the handler of socket s, whose worker is w, that moves no job. *)
HandlerStep(s) ==
  /\ \A r \in Socks \ {s} :
       /\ sock'[r] = sock[r] /\ peer'[r] = peer[r] /\ seen'[r] = seen[r]
       /\ toClient'[r] = toClient[r] /\ inbox'[r] = inbox[r]
  /\ \A v \in Workers \ {WorkerOf[s]} :
       status'[v] = status[v] /\ conn'[v] = conn[v] /\ (v \in idle' <=> v \in idle)
  /\ UNCHANGED jobVars

LEMMA HandlerElsewhere ==
  ASSUME NEW s \in Socks, HandlerStep(s), NEW v \in Workers \ {WorkerOf[s]}
  PROVE  Untouched(v)
  BY DEF HandlerStep, Untouched, Mine, Engaged, jobVars

(* What has to be shown of the worker of the handler that steps. *)
LEMMA HandlerHere ==
  ASSUME DispatchInv, DispatchInv', NEW s \in Socks, HandlerStep(s), PoolInv(WorkerOf[s]),
         Live(s)' => Live(s) \/ \A r \in Mine(WorkerOf[s]) : ~Live(r),
         \A r \in Mine(WorkerOf[s]) : ~Live(r) \/ r = s,
         SockInv(s)', WireInv(s)',
         \A j \in Jobs : assignee[j] = WorkerOf[s] => JobInv(j)',
         WorkerInv(WorkerOf[s])'
  PROVE  PoolInv(WorkerOf[s])'
<1> DEFINE w == WorkerOf[s]
<1> USE WorkerOfAssumption, NoSockAssumption
<1>1. \A r \in Mine(w) \ {s} : sock'[r] = sock[r]
  BY DEF HandlerStep, Mine
<1>2. OneLive(w)'
  BY <1>1 DEF OneLive, Live
<1>3. OneTask(w)'
  BY TasksStay DEF PoolInv, OneTask, HandlerStep, jobVars
<1>4. ASSUME NEW r \in Mine(w), r # s PROVE SockInv(r)' /\ WireInv(r)'
  <2>1. ~Live(r) /\ SockInv(r) /\ WireInv(r) /\ r \in Socks
    BY <1>4 DEF PoolInv, Mine
  <2>2. QED
    BY <1>4, <2>1, DeadSocket DEF HandlerStep, DispatchInv
<1>5. QED
  BY <1>2, <1>3, <1>4 DEF PoolInv, HandlerStep, jobVars

LEMMA HandlerFacts ==
  ASSUME NEW s \in Socks, PoolInv(WorkerOf[s])
  PROVE  /\ SockInv(s) /\ WireInv(s) /\ WorkerInv(WorkerOf[s]) /\ s \in Mine(WorkerOf[s])
         /\ \A j \in Jobs : assignee[j] = WorkerOf[s] => JobInv(j)
         /\ Live(s) => \A r \in Mine(WorkerOf[s]) : ~Live(r) \/ r = s
  BY DEF PoolInv, Mine, OneLive

-----------------------------------------------------------------------------
(* The sections of a handler. *)
LEMMA JoinPoolsHere ==
  ASSUME DispatchInv, DispatchInv', NEW s \in Socks, JoinPools(s), PoolInv(WorkerOf[s])
  PROVE  HandlerStep(s) /\ PoolInv(WorkerOf[s])'
<1> DEFINE w == WorkerOf[s]
<1> USE WorkerOfAssumption, NoSockAssumption
<1>1. /\ sock[s] = "joining" /\ sock'[s] = "open" /\ w \in idle'
      /\ UNCHANGED <<status, conn, peer, seen, toClient, inbox, jobVars>>
  BY DEF JoinPools, wireVars, DispatchInv, TypeOK
<1>2. HandlerStep(s)
  BY DEF JoinPools, HandlerStep, wireVars, DispatchInv, TypeOK
<1>3. /\ SockInv(s) /\ WireInv(s) /\ WorkerInv(w) /\ s \in Mine(w)
      /\ \A j \in Jobs : assignee[j] = w => JobInv(j)
  BY HandlerFacts
<1>4. \A r \in Mine(w) : ~Live(r) \/ r = s
  BY <1>1, HandlerFacts DEF Live
<1>5. conn[w] = s /\ status[w] = "active" /\ seen[s] = "expired" /\ NoWire(s)
      /\ \A j \in Jobs : InFlight(j) => assignee[j] # w
  BY <1>1, <1>3 DEF SockInv, Serving
<1>6. ~Works(w)
  BY <1>5 DEF Works, Owed
<1>7. SockInv(s)' /\ WireInv(s)'
  BY <1>1, <1>5 DEF SockInv, WireInv, Serving, NoWire
<1>8. ASSUME NEW j \in Jobs, assignee[j] = w PROVE JobInv(j)'
  BY <1>1, <1>3, <1>5, <1>8 DEF JobInv, InFlight, Owed, GivingBack, jobVars
<1>9. WorkerInv(w)'
  BY <1>1, <1>2, <1>5, <1>6, TasksStay DEF WorkerInv, HandlerStep, NoWire
<1>10. QED
  BY <1>1, <1>2, <1>4, <1>7, <1>8, <1>9, HandlerHere DEF Live

LEMMA ResumeHere ==
  ASSUME DispatchInv, DispatchInv', NEW s \in Socks, Resume(s), PoolInv(WorkerOf[s])
  PROVE  HandlerStep(s) /\ PoolInv(WorkerOf[s])'
<1> DEFINE w == WorkerOf[s]
<1> USE WorkerOfAssumption, NoSockAssumption
<1>1. /\ sock[s] = "resuming" /\ sock'[s] = "pooling" /\ seen'[s] = "expired"
      /\ status'[w] = Flush(seen[s], "active", status[w])
      /\ UNCHANGED <<idle, conn, peer, toClient, inbox, jobVars>>
  BY DEF Resume, wireVars, DispatchInv, TypeOK
<1>2. HandlerStep(s)
  BY DEF Resume, HandlerStep, wireVars, DispatchInv, TypeOK
<1>3. /\ SockInv(s) /\ WireInv(s) /\ WorkerInv(w) /\ s \in Mine(w)
      /\ \A j \in Jobs : assignee[j] = w => JobInv(j)
  BY HandlerFacts
<1>4. \A r \in Mine(w) : ~Live(r) \/ r = s
  BY <1>1, HandlerFacts DEF Live
<1>5. conn[w] = s /\ status[w] = "busy" /\ seen[s] = "busy" /\ NoWire(s) /\ ~Works(w)
  BY <1>1, <1>3 DEF SockInv, Serving
<1>6. w \notin idle /\ status'[w] = "active"
  BY <1>1, <1>3, <1>5 DEF WorkerInv, Flush
<1>7. ~Works(w)'
  BY <1>2, <1>5, TasksStay DEF HandlerStep
<1>8. SockInv(s)' /\ WireInv(s)'
  BY <1>1, <1>5, <1>6, <1>7 DEF SockInv, WireInv, Serving, NoWire
<1>9. ASSUME NEW j \in Jobs, assignee[j] = w PROVE JobInv(j)'
  <2>1. ~Owed(j) /\ JobInv(j) /\ job[j] # "claimed"
    BY <1>3, <1>5, <1>9 DEF Works, Owed, InFlight, DispatchInv, PendingInv
  <2>2. job[j] \notin GivingBack
    BY <1>1, <1>5, <1>9, <2>1 DEF JobInv
  <2>3. Owed(j)' <=> Owed(j)
    BY <1>1, TasksStay
  <2>4. InFlight(j) => sock'[via[j]] \notin {"unused", "accepting", "joining"}
    BY <1>1, <1>2, <2>1 DEF JobInv, HandlerStep
  <2>5. QED
    BY <1>1, <1>9, <2>1, <2>2, <2>3, <2>4 DEF JobInv, InFlight, GivingBack, jobVars, NoWire
<1>10. WorkerInv(w)'
  BY <1>1, <1>5, <1>6 DEF WorkerInv
<1>11. QED
  BY <1>1, <1>2, <1>4, <1>8, <1>9, <1>10, HandlerHere DEF Live

LEMMA ReturnToPoolHere ==
  ASSUME DispatchInv, DispatchInv', NEW s \in Socks, ReturnToPool(s), PoolInv(WorkerOf[s])
  PROVE  HandlerStep(s) /\ PoolInv(WorkerOf[s])'
<1> DEFINE w == WorkerOf[s]
<1> USE WorkerOfAssumption, NoSockAssumption
<1>1. /\ sock[s] = "pooling" /\ sock'[s] = "open" /\ w \in idle'
      /\ UNCHANGED <<status, conn, peer, seen, toClient, inbox, jobVars>>
  BY DEF ReturnToPool, wireVars, DispatchInv, TypeOK
<1>2. HandlerStep(s)
  BY DEF ReturnToPool, HandlerStep, wireVars, DispatchInv, TypeOK
<1>3. /\ SockInv(s) /\ WireInv(s) /\ WorkerInv(w) /\ s \in Mine(w)
      /\ \A j \in Jobs : assignee[j] = w => JobInv(j)
  BY HandlerFacts
<1>4. \A r \in Mine(w) : ~Live(r) \/ r = s
  BY <1>1, HandlerFacts DEF Live
<1>5. conn[w] = s /\ status[w] = "active" /\ seen[s] = "expired" /\ NoWire(s) /\ ~Works(w)
  BY <1>1, <1>3 DEF SockInv, Serving
<1>6. ~Works(w)'
  BY <1>2, <1>5, TasksStay DEF HandlerStep
<1>7. SockInv(s)' /\ WireInv(s)'
  BY <1>1, <1>5 DEF SockInv, WireInv, Serving, NoWire
<1>8. ASSUME NEW j \in Jobs, assignee[j] = w PROVE JobInv(j)'
  <2>1. ~Owed(j) /\ JobInv(j) /\ job[j] # "claimed"
    BY <1>3, <1>5, <1>8 DEF Works, Owed, InFlight, DispatchInv, PendingInv
  <2>2. job[j] \notin GivingBack
    BY <1>1, <1>5, <1>8, <2>1 DEF JobInv
  <2>3. Owed(j)' <=> Owed(j)
    BY <1>1, TasksStay
  <2>4. InFlight(j) => sock'[via[j]] \notin {"unused", "accepting", "joining"}
    BY <1>1, <1>2, <2>1 DEF JobInv, HandlerStep
  <2>5. QED
    BY <1>1, <1>8, <2>1, <2>2, <2>3, <2>4 DEF JobInv, InFlight, GivingBack, jobVars, NoWire
<1>9. WorkerInv(w)'
  BY <1>1, <1>5, <1>6 DEF WorkerInv, NoWire
<1>10. QED
  BY <1>1, <1>2, <1>4, <1>7, <1>8, <1>9, HandlerHere DEF Live

LEMMA CommitOfflineHere ==
  ASSUME DispatchInv, DispatchInv', NEW s \in Socks, CommitOffline(s), PoolInv(WorkerOf[s])
  PROVE  HandlerStep(s) /\ PoolInv(WorkerOf[s])'
<1> DEFINE w == WorkerOf[s]
<1> USE WorkerOfAssumption, NoSockAssumption
<1>1. /\ sock[s] = "leaving" /\ sock'[s] = "closed" /\ seen'[s] = "expired"
      /\ status'[w] = Flush(seen[s], "offline", status[w])
      /\ UNCHANGED <<idle, conn, peer, toClient, inbox, jobVars>>
  BY DEF CommitOffline, wireVars, DispatchInv, TypeOK
<1>2. HandlerStep(s)
  BY DEF CommitOffline, HandlerStep, wireVars, DispatchInv, TypeOK
<1>3. /\ SockInv(s) /\ WireInv(s) /\ WorkerInv(w) /\ s \in Mine(w)
      /\ \A j \in Jobs : assignee[j] = w => JobInv(j)
  BY HandlerFacts
<1>4. \A r \in Mine(w) : ~Live(r) \/ r = s
  BY <1>1, HandlerFacts DEF Live
<1>5. conn[w] = NoSock /\ seen[s] = status[w] /\ peer[s] = "down"
  BY <1>1, <1>3 DEF SockInv
<1>6. w \notin idle /\ status'[w] = "offline"
  BY <1>1, <1>3, <1>5 DEF WorkerInv, Flush
<1>7. SockInv(s)'
  BY <1>1, <1>5 DEF SockInv, Serving
<1>8. WireInv(s)'
  BY <1>1, <1>3, <1>5 DEF WireInv, NoWire, Carries
<1>9. ASSUME NEW j \in Jobs, assignee[j] = w PROVE JobInv(j)'
  <2>1. JobInv(j) /\ via'[j] = via[j] /\ job'[j] = job[j] /\ assignee'[j] = w
        /\ future'[j] = future[j]
    BY <1>1, <1>3, <1>9 DEF jobVars
  <2>2. job[j] # "claimed" /\ job[j] \notin GivingBack
    BY <1>5, <1>9, <2>1 DEF JobInv, InFlight
  <2>3. InFlight(j) => sock'[via[j]] \notin {"unused", "accepting", "joining"}
    BY <1>1, <1>2, <2>1 DEF JobInv, HandlerStep
  <2>4. QED
    BY <1>1, <1>5, <1>9, <2>1, <2>2, <2>3 DEF JobInv, InFlight, GivingBack, NoWire
<1>10. WorkerInv(w)'
  BY <1>1, <1>5, <1>6 DEF WorkerInv
<1>11. QED
  BY <1>1, <1>2, <1>4, <1>7, <1>8, <1>9, <1>10, HandlerHere DEF Live

-----------------------------------------------------------------------------
(* The other events of a handler and of its client that move no job. *)
LEMMA AcceptFailsHere ==
  ASSUME DispatchInv, DispatchInv', NEW s \in Socks, AcceptFails(s), PoolInv(WorkerOf[s])
  PROVE  HandlerStep(s) /\ PoolInv(WorkerOf[s])'
<1> DEFINE w == WorkerOf[s]
<1> USE WorkerOfAssumption, NoSockAssumption
<1>1. /\ sock[s] = "accepting" /\ sock'[s] = "closed" /\ seen'[s] = "expired"
      /\ peer[s] = "down"
      /\ UNCHANGED <<status, idle, conn, peer, toClient, inbox, jobVars>>
  BY DEF AcceptFails, poolVars, wireVars, DispatchInv, TypeOK
<1>2. HandlerStep(s)
  BY DEF AcceptFails, HandlerStep, poolVars, wireVars, DispatchInv, TypeOK
<1>3. /\ SockInv(s) /\ WireInv(s) /\ WorkerInv(w) /\ s \in Mine(w)
      /\ \A j \in Jobs : assignee[j] = w => JobInv(j)
  BY HandlerFacts
<1>4. \A r \in Mine(w) : ~Live(r) \/ r = s
  BY <1>1, HandlerFacts DEF Live
<1>5. conn[w] = NoSock /\ NoWire(s)
      /\ \A j \in Jobs : InFlight(j) => assignee[j] # w
  BY <1>1, <1>3 DEF SockInv
<1>6. w \notin idle /\ status[w] # "busy"
  <2>1. \A j \in Jobs : ~(job[j] = "resetting" /\ assignee[j] = w)
    BY <1>3, <1>5 DEF JobInv, GivingBack
  <2>2. \A r \in Mine(w) : sock[r] # "leaving"
    BY <1>1, <1>4 DEF Live
  <2>3. QED
    BY <1>3, <1>5, <2>1, <2>2 DEF WorkerInv
<1>7. SockInv(s)' /\ WireInv(s)'
  BY <1>1, <1>5 DEF SockInv, Serving, WireInv, NoWire
<1>8. ASSUME NEW j \in Jobs, assignee[j] = w PROVE JobInv(j)'
  BY <1>1, <1>3, <1>5, <1>8 DEF JobInv, InFlight, Owed, GivingBack, jobVars
<1>9. WorkerInv(w)'
  BY <1>1, <1>5, <1>6 DEF WorkerInv
<1>10. QED
  BY <1>1, <1>2, <1>4, <1>7, <1>8, <1>9, HandlerHere DEF Live

LEMMA AcceptedHere ==
  ASSUME DispatchInv, DispatchInv', NEW s \in Socks, Accepted(s), PoolInv(WorkerOf[s])
  PROVE  HandlerStep(s) /\ PoolInv(WorkerOf[s])'
<1> DEFINE w == WorkerOf[s]
<1> USE WorkerOfAssumption, NoSockAssumption
<1>1. /\ sock[s] = "accepting" /\ sock'[s] = "joining" /\ seen'[s] = "expired"
      /\ conn'[w] = s /\ status'[w] = Flush(seen[s], "active", status[w])
      /\ UNCHANGED <<idle, peer, toClient, inbox, jobVars>>
  BY DEF Accepted, wireVars, DispatchInv, TypeOK
<1>2. HandlerStep(s)
  BY DEF Accepted, HandlerStep, wireVars, DispatchInv, TypeOK
<1>3. /\ SockInv(s) /\ WireInv(s) /\ WorkerInv(w) /\ s \in Mine(w)
      /\ \A j \in Jobs : assignee[j] = w => JobInv(j)
  BY HandlerFacts
<1>4. \A r \in Mine(w) : ~Live(r) \/ r = s
  BY <1>1, HandlerFacts DEF Live
<1>5. conn[w] = NoSock /\ seen[s] \in {"expired", status[w]} /\ NoWire(s)
      /\ \A j \in Jobs : InFlight(j) => assignee[j] # w
  BY <1>1, <1>3 DEF SockInv
<1>6. w \notin idle /\ status'[w] = "active"
  BY <1>1, <1>3, <1>5 DEF WorkerInv, Flush
<1>7. SockInv(s)' /\ WireInv(s)'
  BY <1>1, <1>5, <1>6 DEF SockInv, Serving, WireInv, NoWire, jobVars, InFlight
<1>8. ASSUME NEW j \in Jobs, assignee[j] = w PROVE JobInv(j)'
  BY <1>1, <1>3, <1>5, <1>8 DEF JobInv, InFlight, Owed, GivingBack, jobVars
<1>9. WorkerInv(w)'
  BY <1>1, <1>5, <1>6 DEF WorkerInv
<1>10. QED
  BY <1>1, <1>2, <1>4, <1>7, <1>8, <1>9, HandlerHere DEF Live

LEMMA HeartbeatHere ==
  ASSUME DispatchInv, DispatchInv', NEW s \in Socks, Heartbeat(s), PoolInv(WorkerOf[s])
  PROVE  HandlerStep(s) /\ PoolInv(WorkerOf[s])'
<1> DEFINE w == WorkerOf[s]
<1> USE WorkerOfAssumption, NoSockAssumption
<1>1. /\ sock[s] = "open" /\ seen'[s] = "expired"
      /\ UNCHANGED <<status, idle, conn, sock, peer, toClient, inbox, jobVars>>
  BY DEF Heartbeat, poolVars, wireVars, DispatchInv, TypeOK
<1>2. HandlerStep(s)
  BY DEF Heartbeat, HandlerStep, poolVars, wireVars, DispatchInv, TypeOK
<1>3. /\ SockInv(s) /\ WireInv(s) /\ WorkerInv(w) /\ s \in Mine(w)
      /\ \A j \in Jobs : assignee[j] = w => JobInv(j)
  BY HandlerFacts
<1>4. \A r \in Mine(w) : ~Live(r) \/ r = s
  BY <1>1, HandlerFacts DEF Live
<1>5. SockInv(s)'
  BY <1>1, <1>3 DEF SockInv, Serving
<1>6. WireInv(s)'
  BY <1>1, <1>3 DEF WireInv, NoWire, Carries, Owed, InFlight, jobVars
<1>7. ASSUME NEW j \in Jobs, assignee[j] = w PROVE JobInv(j)'
  BY <1>1, <1>3, <1>7 DEF JobInv, InFlight, Owed, GivingBack, NoWire, Works, jobVars
<1>8. WorkerInv(w)'
  BY <1>1, <1>3 DEF WorkerInv, InFlight, Owed, GivingBack, NoWire, Works, jobVars
<1>9. QED
  BY <1>1, <1>2, <1>4, <1>5, <1>6, <1>7, <1>8, HandlerHere DEF Live

LEMMA HandshakeHere ==
  ASSUME DispatchInv, DispatchInv', NEW s \in Socks, Handshake(s), Prompt(s),
         PoolInv(WorkerOf[s])
  PROVE  HandlerStep(s) /\ PoolInv(WorkerOf[s])'
<1> DEFINE w == WorkerOf[s]
<1> USE WorkerOfAssumption, NoSockAssumption
<1>1. /\ sock[s] = "unused" /\ sock'[s] = "accepting" /\ peer'[s] = "up"
      /\ UNCHANGED <<idle, conn, toClient, inbox, jobVars>>
  BY DEF Handshake, wireVars, DispatchInv, TypeOK
<1>2. \/ status'[w] = "active" /\ seen'[s] = seen[s]
      \/ status'[w] = status[w] /\ seen'[s] = status[w]
  <2>1. CASE status[w] = "quarantined"
    <3>1. status' = [status EXCEPT ![w] = "active"] /\ seen' = seen
      BY <2>1 DEF Handshake
    <3>2. status \in [Workers -> Status] /\ w \in Workers
      BY DEF DispatchInv, TypeOK
    <3>3. QED
      BY <3>1, <3>2
  <2>2. CASE status[w] # "quarantined"
    BY <2>2 DEF Handshake, DispatchInv, TypeOK
  <2>3. QED
    BY <2>1, <2>2
<1>3. HandlerStep(s)
  BY DEF Handshake, HandlerStep, wireVars, DispatchInv, TypeOK
<1>4. /\ SockInv(s) /\ WireInv(s) /\ WorkerInv(w) /\ s \in Mine(w)
      /\ \A j \in Jobs : assignee[j] = w => JobInv(j)
  BY HandlerFacts
<1>5. /\ \A r \in Mine(w) : ~Live(r)
      /\ \A j \in Jobs : InFlight(j) => assignee[j] # w
  BY <1>1 DEF Prompt, EarlierSocketsCleanedUp, Live, Mine
<1>6. conn[w] = NoSock /\ seen[s] = "expired" /\ NoWire(s)
  <2>1. conn[w] \in Socks => conn[w] \in Mine(w) /\ Live(conn[w])
    BY DEF DispatchInv, ConnectionsAreServed, Mine, Live
  <2>2. conn[w] \in Socks \cup {NoSock}
    BY DEF DispatchInv, TypeOK
  <2>3. QED
    BY <1>1, <1>4, <1>5, <2>1, <2>2 DEF SockInv
<1>7. w \notin idle /\ status'[w] # "busy"
  <2>1. \A j \in Jobs : ~(job[j] = "resetting" /\ assignee[j] = w)
    BY <1>4, <1>6 DEF JobInv, GivingBack
  <2>2. \A r \in Mine(w) : sock[r] # "leaving"
    BY <1>5 DEF Live
  <2>3. QED
    BY <1>2, <1>4, <1>6, <2>1, <2>2 DEF WorkerInv
<1>8. SockInv(s)' /\ WireInv(s)'
  BY <1>1, <1>2, <1>5, <1>6 DEF SockInv, Serving, WireInv, NoWire, jobVars, InFlight
<1>9. ASSUME NEW j \in Jobs, assignee[j] = w PROVE JobInv(j)'
  BY <1>1, <1>4, <1>5, <1>6, <1>9 DEF JobInv, InFlight, Owed, GivingBack, jobVars
<1>10. WorkerInv(w)'
  BY <1>1, <1>6, <1>7 DEF WorkerInv
<1>11. QED
  BY <1>1, <1>3, <1>5, <1>8, <1>9, <1>10, HandlerHere

LEMMA DropHere ==
  ASSUME DispatchInv, DispatchInv', NEW s \in Socks, Drop(s), PoolInv(WorkerOf[s])
  PROVE  HandlerStep(s) /\ PoolInv(WorkerOf[s])'
<1> DEFINE w == WorkerOf[s]
<1> USE WorkerOfAssumption, NoSockAssumption
<1>1. /\ sock[s] = "open" /\ peer[s] = "down" /\ conn'[w] = NoSock /\ w \notin idle'
      /\ \A j \in Jobs : job[j] \notin JobMidSection
      /\ UNCHANGED <<status, peer, toClient, inbox, jobVars>>
  BY DEF Drop, LoopFree, wireVars, DispatchInv, TypeOK
<1>2. IF Loaded(s) \in {"quarantined", "removed", "deactivated"}
        THEN sock'[s] = "closed"
        ELSE sock'[s] = "leaving" /\ seen'[s] = Loaded(s)
  BY DEF Drop, DispatchInv, TypeOK
<1>3. HandlerStep(s)
  <2>1. \A r \in Socks \ {s} : sock'[r] = sock[r] /\ seen'[r] = seen[r]
    BY DEF Drop, DispatchInv, TypeOK
  <2>2. QED
    BY <2>1 DEF Drop, HandlerStep, wireVars, DispatchInv, TypeOK
<1>4. /\ SockInv(s) /\ WireInv(s) /\ WorkerInv(w) /\ s \in Mine(w)
      /\ \A j \in Jobs : assignee[j] = w => JobInv(j)
  BY HandlerFacts
<1>5. \A r \in Mine(w) : ~Live(r) \/ r = s
  BY <1>1, HandlerFacts DEF Live
<1>6. Loaded(s) = status[w]
  BY <1>1, <1>4 DEF SockInv, Loaded
<1>7. SockInv(s)'
  BY <1>1, <1>2, <1>6 DEF SockInv, Serving
<1>8. WireInv(s)'
  BY <1>1, <1>4 DEF WireInv, NoWire, Carries
<1>9. ASSUME NEW j \in Jobs, assignee[j] = w PROVE JobInv(j)'
  <2>1. JobInv(j) /\ via'[j] = via[j] /\ job'[j] = job[j] /\ assignee'[j] = w
        /\ future'[j] = future[j]
    BY <1>1, <1>4, <1>9 DEF jobVars
  <2>2. job[j] # "claimed" /\ job[j] \notin GivingBack
    BY <1>1 DEF JobMidSection, GivingBack
  <2>3. InFlight(j) => sock'[via[j]] \notin {"unused", "accepting", "joining"}
    BY <1>1, <1>2, <1>3, <2>1 DEF JobInv, HandlerStep
  <2>4. QED
    BY <1>1, <1>9, <2>1, <2>2, <2>3 DEF JobInv, InFlight, GivingBack, NoWire
<1>10. WorkerInv(w)'
  BY <1>1, <1>2, <1>4, <1>6 DEF WorkerInv
<1>11. QED
  BY <1>1, <1>3, <1>5, <1>7, <1>8, <1>9, <1>10, HandlerHere DEF Live

LEMMA PrefixOfOne ==
  ASSUME NEW S, NEW q \in Seq(S), NEW n \in 0..Len(q)
  PROVE  /\ q = <<>> => SubSeq(q, 1, n) = <<>>
         /\ \A e \in S : q = <<e>> => SubSeq(q, 1, n) \in {<<>>, <<e>>}
<1>1. q = <<>> => SubSeq(q, 1, n) = <<>>
  OBVIOUS
<1>2. ASSUME NEW e \in S, q = <<e>> PROVE SubSeq(q, 1, n) \in {<<>>, <<e>>}
  <2>1. Len(q) = 1 /\ q[1] = e
    BY <1>2
  <2>2. CASE n = 0
    BY <2>2
  <2>3. CASE n = 1
    <3>1. SubSeq(q, 1, Len(q)) = q
      BY SubSeqFull
    <3>2. QED
      BY <1>2, <2>1, <2>3, <3>1
  <2>4. QED
    BY <2>1, <2>2, <2>3
<1>3. QED
  BY <1>1, <1>2

(* A step of the client or of the network, which changes only what a socket carries. *)
LEMMA WireHere ==
  ASSUME DispatchInv, DispatchInv', NEW s \in Socks, HandlerStep(s), PoolInv(WorkerOf[s]),
         UNCHANGED <<status, idle, conn, sock, seen, jobVars>>,
         sock[s] \notin {"unused", "leaving", "closed"},
         NoWire(s) => NoWire(s)', WireInv(s)'
  PROVE  PoolInv(WorkerOf[s])'
<1> DEFINE w == WorkerOf[s]
<1> USE WorkerOfAssumption, NoSockAssumption
<1>1. /\ SockInv(s) /\ WireInv(s) /\ WorkerInv(w) /\ s \in Mine(w)
      /\ \A j \in Jobs : assignee[j] = w => JobInv(j)
  BY HandlerFacts
<1>2. \A r \in Mine(w) : ~Live(r) \/ r = s
  BY HandlerFacts DEF Live
<1>3. \A r \in Socks : NoWire(r) => NoWire(r)'
  BY DEF NoWire, HandlerStep
<1>4. /\ Works(w)' <=> Works(w)
      /\ \A j \in Jobs : (InFlight(j)' <=> InFlight(j)) /\ assignee'[j] = assignee[j]
  BY TasksStay DEF jobVars
<1>5. SockInv(s)'
  BY <1>1, <1>3, <1>4 DEF SockInv, Serving
<1>6. conn[w] # NoSock => conn[w] \in Socks
  BY DEF DispatchInv, TypeOK
<1>7. ASSUME NEW j \in Jobs, assignee[j] = w PROVE JobInv(j)'
  <2>1. JobInv(j) /\ via'[j] = via[j] /\ job'[j] = job[j] /\ assignee'[j] = w
        /\ future'[j] = future[j]
    BY <1>1, <1>7 DEF jobVars
  <2>2. /\ job[j] \in {"claimed", "sending"} => NoWire(via[j])'
        /\ job[j] \in GivingBack => NoWire(conn[w])'
    BY <1>3, <1>6, <1>7, <2>1 DEF JobInv, InFlight
  <2>3. QED
    BY <1>4, <1>7, <2>1, <2>2 DEF JobInv, Owed, InFlight, NoWire
<1>8. WorkerInv(w)'
  <2>1. w \in idle => NoWire(conn[w])'
    BY <1>1, <1>3, <1>6 DEF WorkerInv, NoWire
  <2>2. QED
    BY <1>1, <1>4, <2>1 DEF WorkerInv, jobVars, NoWire
<1>9. QED
  BY <1>2, <1>5, <1>7, <1>8, HandlerHere DEF Live

LEMMA PeerDropHere ==
  ASSUME DispatchInv, DispatchInv', NEW s \in Socks, PeerDrop(s), PoolInv(WorkerOf[s])
  PROVE  HandlerStep(s) /\ PoolInv(WorkerOf[s])'
<1> USE WorkerOfAssumption, NoSockAssumption
<1>1. /\ peer[s] = "up" /\ toClient'[s] = <<>>
      /\ UNCHANGED <<status, idle, conn, sock, seen, jobVars>>
  BY DEF PeerDrop, poolVars, DispatchInv, TypeOK
<1>2. PICK n \in 0..Len(inbox[s]) : inbox' = [inbox EXCEPT ![s] = SubSeq(@, 1, n)]
  BY DEF PeerDrop
<1>3. HandlerStep(s)
  BY <1>2 DEF PeerDrop, HandlerStep, poolVars, DispatchInv, TypeOK
<1>4. WireInv(s) /\ sock[s] \notin {"unused", "leaving", "closed"}
  BY <1>1, HandlerFacts DEF SockInv
<1>5. inbox[s] \in Seq(Message) /\ inbox'[s] = SubSeq(inbox[s], 1, n)
  BY <1>2 DEF DispatchInv, TypeOK
<1>6. NoWire(s) => NoWire(s)'
  BY <1>1, <1>5, PrefixOfOne DEF NoWire
<1>7. ASSUME NEW j \in Jobs, Carries(s, j) PROVE Carries(s, j)' \/ NoWire(s)'
  <2>1. CASE inbox[s] = <<>>
    BY <1>1, <1>5, <2>1, PrefixOfOne DEF NoWire
  <2>2. ASSUME NEW m \in Message, m.job = j, inbox[s] = <<m>>
        PROVE  Carries(s, j)' \/ NoWire(s)'
    <3>1. \A e \in Message : inbox[s] = <<e>> => SubSeq(inbox[s], 1, n) \in {<<>>, <<e>>}
      BY <1>5, PrefixOfOne
    <3>2. inbox'[s] \in {<<>>, <<m>>}
      BY <1>5, <2>2, <3>1
    <3>3. QED
      BY <1>1, <2>2, <3>2 DEF Carries, NoWire
  <2>3. QED
    BY <1>7, <2>1, <2>2 DEF Carries
<1>8. WireInv(s)'
  BY <1>1, <1>4, <1>6, <1>7 DEF WireInv, Owed, InFlight, jobVars
<1>9. QED
  BY <1>1, <1>3, <1>4, <1>6, <1>8, WireHere

LEMMA ClientAnswerHere ==
  ASSUME DispatchInv, DispatchInv', NEW s \in Socks,
         NEW type \in {"result", "data_error", "error"}, ClientAnswer(s, type),
         PoolInv(WorkerOf[s])
  PROVE  HandlerStep(s) /\ PoolInv(WorkerOf[s])'
<1> USE WorkerOfAssumption, NoSockAssumption
<1>1. /\ peer[s] = "up" /\ toClient[s] # <<>> /\ toClient'[s] = Tail(toClient[s])
      /\ inbox'[s] = Append(inbox[s], [type |-> type, job |-> Head(toClient[s])])
      /\ UNCHANGED <<status, idle, conn, sock, seen, jobVars>>
  BY DEF ClientAnswer, poolVars, sockVars, DispatchInv, TypeOK
<1>2. HandlerStep(s)
  BY DEF ClientAnswer, HandlerStep, poolVars, sockVars, DispatchInv, TypeOK
<1>3. WireInv(s) /\ sock[s] \notin {"unused", "leaving", "closed"} /\ ~NoWire(s)
  BY <1>1, HandlerFacts DEF SockInv, NoWire
<1>4. PICK j \in Jobs : /\ Carries(s, j)
                        /\ \/ Owed(j) \/ status[WorkerOf[s]] = "quarantined"
                           \/ conn[WorkerOf[s]] # s
  BY <1>3 DEF WireInv
<1>5. toClient[s] = <<j>> /\ inbox[s] = <<>>
  BY <1>1, <1>4 DEF Carries
<1>6. Head(<<j>>) = j /\ Tail(<<j>>) = <<>>
  OBVIOUS
<1>7. [type |-> type, job |-> j] \in Message
  BY DEF Message
<1>8. inbox'[s] = <<[type |-> type, job |-> j]>> /\ toClient'[s] = <<>>
  BY <1>1, <1>5, <1>6
<1>9. Carries(s, j)'
  BY <1>7, <1>8 DEF Carries
<1>10. WireInv(s)'
  BY <1>1, <1>4, <1>9 DEF WireInv, Owed, InFlight, jobVars
<1>11. QED
  BY <1>1, <1>2, <1>3, <1>10, WireHere

-----------------------------------------------------------------------------
(* A message is received: what its handler and its dispatch were at, and that *)
(* nobody works on the worker afterwards.                                     *)
LEMMA WorkerHere ==
  ASSUME ConnectionsAreServed', TypeOK', NEW s \in Socks, PoolInv(WorkerOf[s]),
         \A r \in Mine(WorkerOf[s]) \ {s} :
           /\ ~Live(r)
           /\ sock'[r] = sock[r] /\ peer'[r] = peer[r] /\ seen'[r] = seen[r]
           /\ toClient'[r] = toClient[r] /\ inbox'[r] = inbox[r],
         SockInv(s)', WireInv(s)', OneTask(WorkerOf[s])',
         \A j \in Jobs : assignee'[j] = WorkerOf[s] => JobInv(j)',
         WorkerInv(WorkerOf[s])'
  PROVE  PoolInv(WorkerOf[s])'
<1> DEFINE w == WorkerOf[s]
<1> USE WorkerOfAssumption, NoSockAssumption
<1>1. OneLive(w)'
  BY DEF OneLive, Live
<1>2. ASSUME NEW r \in Mine(w), r # s PROVE SockInv(r)' /\ WireInv(r)'
  <2>1. SockInv(r) /\ WireInv(r) /\ r \in Socks
    BY <1>2 DEF PoolInv, Mine
  <2>2. QED
    BY <1>2, <2>1, DeadSocket
<1>3. QED
  BY <1>1, <1>2 DEF PoolInv

LEMMA Received ==
  ASSUME DispatchInv, NEW s \in Socks, NEW type, NEW value \in {"result", "error"},
         Receive(s, type, value), UNCHANGED <<toClient, job, assignee, via>>,
         PoolInv(WorkerOf[s])
  PROVE  /\ sock[s] = "open" /\ conn[WorkerOf[s]] = s /\ LoopFree
         /\ status[WorkerOf[s]] \in {"busy", "quarantined"} /\ WorkerOf[s] \notin idle
         /\ NoWire(s)' /\ ~Works(WorkerOf[s])'
         /\ \A j \in Jobs : future'[j] # future[j] =>
              assignee[j] = WorkerOf[s] /\ job[j] = "waiting" /\ future'[j] # "none"
<1> DEFINE w == WorkerOf[s]
           i == Head(inbox[s]).job
<1> USE WorkerOfAssumption, NoSockAssumption
<1>1. TypeOK /\ PendingInv /\ AnswersAreRouted
  BY DEF DispatchInv
<1>2. /\ SockInv(s) /\ WireInv(s) /\ WorkerInv(w) /\ s \in Mine(w)
      /\ \A j \in Jobs : assignee[j] = w => JobInv(j)
  BY HandlerFacts
<1>3. sock[s] = "open" /\ LoopFree /\ conn[w] = s /\ inbox[s] # <<>> /\ ~NoWire(s)
  BY <1>2 DEF Receive, SockInv, Serving, NoWire
<1>4. PICK j \in Jobs : Carries(s, j) /\ (Owed(j) \/ status[w] = "quarantined")
  BY <1>2, <1>3 DEF WireInv
<1>5. toClient[s] = <<>> /\ \E m \in Message : m.job = j /\ inbox[s] = <<m>>
  BY <1>3, <1>4 DEF Carries
<1>6. j = i /\ Tail(inbox[s]) = <<>>
  BY <1>5
<1>7. SentBy(j, s)
  BY <1>5 DEF DispatchInv, AnswersAreRouted, Range
<1>8. NoWire(s)'
  BY <1>1, <1>5, <1>6 DEF Receive, NoWire, TypeOK
<1>9. future' = [future EXCEPT ![j] = IF j \in pending THEN value ELSE @]
  BY <1>6 DEF Receive
<1> HIDE DEF i
<1>10. w \notin idle
  BY <1>2, <1>3 DEF WorkerInv
<1>11. assignee[j] = w /\ job[j] \in {"waiting", "done"} /\ JobInv(j)
  BY <1>2, <1>7 DEF SentBy
<1>12. \A k \in Jobs : future'[k] # future[k] =>
         assignee[k] = w /\ job[k] = "waiting" /\ future'[k] # "none"
  BY <1>1, <1>9, <1>11 DEF PendingInv, TypeOK
<1>13. CASE status[w] = "quarantined"
  <2>1. ~Works(w)
    BY <1>2, <1>3, <1>13 DEF Works, JobInv, LoopFree, JobMidSection
  <2>2. \A k \in Jobs : Owed(k)' => Owed(k)
    BY <1>1, <1>9 DEF Owed, InFlight, PendingInv, TypeOK
  <2>3. ~Works(w)'
    BY <2>1, <2>2 DEF Works
  <2>4. QED
    BY <1>3, <1>8, <1>10, <1>12, <1>13, <2>3
<1>14. CASE status[w] # "quarantined"
  <2>1. Owed(j)
    BY <1>4, <1>14
  <2>2. status[w] = "busy" /\ j \in pending
    BY <1>1, <1>3, <1>11, <2>1 DEF JobInv, Owed, InFlight, PendingInv, TypeOK
  <2>3. \A k \in Jobs : Owed(k)' => Owed(k) /\ k # j
    BY <1>1, <1>9, <2>2 DEF Owed, InFlight, PendingInv, TypeOK
  <2>4. \A k \in Jobs : Owed(k) /\ assignee[k] = w => k = j
    BY <1>11, <2>1 DEF PoolInv, OneTask
  <2>5. ~Works(w)'
    BY <2>3, <2>4 DEF Works
  <2>6. QED
    BY <1>3, <1>8, <1>10, <1>12, <2>2, <2>5
<1>15. QED
  BY <1>13, <1>14

(* What is known of the dispatches of a worker after its message was received. *)
LEMMA ReceivedJobs ==
  ASSUME DispatchInv, DispatchInv', NEW s \in Socks, NEW type,
         NEW value \in {"result", "error"},
         Receive(s, type, value), UNCHANGED <<toClient, job, assignee, via, conn>>,
         PoolInv(WorkerOf[s]), sock'[s] \in {"open", "resuming"},
         \A r \in Socks \ {s} : sock'[r] = sock[r] /\ inbox'[r] = inbox[r]
  PROVE  /\ OneTask(WorkerOf[s])'
         /\ \A j \in Jobs : assignee'[j] = WorkerOf[s] => JobInv(j)'
<1> DEFINE w == WorkerOf[s]
<1> USE WorkerOfAssumption, NoSockAssumption
<1>1. /\ sock[s] = "open" /\ conn[w] = s /\ LoopFree /\ NoWire(s)' /\ ~Works(w)'
      /\ \A j \in Jobs : future'[j] # future[j] =>
           assignee[j] = w /\ job[j] = "waiting" /\ future'[j] # "none"
  BY Received
<1>2. \A j \in Jobs : assignee[j] = w => JobInv(j)
  BY HandlerFacts
<1>3. OneTask(w)'
  BY <1>1 DEF OneTask, Works
<1>4. ASSUME NEW j \in Jobs, assignee'[j] = w PROVE JobInv(j)'
  <2>1. JobInv(j) /\ assignee[j] = w /\ job'[j] = job[j] /\ via'[j] = via[j]
    BY <1>2, <1>4
  <2>2. ~Owed(j)'
    BY <1>1, <1>4 DEF Works
  <2>3. job[j] \notin JobMidSection
    BY <1>1 DEF LoopFree
  <2>4. job[j] \in {"claimed", "sending"} => NoWire(via[j])'
    BY <1>1, <2>1 DEF JobInv, InFlight, NoWire
  <2>5. InFlight(j) => /\ via[j] \in Socks
                       /\ sock'[via[j]] \notin {"unused", "accepting", "joining"}
                       /\ conn[w] # NoSock => conn[w] = via[j]
    BY <1>4, <2>1 DEF JobInv
  <2>6. /\ job[j] = "sending" => future'[j] = "pending"
        /\ job[j] = "waiting" => future'[j] # "none"
    BY <1>1, <2>1 DEF JobInv
  <2>7. job'[j] \notin GivingBack /\ job'[j] # "claimed"
    BY <2>1, <2>3 DEF GivingBack, JobMidSection
  <2>8. InFlight(j)' <=> InFlight(j)
    BY <2>1 DEF InFlight
  <2>9. QED
    BY <1>4, <2>1, <2>2, <2>4, <2>5, <2>6, <2>7, <2>8 DEF JobInv
<1>5. QED
  BY <1>3, <1>4

LEMMA RecvAnswerHere ==
  ASSUME DispatchInv, DispatchInv', NEW s \in Socks, NEW type,
         NEW value \in {"result", "error"}, RecvAnswer(s, type, value),
         PoolInv(WorkerOf[s])
  PROVE  /\ PoolInv(WorkerOf[s])'
         /\ \A v \in Workers \ {WorkerOf[s]} : Untouched(v)
<1> DEFINE w == WorkerOf[s]
<1> USE WorkerOfAssumption, NoSockAssumption
<1>1. Receive(s, type, value) /\ TypeOK
      /\ UNCHANGED <<status, idle, conn, peer, toClient, job, assignee, via>>
  BY DEF RecvAnswer, DispatchInv
<1>2. /\ sock[s] = "open" /\ conn[w] = s /\ LoopFree
      /\ status[w] \in {"busy", "quarantined"} /\ w \notin idle
      /\ NoWire(s)' /\ ~Works(w)'
      /\ \A j \in Jobs : future'[j] # future[j] =>
           assignee[j] = w /\ job[j] = "waiting" /\ future'[j] # "none"
  BY <1>1, Received
<1>3. /\ seen'[s] = status[w]
      /\ sock'[s] = IF status[w] = "busy" THEN "resuming" ELSE "open"
      /\ \A r \in Socks \ {s} :
           sock'[r] = sock[r] /\ seen'[r] = seen[r] /\ inbox'[r] = inbox[r]
  BY <1>1, <1>2 DEF RecvAnswer, Receive, TypeOK
<1>4. SockInv(s)' /\ WireInv(s)'
  BY <1>1, <1>2, <1>3 DEF SockInv, WireInv, Serving
<1>5. WorkerInv(w)'
  BY <1>1, <1>2, <1>3 DEF WorkerInv
<1>6. OneTask(w)' /\ \A j \in Jobs : assignee'[j] = w => JobInv(j)'
  BY <1>1, <1>3, ReceivedJobs
<1>7. \A r \in Mine(w) \ {s} : ~Live(r) /\ r \in Socks
  BY <1>2, HandlerFacts DEF Live, Mine
<1>8. PoolInv(w)'
  BY <1>1, <1>3, <1>4, <1>5, <1>6, <1>7, WorkerHere DEF DispatchInv
<1>9. ASSUME NEW v \in Workers, v # w PROVE Untouched(v)
  BY <1>1, <1>2, <1>3, <1>9 DEF Untouched, Mine, Engaged
<1>10. QED
  BY <1>8, <1>9

LEMMA RecvErrorHere ==
  ASSUME DispatchInv, DispatchInv', NEW s \in Socks, RecvError(s), PoolInv(WorkerOf[s])
  PROVE  /\ PoolInv(WorkerOf[s])'
         /\ \A v \in Workers \ {WorkerOf[s]} : Untouched(v)
<1> DEFINE w == WorkerOf[s]
<1> USE WorkerOfAssumption, NoSockAssumption
<1>1. Receive(s, "error", "error") /\ TypeOK
      /\ UNCHANGED <<conn, sock, peer, toClient, job, assignee, via>>
  BY DEF RecvError, DispatchInv
<1>2. /\ sock[s] = "open" /\ conn[w] = s /\ LoopFree
      /\ NoWire(s)' /\ ~Works(w)'
      /\ \A j \in Jobs : future'[j] # future[j] =>
           assignee[j] = w /\ job[j] = "waiting" /\ future'[j] # "none"
  BY <1>1, Received
<1>3. /\ seen'[s] = "expired" /\ w \notin idle'
      /\ \A r \in Socks \ {s} : seen'[r] = seen[r] /\ inbox'[r] = inbox[r]
      /\ \A v \in Workers \ {w} : status'[v] = status[v] /\ (v \in idle' <=> v \in idle)
  BY <1>1 DEF RecvError, Receive, TypeOK
<1>4. status'[w] = "quarantined"
  <2>1. status'[w] = Flush(Loaded(s), "quarantined", status[w])
    BY <1>1 DEF RecvError, TypeOK
  <2>2. Loaded(s) = status[w]
    BY <1>2, HandlerFacts DEF SockInv, Loaded
  <2>3. QED
    BY <2>1, <2>2 DEF Flush
<1>5. SockInv(s)' /\ WireInv(s)'
  BY <1>1, <1>2, <1>3 DEF SockInv, WireInv, Serving
<1>6. WorkerInv(w)'
  BY <1>1, <1>2, <1>3, <1>4 DEF WorkerInv
<1>7. OneTask(w)' /\ \A j \in Jobs : assignee'[j] = w => JobInv(j)'
  BY <1>1, <1>2, <1>3, ReceivedJobs
<1>8. \A r \in Mine(w) \ {s} : ~Live(r) /\ r \in Socks
  BY <1>2, HandlerFacts DEF Live, Mine
<1>9. PoolInv(w)'
  BY <1>1, <1>3, <1>5, <1>6, <1>7, <1>8, WorkerHere DEF DispatchInv
<1>10. ASSUME NEW v \in Workers, v # w PROVE Untouched(v)
  BY <1>1, <1>2, <1>3, <1>10 DEF Untouched, Mine, Engaged
<1>11. QED
  BY <1>9, <1>10

-----------------------------------------------------------------------------
(* The steps of a dispatch. *)
DispatchStep(j, w) ==
  /\ UNCHANGED <<sockVars, inbox>>
  /\ \A s \in Socks : toClient'[s] # toClient[s] => s \in Mine(w)
  /\ \A v \in Workers \ {w} : status'[v] = status[v] /\ (v \in idle' <=> v \in idle)
  /\ assignee'[j] = w /\ (Engaged(j, assignee[j]) => assignee[j] = w)
  /\ \A i \in Jobs \ {j} : /\ job'[i] = job[i] /\ assignee'[i] = assignee[i]
                          /\ via'[i] = via[i] /\ future'[i] = future[i]

LEMMA DispatchElsewhere ==
  ASSUME NEW j \in Jobs, NEW w \in Workers, DispatchStep(j, w),
         NEW v \in Workers \ {w}
  PROVE  Untouched(v)
<1>1. \A s \in Mine(v) :
        /\ sock'[s] = sock[s] /\ peer'[s] = peer[s] /\ seen'[s] = seen[s]
        /\ toClient'[s] = toClient[s] /\ inbox'[s] = inbox[s]
  BY DEF DispatchStep, Mine, sockVars
<1>2. \A i \in Jobs :
        /\ Engaged(i, v)' <=> Engaged(i, v)
        /\ Engaged(i, v) => job'[i] = job[i] /\ via'[i] = via[i] /\ future'[i] = future[i]
  BY DEF DispatchStep, Engaged
<1>3. QED
  BY <1>1, <1>2 DEF DispatchStep, Untouched, sockVars

(* The dispatch returns, having got its answer or lost its worker. *)
LEMMA DoneHere ==
  ASSUME DispatchInv, DispatchInv', NEW j \in Jobs, PoolInv(assignee[j]),
         UNCHANGED <<status, idle, sockVars, inbox, toClient, assignee, via>>,
         \A i \in Jobs \ {j} : job'[i] = job[i] /\ future'[i] = future[i],
         job[j] \in {"sending", "waiting"}, job'[j] = "done",
         \/ ~Owed(j)
         \/ conn[assignee[j]] = NoSock /\ status[assignee[j]] # "busy"
  PROVE  PoolInv(assignee[j])' /\ DispatchStep(j, assignee[j])
<1> DEFINE w == assignee[j]
<1> USE WorkerOfAssumption, NoSockAssumption
<1>1. w \in Workers /\ UNCHANGED <<conn, sock, peer, seen>>
  BY DEF DispatchInv, TypeOK, sockVars
<1>2. DispatchStep(j, w)
  BY <1>1 DEF DispatchStep, Engaged
<1>3. \A i \in Jobs \ {j} : (Owed(i)' <=> Owed(i)) /\ (InFlight(i)' <=> InFlight(i))
  BY DEF Owed, InFlight
<1>4. ~Owed(j)' /\ ~InFlight(j)'
  BY DEF Owed, InFlight
<1>5. Works(w)' => Works(w)
  BY <1>1, <1>3, <1>4 DEF Works
<1>6. \A s \in Socks : (NoWire(s)' <=> NoWire(s))
  BY DEF NoWire
<1>7. OneLive(w)'
  BY <1>1 DEF PoolInv, OneLive, Live
<1>8. OneTask(w)'
  BY <1>1, <1>3, <1>4 DEF PoolInv, OneTask
<1>9. ASSUME NEW s \in Mine(w) PROVE SockInv(s)' /\ WireInv(s)'
  <2>1. SockInv(s) /\ WireInv(s) /\ s \in Socks /\ WorkerOf[s] = w
    BY <1>9 DEF PoolInv, Mine
  <2>2. \A i \in Jobs : InFlight(i)' /\ assignee'[i] = w => InFlight(i) /\ assignee[i] = w
    BY <1>3, <1>4
  <2>3. SockInv(s)'
    BY <1>1, <1>5, <1>6, <2>1, <2>2 DEF SockInv
  <2>4. \A i \in Jobs : Carries(s, i)' <=> Carries(s, i)
    BY DEF Carries
  <2>5. \A i \in Jobs : Owed(i) => Owed(i)' \/ conn[w] # s
    BY <1>3, <2>1
  <2>6. WireInv(s)'
    BY <1>1, <1>6, <2>1, <2>4, <2>5 DEF WireInv
  <2>7. QED
    BY <2>3, <2>6
<1>10. ASSUME NEW i \in Jobs, assignee'[i] = w PROVE JobInv(i)'
  <2>1. CASE i = j
    BY <2>1, <1>4 DEF JobInv, GivingBack
  <2>2. CASE i # j
    <3>1. JobInv(i) /\ via[i] \in Socks \cup {NoSock}
      BY <1>10 DEF PoolInv, DispatchInv, TypeOK
    <3>2. conn[w] \in Socks \cup {NoSock}
      BY <1>1 DEF DispatchInv, TypeOK
    <3>3. QED
      BY <1>1, <1>3, <1>5, <1>6, <1>10, <2>2, <3>1, <3>2 DEF JobInv, InFlight, GivingBack
  <2>3. QED
    BY <2>1, <2>2
<1>11. WorkerInv(w)'
  <2>1. WorkerInv(w) /\ (conn[w] # NoSock => conn[w] \in Socks)
    BY <1>1 DEF PoolInv, DispatchInv, TypeOK
  <2>2. \A i \in Jobs : job[i] \in GivingBack => job'[i] = job[i]
    BY DEF GivingBack
  <2>3. CASE ~Owed(j)
    <3>1. Works(w)' <=> Works(w)
      BY <1>1, <1>3, <1>4, <2>3 DEF Works
    <3>2. QED
      BY <1>1, <1>6, <2>1, <2>2, <3>1 DEF WorkerInv, GivingBack
  <2>4. CASE conn[w] = NoSock /\ status[w] # "busy"
    BY <1>1, <2>1, <2>4 DEF WorkerInv
  <2>5. QED
    BY <2>3, <2>4
<1>12. QED
  BY <1>2, <1>7, <1>8, <1>9, <1>10, <1>11 DEF PoolInv

(* The socket a worker is connected by. *)
LEMMA Connected ==
  ASSUME DispatchInv, NEW w \in Workers, PoolInv(w), NEW s, s = conn[w], s # NoSock
  PROVE  /\ s \in Socks /\ WorkerOf[s] = w /\ s \in Mine(w) /\ SockInv(s) /\ WireInv(s)
         /\ \A r \in Mine(w) \ {s} : r \in Socks /\ ~Live(r)
<1>1. s \in Socks
  BY DEF DispatchInv, TypeOK
<1>2. WorkerOf[s] = w /\ Live(s)
  BY DEF DispatchInv, ConnectionsAreServed, Live
<1>3. QED
  BY <1>1, <1>2 DEF PoolInv, OneLive, Mine

LEMMA ClaimHere ==
  ASSUME DispatchInv, DispatchInv', NEW j \in Jobs, NEW w \in Workers, Claim(j, w),
         PoolInv(w)
  PROVE  PoolInv(w)' /\ DispatchStep(j, w)
<1> DEFINE s == conn[w]
<1> USE WorkerOfAssumption, NoSockAssumption
<1>1. TypeOK /\ PendingInv
  BY DEF DispatchInv
<1>2. /\ LoopFree /\ job[j] = "new" /\ w \in idle /\ s # NoSock /\ w \notin idle'
      /\ job'[j] = "claimed" /\ assignee'[j] = w /\ via'[j] = s /\ future[j] = "none"
      /\ UNCHANGED <<status, conn, sock, peer, seen, toClient, inbox, future>>
  BY <1>1 DEF Claim, TypeOK, PendingInv, sockVars, wireVars
<1>3. \A i \in Jobs \ {j} :
        job'[i] = job[i] /\ assignee'[i] = assignee[i] /\ via'[i] = via[i]
  BY <1>1 DEF Claim, TypeOK
<1>4. DispatchStep(j, w)
  BY <1>1, <1>2, <1>3 DEF Claim, DispatchStep, Engaged, TypeOK, wireVars
<1>5. /\ s \in Socks /\ WorkerOf[s] = w /\ SockInv(s)
      /\ \A r \in Mine(w) \ {s} : r \in Socks /\ ~Live(r)
  BY <1>2, Connected
<1>6. status[w] = "active" /\ ~Works(w) /\ sock[s] = "open" /\ NoWire(s)
  BY <1>2 DEF PoolInv, WorkerInv
<1>7. NoWire(s)' /\ Owed(j)' /\ InFlight(j)'
  BY <1>2, <1>6 DEF NoWire, Owed, InFlight
<1>8. \A i \in Jobs \ {j} : assignee[i] = w => ~Owed(i) /\ ~Owed(i)'
  BY <1>2, <1>3, <1>6 DEF Works, Owed, InFlight
<1>9. SockInv(s)' /\ WireInv(s)'
  BY <1>2, <1>5, <1>6, <1>7 DEF SockInv, WireInv, Serving
<1>10. OneTask(w)'
  BY <1>3, <1>8 DEF OneTask
<1>11. ASSUME NEW i \in Jobs, assignee'[i] = w PROVE JobInv(i)'
  <2>1. CASE i = j
    BY <1>2, <1>5, <1>6, <1>7, <2>1 DEF JobInv, GivingBack
  <2>2. CASE i # j
    <3>1. JobInv(i) /\ ~Owed(i)' /\ job[i] \notin JobMidSection /\ ~Owed(i)
      BY <1>2, <1>3, <1>8, <1>11, <2>2 DEF PoolInv, LoopFree
    <3>2. job[i] # "sending"
      BY <3>1 DEF JobInv, Owed, InFlight
    <3>3. QED
      BY <1>2, <1>3, <1>11, <2>2, <3>1, <3>2 DEF JobInv, InFlight, GivingBack, JobMidSection
  <2>3. QED
    BY <2>1, <2>2
<1>12. WorkerInv(w)'
  <2>1. Works(w)'
    BY <1>2, <1>7 DEF Works
  <2>2. QED
    BY <1>2, <1>6, <2>1 DEF WorkerInv
<1>13. PoolInv(w)'
  BY <1>2, <1>5, <1>9, <1>10, <1>11, <1>12, WorkerHere DEF DispatchInv
<1>14. QED
  BY <1>4, <1>13

LEMMA CommitBusyHere ==
  ASSUME DispatchInv, DispatchInv', OneSection, NEW j \in Jobs, CommitBusy(j),
         PoolInv(assignee[j])
  PROVE  PoolInv(assignee[j])' /\ DispatchStep(j, assignee[j])
<1> DEFINE w == assignee[j]
           s == conn[w]
<1> USE WorkerOfAssumption, NoSockAssumption
<1>1. TypeOK /\ PendingInv /\ w \in Workers
  BY DEF DispatchInv, TypeOK
<1>2. /\ job[j] = "claimed" /\ job'[j] = "sending" /\ future'[j] = "pending"
      /\ status'[w] = Flush("active", "busy", status[w]) /\ future[j] = "none"
      /\ UNCHANGED <<idle, conn, sock, peer, seen, toClient, inbox, assignee, via>>
  BY <1>1 DEF CommitBusy, TypeOK, PendingInv, sockVars, wireVars
<1>3. \A i \in Jobs \ {j} : job'[i] = job[i] /\ future'[i] = future[i]
  BY <1>1 DEF CommitBusy, TypeOK
<1>4. DispatchStep(j, w)
  BY <1>1, <1>2, <1>3 DEF CommitBusy, DispatchStep, Engaged, TypeOK, wireVars
<1>5. JobInv(j) /\ Owed(j) /\ InFlight(j)
  BY <1>2 DEF PoolInv, Owed, InFlight
<1>6. /\ s = via[j] /\ s \in Socks /\ status[w] = "active" /\ w \notin idle
      /\ sock[s] = "open" /\ NoWire(s)
  BY <1>2, <1>5 DEF JobInv
<1>7. status'[w] = "busy"
  BY <1>2, <1>6 DEF Flush
<1>8. /\ WorkerOf[s] = w /\ SockInv(s)
      /\ \A r \in Mine(w) \ {s} : r \in Socks /\ ~Live(r)
  BY <1>1, <1>6, Connected
<1>9. NoWire(s)' /\ Owed(j)' /\ InFlight(j)'
  BY <1>2, <1>6 DEF NoWire, Owed, InFlight
<1>10. \A i \in Jobs \ {j} : assignee[i] = w => ~Owed(i) /\ ~Owed(i)'
  BY <1>2, <1>3, <1>5 DEF PoolInv, OneTask, Owed, InFlight
<1>11. SockInv(s)' /\ WireInv(s)'
  BY <1>2, <1>6, <1>8, <1>9 DEF SockInv, WireInv, Serving
<1>12. OneTask(w)'
  BY <1>2, <1>10 DEF OneTask
<1>13. ASSUME NEW i \in Jobs, assignee'[i] = w PROVE JobInv(i)'
  <2>1. CASE i = j
    BY <1>2, <1>5, <1>6, <1>7, <1>9, <2>1 DEF JobInv, GivingBack
  <2>2. CASE i # j
    <3>1. JobInv(i) /\ ~Owed(i)' /\ job[i] \notin JobMidSection /\ ~Owed(i)
      BY <1>2, <1>10, <1>13, <2>2 DEF PoolInv, OneSection, JobMidSection
    <3>2. job[i] # "sending"
      BY <3>1 DEF JobInv, Owed, InFlight
    <3>3. QED
      BY <1>2, <1>3, <1>13, <2>2, <3>1, <3>2 DEF JobInv, InFlight, GivingBack, JobMidSection
  <2>3. QED
    BY <2>1, <2>2
<1>14. WorkerInv(w)'
  <2>1. Works(w)'
    BY <1>2, <1>9 DEF Works
  <2>2. QED
    BY <1>2, <1>6, <2>1 DEF WorkerInv
<1>15. PoolInv(w)'
  BY <1>2, <1>6, <1>8, <1>11, <1>12, <1>13, <1>14, WorkerHere DEF DispatchInv
<1>16. QED
  BY <1>4, <1>15

(* The dispatch gives its worker up and is in the section that gives it back. *)
LEMMA GiveBackHere ==
  ASSUME DispatchInv, DispatchInv', NEW j \in Jobs, NEW w \in Workers, PoolInv(w),
         assignee[j] = w, NEW s, s = conn[w], s # NoSock, sock[s] = "open",
         NoWire(s), seen[s] = "expired",
         UNCHANGED <<sockVars, inbox, toClient, assignee, via>>,
         \A v \in Workers \ {w} : status'[v] = status[v] /\ (v \in idle' <=> v \in idle),
         \A i \in Jobs \ {j} : job'[i] = job[i] /\ future'[i] = future[i],
         \A i \in Jobs \ {j} : assignee[i] = w => ~Owed(i) /\ job[i] \notin JobMidSection,
         \/ job'[j] = "resetting" /\ status'[w] = "busy" /\ w \notin idle'
         \/ job'[j] = "repooling" /\ status'[w] = "active" /\ w \notin idle'
         \/ job'[j] = "done" /\ status'[w] = "active" /\ w \in idle'
  PROVE  PoolInv(w)' /\ DispatchStep(j, w)
<1> USE WorkerOfAssumption, NoSockAssumption
<1>1. DispatchStep(j, w)
  BY DEF DispatchStep, Engaged, sockVars
<1>2. UNCHANGED <<conn, sock, peer, seen>>
  BY DEF sockVars
<1>3. /\ s \in Socks /\ WorkerOf[s] = w /\ SockInv(s)
      /\ \A r \in Mine(w) \ {s} : r \in Socks /\ ~Live(r)
  BY Connected
<1>4. NoWire(s)' /\ ~Owed(j)' /\ ~InFlight(j)'
  BY DEF NoWire, Owed, InFlight
<1>5. \A i \in Jobs : assignee[i] = w => ~Owed(i)'
  BY <1>4 DEF Owed, InFlight
<1>6. ~Works(w)'
  BY <1>5 DEF Works
<1>7. SockInv(s)' /\ WireInv(s)'
  BY <1>2, <1>3, <1>4 DEF SockInv, WireInv, Serving
<1>8. OneTask(w)'
  BY <1>5 DEF OneTask
<1>9. ASSUME NEW i \in Jobs, assignee'[i] = w PROVE JobInv(i)'
  <2>1. CASE i = j
    BY <1>2, <1>4, <1>6, <1>9, <2>1 DEF JobInv, GivingBack
  <2>2. CASE i # j
    <3>1. JobInv(i) /\ ~Owed(i)' /\ job[i] \notin JobMidSection /\ ~Owed(i)
      BY <1>5, <1>9, <2>2 DEF PoolInv
    <3>2. job[i] # "sending"
      BY <3>1 DEF JobInv, Owed, InFlight
    <3>3. QED
      BY <1>2, <1>9, <2>2, <3>1, <3>2 DEF JobInv, InFlight, GivingBack, JobMidSection
  <2>3. QED
    BY <2>1, <2>2
<1>10. WorkerInv(w)'
  BY <1>2, <1>4, <1>6 DEF WorkerInv, GivingBack
<1>11. PoolInv(w)'
  BY <1>2, <1>3, <1>7, <1>8, <1>9, <1>10, WorkerHere DEF DispatchInv
<1>12. QED
  BY <1>1, <1>11

LEMMA ResetWorkerHere ==
  ASSUME DispatchInv, DispatchInv', OneSection, NEW j \in Jobs, ResetWorker(j),
         PoolInv(assignee[j])
  PROVE  PoolInv(assignee[j])' /\ DispatchStep(j, assignee[j])
<1> DEFINE w == assignee[j]
           s == conn[w]
<1>1. TypeOK /\ w \in Workers
  BY DEF DispatchInv, TypeOK
<1>2. /\ job[j] = "resetting" /\ status'[w] = Flush("busy", "active", status[w])
      /\ job'[j] = IF s # NoSock THEN "repooling" ELSE "done"
      /\ UNCHANGED <<idle, sockVars, inbox, toClient, assignee, via, future>>
      /\ \A v \in Workers \ {w} : status'[v] = status[v]
      /\ \A i \in Jobs \ {j} : job'[i] = job[i]
  BY <1>1 DEF ResetWorker, TypeOK, wireVars
<1>3. /\ s # NoSock /\ sock[s] = "open" /\ NoWire(s) /\ w \notin idle /\ ~Works(w)
      /\ status[w] = "busy"
  BY <1>2 DEF PoolInv, JobInv, GivingBack
<1>4. seen[s] = "expired"
  BY <1>1, <1>3, Connected DEF SockInv
<1>5. status'[w] = "active" /\ job'[j] = "repooling"
  BY <1>2, <1>3 DEF Flush
<1>6. \A i \in Jobs \ {j} : assignee[i] = w => ~Owed(i) /\ job[i] \notin JobMidSection
  BY <1>2, <1>3 DEF Works, OneSection, JobMidSection
<1>7. QED
  BY <1>1, <1>2, <1>3, <1>4, <1>5, <1>6, GiveBackHere

LEMMA RepoolWorkerHere ==
  ASSUME DispatchInv, DispatchInv', OneSection, NEW j \in Jobs, RepoolWorker(j),
         PoolInv(assignee[j])
  PROVE  PoolInv(assignee[j])' /\ DispatchStep(j, assignee[j])
<1> DEFINE w == assignee[j]
           s == conn[w]
<1>1. TypeOK /\ w \in Workers
  BY DEF DispatchInv, TypeOK
<1>2. /\ job[j] = "repooling" /\ job'[j] = "done" /\ idle' = idle \cup {w}
      /\ UNCHANGED <<status, sockVars, inbox, toClient, assignee, via, future>>
      /\ \A i \in Jobs \ {j} : job'[i] = job[i]
  BY <1>1 DEF RepoolWorker, TypeOK, wireVars
<1>3. /\ s # NoSock /\ sock[s] = "open" /\ NoWire(s) /\ ~Works(w) /\ status[w] = "active"
  BY <1>2 DEF PoolInv, JobInv, GivingBack
<1>4. seen[s] = "expired"
  BY <1>1, <1>3, Connected DEF SockInv
<1>5. \A i \in Jobs \ {j} : assignee[i] = w => ~Owed(i) /\ job[i] \notin JobMidSection
  BY <1>2, <1>3 DEF Works, OneSection, JobMidSection
<1>6. QED
  BY <1>1, <1>2, <1>3, <1>4, <1>5, GiveBackHere

(* A busy row, when no section is half done, is the row of a connected worker. *)
LEMMA BusyIsConnected ==
  ASSUME NEW w \in Workers, PoolInv(w), LoopFree, status[w] = "busy",
         Works(w) \/ conn[w] = NoSock
  PROVE  conn[w] # NoSock /\ Works(w)
<1>1. \A j \in Jobs : job[j] # "resetting"
  BY DEF LoopFree, JobMidSection
<1>2. \A s \in Mine(w) : sock[s] # "leaving"
  BY DEF LoopFree, SockMidSection, Mine
<1>3. QED
  BY <1>1, <1>2 DEF PoolInv, WorkerInv

LEMMA SendFailsHere ==
  ASSUME DispatchInv, DispatchInv', NEW j \in Jobs, SendFails(j), PoolInv(assignee[j])
  PROVE  PoolInv(assignee[j])' /\ DispatchStep(j, assignee[j])
<1> DEFINE w == assignee[j]
           s == conn[w]
<1>1. TypeOK /\ w \in Workers
  BY DEF DispatchInv, TypeOK
<1>2. /\ LoopFree /\ job[j] = "sending"
      /\ job'[j] = IF status[w] = "busy" THEN "resetting" ELSE "done"
      /\ UNCHANGED <<status, idle, sockVars, inbox, toClient, assignee, via>>
      /\ \A i \in Jobs \ {j} : job'[i] = job[i] /\ future'[i] = future[i]
  BY <1>1 DEF SendFails, Settle, TypeOK, wireVars
<1>3. JobInv(j) /\ Owed(j) /\ Works(w) /\ InFlight(j)
  BY <1>1, <1>2 DEF PoolInv, JobInv, Owed, InFlight, Works
<1>4. CASE status[w] = "busy"
  <2>1. /\ s # NoSock /\ s = via[j] /\ sock[s] = "open" /\ NoWire(s) /\ w \notin idle
    BY <1>1, <1>2, <1>3, <1>4, BusyIsConnected DEF JobInv
  <2>2. seen[s] = "expired"
    BY <1>1, <1>4, <2>1, Connected DEF SockInv
  <2>3. \A i \in Jobs \ {j} : assignee[i] = w => ~Owed(i) /\ job[i] \notin JobMidSection
    BY <1>2, <1>3 DEF PoolInv, OneTask, LoopFree
  <2>4. QED
    BY <1>1, <1>2, <1>4, <2>1, <2>2, <2>3, GiveBackHere
<1>5. CASE status[w] # "busy"
  <2>1. conn[w] = NoSock
    BY <1>2, <1>3, <1>5 DEF JobInv
  <2>2. QED
    BY <1>2, <1>5, <2>1, DoneHere
<1>6. QED
  BY <1>4, <1>5

LEMMA AnsweredHere ==
  ASSUME DispatchInv, DispatchInv', NEW j \in Jobs, Answered(j), PoolInv(assignee[j])
  PROVE  PoolInv(assignee[j])' /\ DispatchStep(j, assignee[j])
<1>1. TypeOK
  BY DEF DispatchInv
<1>2. /\ job[j] = "waiting" /\ job'[j] = "done" /\ future[j] # "pending"
      /\ UNCHANGED <<status, idle, sockVars, inbox, toClient, assignee, via>>
      /\ \A i \in Jobs \ {j} : job'[i] = job[i] /\ future'[i] = future[i]
  BY <1>1 DEF Answered, Settle, TypeOK, wireVars
<1>3. ~Owed(j)
  BY <1>1, <1>2 DEF PoolInv, JobInv, Owed, TypeOK
<1>4. QED
  BY <1>2, <1>3, DoneHere

LEMMA WorkerGoneHere ==
  ASSUME DispatchInv, DispatchInv', NEW j \in Jobs, WorkerGone(j), PoolInv(assignee[j])
  PROVE  PoolInv(assignee[j])' /\ DispatchStep(j, assignee[j])
<1>1. TypeOK /\ assignee[j] \in Workers
  BY DEF DispatchInv, TypeOK
<1>2. /\ job[j] = "waiting" /\ job'[j] = "done" /\ LoopFree /\ conn[assignee[j]] = NoSock
      /\ UNCHANGED <<status, idle, sockVars, inbox, toClient, assignee, via>>
      /\ \A i \in Jobs \ {j} : job'[i] = job[i] /\ future'[i] = future[i]
  BY <1>1 DEF WorkerGone, Settle, TypeOK, wireVars
<1>3. status[assignee[j]] # "busy"
  BY <1>1, <1>2, BusyIsConnected
<1>4. QED
  BY <1>2, <1>3, DoneHere

LEMMA TimeoutHere ==
  ASSUME DispatchInv, DispatchInv', NEW j \in Jobs, Timeout(j), PoolInv(assignee[j])
  PROVE  PoolInv(assignee[j])' /\ DispatchStep(j, assignee[j])
<1> DEFINE w == assignee[j]
           s == conn[w]
<1> USE WorkerOfAssumption, NoSockAssumption
<1>1. TypeOK /\ w \in Workers
  BY DEF DispatchInv, TypeOK
<1>2. /\ LoopFree /\ job[j] = "waiting" /\ future[j] = "pending" /\ job'[j] = "done"
      /\ s # NoSock /\ status'[w] = "quarantined"
      /\ UNCHANGED <<idle, conn, sock, peer, seen, inbox, toClient, assignee, via>>
      /\ \A i \in Jobs \ {j} : job'[i] = job[i] /\ future'[i] = future[i]
      /\ \A v \in Workers \ {w} : status'[v] = status[v]
  BY <1>1 DEF Timeout, Settle, TypeOK, wireVars, sockVars
<1>3. DispatchStep(j, w)
  BY <1>2 DEF DispatchStep, Engaged, sockVars
<1>4. JobInv(j) /\ Owed(j) /\ InFlight(j)
  BY <1>2 DEF PoolInv, Owed, InFlight
<1>5. sock[s] = "open" /\ w \notin idle /\ status[w] = "busy"
  BY <1>2, <1>4 DEF JobInv
<1>6. /\ s \in Socks /\ WorkerOf[s] = w /\ SockInv(s) /\ WireInv(s)
      /\ \A r \in Mine(w) \ {s} : r \in Socks /\ ~Live(r)
  BY <1>1, <1>2, Connected
<1>7. seen[s] = "expired"
  BY <1>5, <1>6 DEF SockInv
<1>8. \A i \in Jobs : assignee[i] = w => ~Owed(i)'
  BY <1>2, <1>4 DEF PoolInv, OneTask, Owed, InFlight
<1>9. ~Works(w)'
  BY <1>2, <1>8 DEF Works
<1>10. SockInv(s)'
  BY <1>2, <1>5, <1>6, <1>7 DEF SockInv, Serving
<1>11. WireInv(s)'
  BY <1>2, <1>6 DEF WireInv, NoWire, Carries
<1>12. OneTask(w)'
  BY <1>2, <1>8 DEF OneTask
<1>13. ASSUME NEW i \in Jobs, assignee'[i] = w PROVE JobInv(i)'
  <2>1. CASE i = j
    BY <1>2, <2>1 DEF JobInv, GivingBack, Owed, InFlight
  <2>2. CASE i # j
    <3>1. JobInv(i) /\ ~Owed(i)' /\ job[i] \notin JobMidSection /\ ~Owed(i)
      BY <1>2, <1>8, <1>13, <1>4, <2>2 DEF PoolInv, OneTask, LoopFree
    <3>2. job[i] # "sending"
      BY <3>1 DEF JobInv, Owed, InFlight
    <3>3. QED
      BY <1>2, <1>13, <2>2, <3>1, <3>2 DEF JobInv, InFlight, GivingBack, JobMidSection
  <2>3. QED
    BY <2>1, <2>2
<1>14. WorkerInv(w)'
  BY <1>2, <1>5 DEF WorkerInv
<1>15. PoolInv(w)'
  BY <1>2, <1>6, <1>10, <1>11, <1>12, <1>13, <1>14, WorkerHere DEF DispatchInv
<1>16. QED
  BY <1>3, <1>15

(* A job is sent on the socket of a worker that is still there. *)
LEMMA SentHere ==
  ASSUME DispatchInv, DispatchInv', NEW j \in Jobs, SendJob(j), PoolInv(assignee[j]),
         conn[assignee[j]] # NoSock
  PROVE  PoolInv(assignee[j])' /\ DispatchStep(j, assignee[j])
<1> DEFINE w == assignee[j]
           s == conn[w]
<1> USE WorkerOfAssumption, NoSockAssumption
<1>1. TypeOK /\ w \in Workers
  BY DEF DispatchInv, TypeOK
<1>2. /\ LoopFree /\ job[j] = "sending" /\ job'[j] = "waiting"
      /\ UNCHANGED <<status, idle, conn, sock, peer, seen, inbox, assignee, via, future>>
      /\ \A i \in Jobs \ {j} : job'[i] = job[i]
  BY <1>1 DEF SendJob, TypeOK, poolVars, sockVars
<1>3. JobInv(j) /\ Owed(j) /\ InFlight(j) /\ future[j] = "pending"
  BY <1>2 DEF PoolInv, JobInv, Owed, InFlight
<1>4. s = via[j] /\ sock[s] = "open" /\ w \notin idle /\ status[w] = "busy" /\ NoWire(s)
  BY <1>2, <1>3 DEF JobInv
<1>5. /\ s \in Socks /\ WorkerOf[s] = w /\ SockInv(s) /\ s \in Mine(w)
      /\ \A r \in Mine(w) \ {s} : r \in Socks /\ ~Live(r)
  BY <1>1, Connected
<1>6. /\ \A r \in Socks \ {s} : toClient'[r] = toClient[r]
      /\ toClient'[s] = toClient[s] \/ toClient'[s] = Append(toClient[s], j)
  BY <1>1, <1>4, <1>5 DEF SendJob, TypeOK
<1>7. DispatchStep(j, w)
  BY <1>2, <1>5, <1>6 DEF DispatchStep, Engaged, sockVars
<1>8. \A i \in Jobs : (Owed(i)' <=> Owed(i)) /\ (InFlight(i)' <=> InFlight(i))
  BY <1>2, <1>3 DEF Owed, InFlight
<1>9. Works(w) /\ Works(w)'
  BY <1>2, <1>3, <1>8 DEF Works
<1>10. toClient'[s] \in {<<>>, <<j>>} /\ inbox'[s] = <<>>
  <2>1. Append(<<>>, j) = <<j>>
    OBVIOUS
  <2>2. QED
    BY <1>2, <1>4, <1>6, <2>1 DEF NoWire
<1>11. NoWire(s)' \/ Carries(s, j)'
  BY <1>2, <1>10 DEF NoWire, Carries
<1>12. SockInv(s)'
  BY <1>2, <1>4, <1>5 DEF SockInv, Serving
<1>13. WireInv(s)'
  BY <1>3, <1>8, <1>11 DEF WireInv
<1>14. OneTask(w)'
  BY <1>2, <1>8 DEF PoolInv, OneTask
<1>15. \A i \in Jobs \ {j} : assignee[i] = w => ~Owed(i)
  BY <1>3 DEF PoolInv, OneTask
<1>16. ASSUME NEW i \in Jobs, assignee'[i] = w PROVE JobInv(i)'
  <2>1. CASE i = j
    BY <1>2, <1>3, <1>4, <1>8, <2>1 DEF JobInv, GivingBack
  <2>2. CASE i # j
    <3>1. JobInv(i) /\ ~Owed(i)' /\ job[i] \notin JobMidSection /\ ~Owed(i)
      BY <1>2, <1>8, <1>15, <1>16, <2>2 DEF PoolInv, LoopFree
    <3>2. job[i] # "sending"
      BY <3>1 DEF JobInv, Owed, InFlight
    <3>3. QED
      BY <1>2, <1>16, <2>2, <3>1, <3>2 DEF JobInv, InFlight, GivingBack, JobMidSection
  <2>3. QED
    BY <2>1, <2>2
<1>17. WorkerInv(w)'
  BY <1>2, <1>4, <1>9 DEF WorkerInv
<1>18. PoolInv(w)'
  BY <1>2, <1>5, <1>6, <1>12, <1>13, <1>14, <1>16, <1>17, WorkerHere DEF DispatchInv, Mine
<1>19. QED
  BY <1>7, <1>18

(* A job is sent to a worker that is gone: it is lost. *)
LEMMA LostHere ==
  ASSUME DispatchInv, DispatchInv', NEW j \in Jobs, SendJob(j), PoolInv(assignee[j]),
         conn[assignee[j]] = NoSock
  PROVE  PoolInv(assignee[j])' /\ DispatchStep(j, assignee[j])
<1> DEFINE w == assignee[j]
<1> USE WorkerOfAssumption, NoSockAssumption
<1>1. TypeOK /\ w \in Workers /\ RouteInv
  BY DEF DispatchInv, TypeOK
<1>2. /\ LoopFree /\ job[j] = "sending" /\ job'[j] = "waiting"
      /\ UNCHANGED <<status, idle, conn, sock, peer, seen, inbox, assignee, via, future>>
      /\ \A i \in Jobs \ {j} : job'[i] = job[i]
  BY <1>1 DEF SendJob, TypeOK, poolVars, sockVars
<1>3. JobInv(j) /\ Owed(j) /\ InFlight(j) /\ future[j] = "pending"
  BY <1>2 DEF PoolInv, JobInv, Owed, InFlight
<1>4. peer[via[j]] = "down"
  <2>1. via[j] \in Mine(w) /\ sock[via[j]] \notin {"unused", "accepting", "joining"}
    BY <1>1, <1>3 DEF JobInv, RouteInv, Mine
  <2>2. SockInv(via[j]) /\ WorkerOf[via[j]] = w /\ via[j] \in Socks
    BY <2>1 DEF PoolInv, Mine
  <2>3. sock[via[j]] \notin Serving
    BY <2>2 DEF SockInv
  <2>4. sock[via[j]] \in {"leaving", "closed"}
    BY <1>1, <2>1, <2>2, <2>3 DEF TypeOK, SockPoints, Serving
  <2>5. QED
    BY <2>2, <2>4 DEF SockInv
<1>5. toClient' = toClient
  BY <1>4 DEF SendJob
<1>6. DispatchStep(j, w)
  BY <1>2, <1>5 DEF DispatchStep, Engaged, sockVars
<1>7. \A i \in Jobs : (Owed(i)' <=> Owed(i)) /\ (InFlight(i)' <=> InFlight(i))
  BY <1>2, <1>3 DEF Owed, InFlight
<1>8. Works(w)' <=> Works(w)
  BY <1>2, <1>7 DEF Works
<1>9. \A s \in Socks : (NoWire(s)' <=> NoWire(s))
  BY <1>2, <1>5 DEF NoWire
<1>10. OneLive(w)'
  BY <1>2 DEF PoolInv, OneLive, Live
<1>11. OneTask(w)'
  BY <1>2, <1>7 DEF PoolInv, OneTask
<1>12. ASSUME NEW s \in Mine(w) PROVE SockInv(s)' /\ WireInv(s)'
  <2>1. SockInv(s) /\ WireInv(s) /\ s \in Socks /\ WorkerOf[s] = w
    BY <1>12 DEF PoolInv, Mine
  <2>2. SockInv(s)'
    BY <1>2, <1>7, <1>8, <1>9, <2>1 DEF SockInv
  <2>3. \A i \in Jobs : Carries(s, i)' <=> Carries(s, i)
    BY <1>2, <1>5 DEF Carries
  <2>4. WireInv(s)'
    BY <1>2, <1>7, <1>9, <2>1, <2>3 DEF WireInv
  <2>5. QED
    BY <2>2, <2>4
<1>13. ASSUME NEW i \in Jobs, assignee'[i] = w PROVE JobInv(i)'
  <2>1. CASE i = j
    BY <1>2, <1>3, <2>1 DEF JobInv, GivingBack
  <2>2. CASE i # j
    <3>1. JobInv(i) /\ via[i] \in Socks \cup {NoSock}
      BY <1>1, <1>2, <1>13 DEF PoolInv, TypeOK
    <3>2. NoWire(via[i]) /\ via[i] \in Socks => NoWire(via[i])'
      BY <1>2, <1>9
    <3>3. QED
      BY <1>2, <1>7, <1>13, <2>2, <3>1, <3>2 DEF JobInv, InFlight, GivingBack
  <2>3. QED
    BY <2>1, <2>2
<1>14. WorkerInv(w)'
  <2>1. WorkerInv(w)
    BY DEF PoolInv
  <2>2. \A i \in Jobs : job'[i] = "resetting" <=> job[i] = "resetting"
    BY <1>2
  <2>3. QED
    BY <1>2, <1>8, <2>1, <2>2 DEF WorkerInv
<1>15. QED
  BY <1>2, <1>6, <1>10, <1>11, <1>12, <1>13, <1>14 DEF PoolInv

LEMMA SendJobHere ==
  ASSUME DispatchInv, DispatchInv', NEW j \in Jobs, SendJob(j), PoolInv(assignee[j])
  PROVE  PoolInv(assignee[j])' /\ DispatchStep(j, assignee[j])
  BY SentHere, LostHere

-----------------------------------------------------------------------------
(* Every step keeps what is known of the worker it is about, and of the others. *)
LEMMA SpreadFromSocket ==
  ASSUME DispatchInv, DispatchInv', NEW s \in Socks, \A w \in Workers : PoolInv(w),
         PoolInv(WorkerOf[s])', \A v \in Workers \ {WorkerOf[s]} : Untouched(v)
  PROVE  \A w \in Workers : PoolInv(w)'
<1> TAKE w \in Workers
<1>1. CASE w = WorkerOf[s]
  BY <1>1
<1>2. CASE w # WorkerOf[s]
  BY <1>2, Elsewhere DEF DispatchInv
<1>3. QED
  BY <1>1, <1>2

LEMMA SpreadFromJob ==
  ASSUME DispatchInv, DispatchInv', NEW j \in Jobs, NEW w \in Workers,
         \A v \in Workers : PoolInv(v), PoolInv(w)', DispatchStep(j, w)
  PROVE  \A v \in Workers : PoolInv(v)'
<1> TAKE v \in Workers
<1>1. CASE v = w
  BY <1>1
<1>2. CASE v # w
  <2>1. Untouched(v)
    BY <1>2, DispatchElsewhere
  <2>2. QED
    BY <2>1, Elsewhere DEF DispatchInv
<1>3. QED
  BY <1>1, <1>2

LEMMA PoolsStep ==
  ASSUME DispatchInv, DispatchInv', PromptInv, RestKinds = {}, [Next]_vars,
         \A s \in Socks : Prompt(s)
  PROVE  \A w \in Workers : PoolInv(w)'
<1>1. /\ NoRest /\ OneSection /\ \A w \in Workers : PoolInv(w)
  BY DEF PromptInv
<1>2. CASE \A v \in Workers : Untouched(v)
  BY <1>1, <1>2, Elsewhere DEF DispatchInv
<1>3. \A s \in Socks : WorkerOf[s] \in Workers
  BY WorkerOfAssumption
<1>4. ASSUME NEW s \in Socks, HandlerStep(s), PoolInv(WorkerOf[s])'
      PROVE  \A w \in Workers : PoolInv(w)'
  BY <1>1, <1>4, HandlerElsewhere, SpreadFromSocket
<1>5. ASSUME NEW s \in Socks, HandlerSection(s) PROVE \A w \in Workers : PoolInv(w)'
  BY <1>1, <1>3, <1>4, <1>5, JoinPoolsHere, ResumeHere, ReturnToPoolHere,
     CommitOfflineHere DEF HandlerSection
<1>6. ASSUME NEW s \in Socks, HandlerEvent(s) PROVE \A w \in Workers : PoolInv(w)'
  <2>1. CASE AcceptFails(s) \/ Accepted(s) \/ Drop(s)
    BY <1>1, <1>3, <1>4, <2>1, AcceptFailsHere, AcceptedHere, DropHere
  <2>2. CASE RecvResult(s)
    BY <1>1, <1>3, <2>2, RecvAnswerHere, SpreadFromSocket DEF RecvResult
  <2>3. CASE RecvDataSourceError(s)
    BY <1>1, <1>3, <2>3, RecvAnswerHere, SpreadFromSocket DEF RecvDataSourceError
  <2>4. CASE RecvError(s)
    BY <1>1, <1>3, <2>4, RecvErrorHere, SpreadFromSocket
  <2>5. QED
    BY <1>6, <2>1, <2>2, <2>3, <2>4 DEF HandlerEvent
<1>7. ASSUME NEW s \in Socks, Client(s) PROVE \A w \in Workers : PoolInv(w)'
  BY <1>1, <1>3, <1>4, <1>7, HandshakeHere, PeerDropHere, HeartbeatHere, ClientAnswerHere
  DEF Client
<1>8. \A j \in Jobs : assignee[j] \in Workers
  BY DEF DispatchInv, TypeOK
<1>9. ASSUME NEW j \in Jobs, DispatchStart(j) PROVE \A w \in Workers : PoolInv(w)'
  <2>1. CASE NoIdleWorker(j)
    <3>1. \A v \in Workers : Untouched(v)
      BY <2>1 DEF NoIdleWorker, FallBackAtOnce, Untouched, Mine, Engaged, DispatchInv,
                  TypeOK, sockVars, wireVars
    <3>2. QED
      BY <1>2, <3>1
  <2>2. ASSUME NEW w \in Workers PROVE ~StaleIdleEntry(j, w) /\ ~SkipInactive(j, w)
    BY <1>1 DEF StaleIdleEntry, SkipInactive, PoolInv, WorkerInv
  <2>3. ASSUME NEW w \in Workers, Claim(j, w) PROVE \A v \in Workers : PoolInv(v)'
    BY <1>1, <2>3, ClaimHere, SpreadFromJob
  <2>4. QED
    BY <1>9, <2>1, <2>2, <2>3 DEF DispatchStart
<1>10. ASSUME NEW j \in Jobs, PoolInv(assignee[j])', DispatchStep(j, assignee[j])
       PROVE  \A w \in Workers : PoolInv(w)'
  <2>1. assignee'[j] = assignee[j]
    BY <1>10 DEF DispatchStep
  <2>2. QED
    BY <1>1, <1>8, <1>10, <2>1, SpreadFromJob
<1>11. ASSUME NEW j \in Jobs, DispatchSection(j) PROVE \A w \in Workers : PoolInv(w)'
  BY <1>1, <1>8, <1>10, <1>11, CommitBusyHere, ResetWorkerHere, RepoolWorkerHere
  DEF DispatchSection
<1>12. ASSUME NEW j \in Jobs, DispatchEvent(j) PROVE \A w \in Workers : PoolInv(w)'
  BY <1>1, <1>8, <1>10, <1>12, SendJobHere, SendFailsHere, AnsweredHere, WorkerGoneHere,
     TimeoutHere DEF DispatchEvent
<1>13. ASSUME NEW t \in Threads PROVE ~Rest(t)
  BY <1>1, <1>13 DEF Rest, RestCommit, RestPool, NoRest, NoRequest
<1>14. CASE UNCHANGED vars
  <2>1. \A v \in Workers : Untouched(v)
    BY <1>14 DEF vars, poolVars, sockVars, wireVars, jobVars, Untouched, Engaged
  <2>2. QED
    BY <1>2, <2>1
<1>15. QED
  BY <1>5, <1>6, <1>7, <1>9, <1>11, <1>12, <1>13, <1>14, StepGroups

(* A section begins only when no other is half done. *)
LEMMA SectionsStep ==
  ASSUME TypeOK, OneSection, [Next]_vars
  PROVE  OneSection'
<1>1. CASE UNCHANGED <<sock, job>>
  BY <1>1 DEF OneSection
<1>2. ASSUME LoopFree, NEW s \in Socks, UNCHANGED job,
             \A r \in Socks \ {s} : sock'[r] = sock[r]
      PROVE  OneSection'
  BY <1>2 DEF OneSection, LoopFree
<1>3. ASSUME LoopFree, NEW j \in Jobs, UNCHANGED sock,
             \A i \in Jobs \ {j} : job'[i] = job[i]
      PROVE  OneSection'
  BY <1>3 DEF OneSection, LoopFree
<1>4. ASSUME NEW s \in Socks, sock[s] \in SockMidSection, UNCHANGED job,
             \A r \in Socks \ {s} : sock'[r] = sock[r]
      PROVE  OneSection'
  BY <1>4 DEF OneSection
<1>5. ASSUME NEW j \in Jobs, job[j] \in JobMidSection, UNCHANGED sock,
             \A i \in Jobs \ {j} : job'[i] = job[i]
      PROVE  OneSection'
  BY <1>5 DEF OneSection
<1>6. ASSUME NEW s \in Socks, HandlerSection(s) PROVE OneSection'
  <2>1. sock[s] \in SockMidSection /\ UNCHANGED job
        /\ \A r \in Socks \ {s} : sock'[r] = sock[r]
    BY <1>6 DEF HandlerSection, JoinPools, Resume, ReturnToPool, CommitOffline,
                SockMidSection, TypeOK, jobVars
  <2>2. QED
    BY <1>4, <2>1
<1>7. ASSUME NEW s \in Socks, HandlerEvent(s) PROVE OneSection'
  <2>1. LoopFree /\ UNCHANGED job /\ \A r \in Socks \ {s} : sock'[r] = sock[r]
    BY <1>7 DEF HandlerEvent, AcceptFails, Accepted, RecvResult, RecvDataSourceError,
                RecvAnswer, RecvError, Receive, Drop, TypeOK, jobVars
  <2>2. QED
    BY <1>2, <2>1
<1>8. ASSUME NEW s \in Socks, Client(s) PROVE OneSection'
  <2>1. CASE Handshake(s)
    BY <1>2, <2>1 DEF Handshake, TypeOK, jobVars
  <2>2. QED
    BY <1>1, <1>8, <2>1 DEF Client, PeerDrop, Heartbeat, ClientAnswer, jobVars, sockVars
<1>9. ASSUME NEW j \in Jobs, DispatchStart(j) \/ DispatchEvent(j) PROVE OneSection'
  <2>1. LoopFree /\ UNCHANGED sock /\ \A i \in Jobs \ {j} : job'[i] = job[i]
    BY <1>9 DEF DispatchStart, NoIdleWorker, StaleIdleEntry, SkipInactive, FallBackAtOnce,
                Claim, DispatchEvent, SendJob, SendFails, Answered, WorkerGone, Timeout,
                TypeOK, sockVars
  <2>2. QED
    BY <1>3, <2>1
<1>10. ASSUME NEW j \in Jobs, DispatchSection(j) PROVE OneSection'
  <2>1. job[j] \in JobMidSection /\ UNCHANGED sock
        /\ \A i \in Jobs \ {j} : job'[i] = job[i]
    BY <1>10 DEF DispatchSection, CommitBusy, ResetWorker, RepoolWorker, JobMidSection,
                 TypeOK, sockVars
  <2>2. QED
    BY <1>5, <2>1
<1>11. QED
  BY <1>1, <1>6, <1>7, <1>8, <1>9, <1>10, StepGroups, RestFrame
  DEF vars, sockVars, jobVars

LEMMA NoRestStep ==
  ASSUME NoRest, RestKinds = {}, [Next]_vars
  PROVE  NoRest'
<1>1. ASSUME NEW t \in Threads PROVE ~Rest(t)
  BY <1>1 DEF Rest, RestCommit, RestPool, NoRest, NoRequest
<1>2. CASE UNCHANGED rest
  BY <1>2 DEF NoRest
<1>3. QED
  BY <1>1, <1>2, StepGroups, SectionFrame, EventFrame, ClientFrame, DispatchFrame DEF vars

LEMMA PromptInit == DispatchInv /\ Init => PromptInv
<1> SUFFICES ASSUME DispatchInv, Init PROVE PromptInv
  OBVIOUS
<1>1. NoRest
  BY DEF Init, NoRest
<1>2. OneSection
  BY DEF Init, OneSection, SockMidSection, JobMidSection
<1>3. ASSUME NEW w \in Workers PROVE PoolInv(w)
  <2>1. \A j \in Jobs : job[j] = "new" /\ ~Owed(j) /\ ~InFlight(j)
    BY DEF Init, Owed, InFlight
  <2>2. \A s \in Socks : sock[s] = "unused" /\ NoWire(s) /\ seen[s] = "expired"
                         /\ peer[s] = "down"
    BY DEF Init, NoWire
  <2>3. OneLive(w) /\ OneTask(w)
    BY <2>1, <2>2 DEF OneLive, OneTask, Live, Mine
  <2>4. \A s \in Mine(w) : SockInv(s) /\ WireInv(s)
    BY <2>2 DEF SockInv, WireInv, Serving, Mine
  <2>5. \A j \in Jobs : JobInv(j)
    BY <2>1 DEF JobInv, GivingBack
  <2>6. WorkerInv(w)
    BY DEF Init, WorkerInv
  <2>7. QED
    BY <2>3, <2>4, <2>5, <2>6 DEF PoolInv
<1>4. QED
  BY <1>1, <1>2, <1>3 DEF PromptInv

LEMMA PromptStep ==
  ASSUME RestKinds = {}
  PROVE  DispatchInv /\ DispatchInv' /\ PromptInv /\ [Next]_vars /\ (\A s \in Socks : Prompt(s))
           => PromptInv'
<1> SUFFICES ASSUME DispatchInv, DispatchInv', PromptInv, [Next]_vars,
                    \A s \in Socks : Prompt(s)
             PROVE  PromptInv'
  OBVIOUS
<1>1. \A w \in Workers : PoolInv(w)'
  BY PoolsStep
<1>2. OneSection'
  BY SectionsStep DEF DispatchInv, PromptInv
<1>3. NoRest'
  BY NoRestStep DEF PromptInv
<1>4. QED
  BY <1>1, <1>2, <1>3 DEF PromptInv

LEMMA PromptPools ==
  ASSUME DispatchInv, PromptInv
  PROVE  PoolsAreExact
<1> USE WorkerOfAssumption, NoSockAssumption
<1>1. TypeOK /\ ConnectionsAreServed /\ RouteInv
  BY DEF DispatchInv
<1>2. \A w \in Workers : PoolInv(w)
  BY DEF PromptInv
<1>3. OneJobPerSocket
  <2>1. ASSUME NEW s \in Socks PROVE Len(toClient[s]) <= 1
    <3>1. WireInv(s)
      BY <1>2 DEF PoolInv, Mine
    <3>2. toClient[s] = <<>> \/ \E j \in Jobs : toClient[s] = <<j>>
      BY <3>1 DEF WireInv, NoWire, Carries
    <3>3. ASSUME NEW j \in Jobs, toClient[s] = <<j>> PROVE Len(toClient[s]) <= 1
      <4>1. Len(<<j>>) = 1
        OBVIOUS
      <4>2. QED
        BY <3>3, <4>1
    <3>4. CASE toClient[s] = <<>>
      BY <3>4
    <3>5. QED
      BY <3>2, <3>3, <3>4
  <2>2. ASSUME NEW i \in Jobs, NEW j \in Jobs, Owed(i), Owed(j), via[i] = via[j]
        PROVE  i = j
    <3>1. JobInv(i) /\ assignee[i] \in Workers
      BY <1>1, <1>2 DEF PoolInv, TypeOK
    <3>2. via[i] \in Socks
      BY <2>2, <3>1 DEF JobInv, Owed
    <3>3. assignee[i] = assignee[j]
      BY <1>1, <2>2, <3>2 DEF RouteInv
    <3>4. OneTask(assignee[i])
      BY <1>2, <3>1 DEF PoolInv
    <3>5. QED
      BY <2>2, <3>3, <3>4 DEF OneTask
  <2>3. QED
    BY <2>1, <2>2 DEF OneJobPerSocket
<1>4. IdleIsReady
  BY <1>1, <1>2 DEF IdleIsReady, PoolInv, WorkerInv, Works, TypeOK
<1>5. ASSUME LoopFree, NEW w \in Workers, conn[w] # NoSock
      PROVE  conn[w] \in Socks /\ sock[conn[w]] = "open"
  <2>1. conn[w] \in Socks
    BY <1>1, <1>5 DEF TypeOK
  <2>2. QED
    BY <1>1, <1>5, <2>1 DEF ConnectionsAreServed, LoopFree, SockMidSection
<1>6. LoopFree => \A j \in Jobs : job[j] \notin GivingBack
  BY DEF LoopFree, JobMidSection, GivingBack
<1>7. NoWorkerLost
  BY <1>2, <1>5, <1>6 DEF NoWorkerLost, PoolInv, WorkerInv, Works
<1>8. BusyIsWorking
  <2>1. LoopFree => \A s \in Socks : sock[s] # "leaving"
    BY DEF LoopFree, SockMidSection
  <2>2. ASSUME LoopFree, NEW w \in Workers, status[w] = "busy" PROVE Works(w)
    BY <1>2, <1>5, <1>6, <2>1, <2>2 DEF PoolInv, WorkerInv, Mine, GivingBack
  <2>3. QED
    BY <2>2 DEF BusyIsWorking, Works
<1>9. QED
  BY <1>3, <1>4, <1>7, <1>8 DEF PoolsAreExact

(* Where nobody operates on workers by REST and a worker comes back only after  *)
(* the server has noticed that it was gone, the pools are exact: no two jobs on *)
(* one socket, nobody offered who cannot take a job, no connected worker lost,  *)
(* no row busy for nothing, whatever clients and the network do.                *)
THEOREM PromptPoolsAreAlwaysExact ==
  ASSUME RestKinds = {}
  PROVE  SceneFairSpec => []PromptPoolsAreExact
<1> DEFINE SceneInv == DispatchInv /\ (scene = "prompt" => PromptInv)
<1>1. SceneInit => SceneInv
  BY DispatchInvInit, PromptInit DEF SceneInit
<1>2. SceneInv /\ [SceneNext]_sceneVars => SceneInv'
  <2> SUFFICES ASSUME SceneInv, [SceneNext]_sceneVars PROVE SceneInv'
    OBVIOUS
  <2>1. [Next]_vars /\ scene' = scene
    BY DEF SceneNext, sceneVars
  <2>2. DispatchInv'
    BY <2>1, DispatchInvStep
  <2>3. ASSUME scene = "prompt" PROVE \A s \in Socks : Prompt(s)
    BY <2>3 DEF SceneNext, sceneVars, Prompt, vars, sockVars
  <2>4. QED
    BY <2>1, <2>2, <2>3, PromptStep
<1>3. SceneInv => PromptPoolsAreExact
  BY PromptPools DEF PromptPoolsAreExact
<1> HIDE DEF SceneInv
<1>4. QED
  BY <1>1, <1>2, <1>3, PTL DEF SceneFairSpec
=============================================================================
