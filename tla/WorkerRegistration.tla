------------------------- MODULE WorkerRegistration -------------------------
(***************************************************************************)
(* How a volunteer's machine becomes a row of worker_nodes                 *)
(* (app/backend/src/services/workers.py, gpu_worker/client_worker.py).     *)
(*                                                                         *)
(* A user gets a setup command that carries a single-use key and a label,  *)
(* runs it in a container on a machine, and the container trades the key   *)
(* for the credentials of a row: of a row its user already has under that  *)
(* label and GPU, or of a new one.  register_worker_node burns the key,    *)
(* looks for the row and commits in three steps, and several requests are  *)
(* served at once.  The client gives up on a request after 10 s; its       *)
(* container restarts until it is stopped.                                 *)
(*                                                                         *)
(* Of a row's status only "removed" matters here.  Requests that the VRAM  *)
(* or ownership checks turn away change nothing and are left out.          *)
(***************************************************************************)
EXTENDS Naturals, FiniteSets

CONSTANTS
  Users, Labels,
  Keys,          \* setup keys (random, never issued twice)
  Machines, Gpu, \* volunteers' machines and the GPU name each reports
  Rows,          \* ids of worker_nodes
  Requests,      \* register requests the backend serves at the same time
  NoRow, NoKey, NoRequest

ASSUME GpuAssumption == DOMAIN Gpu = Machines
ASSUME NoneAssumption == NoRow \notin Rows /\ NoKey \notin Keys /\ NoRequest \notin Requests

VARIABLES
  key,         \* worker:reg:<key> in Valkey
  command,     \* the setup command a key was issued with
  row,         \* worker_nodes
  machine,     \* the container on a machine and its credentials file
  request,     \* register_worker_node, per request
  registered,  \* history: the rows each key has registered
  overlap      \* history: the keys of registrations of one node that overlapped

vars == <<key, command, row, machine, request, registered, overlap>>

Command == [user : Users, label : Labels, target : Rows \cup {NoRow}]
Row == [user : Users, label : Labels, gpu : {Gpu[m] : m \in Machines},
        status : {"live", "removed"}]
NoNode == [status |-> "none"]

TypeOK ==
  /\ key \in [Keys -> {"unissued", "live", "gone"}]
  /\ \A k \in Keys : key[k] # "unissued" => command[k] \in Command
  /\ row \in [Rows -> Row \cup {NoNode}]
  /\ machine \in [Machines -> [at : {"off", "starting", "registering", "running"},
                               key : Keys \cup {NoKey}, creds : Rows \cup {NoRow},
                               waits : Requests \cup {NoRequest}]]
  /\ request \in [Requests -> [at : {"none", "sent", "burnt", "found"},
                               key : Keys \cup {NoKey}, from : Machines \cup {NoRow},
                               row : Rows \cup {NoRow}]]
  /\ registered \subseteq Keys \X Rows
  /\ overlap \subseteq Keys

Idle == [at |-> "none", key |-> NoKey, from |-> NoRow, row |-> NoRow]

Init ==
  /\ key = [k \in Keys |-> "unissued"]
  /\ command = [k \in Keys |-> NoKey]
  /\ row = [r \in Rows |-> NoNode]
  /\ machine = [m \in Machines |->
                 [at |-> "off", key |-> NoKey, creds |-> NoRow, waits |-> NoRequest]]
  /\ request = [q \in Requests |-> Idle]
  /\ registered = {}
  /\ overlap = {}

-----------------------------------------------------------------------------
(***************************************************************************)
(* What users do.                                                          *)
(***************************************************************************)

\* generate_worker_key
IssueKey(k, u, l, target) ==
  /\ key[k] = "unissued"
  /\ key' = [key EXCEPT ![k] = "live"]
  /\ command' = [command EXCEPT ![k] = [user |-> u, label |-> l, target |-> target]]
  /\ UNCHANGED <<row, machine, request, registered, overlap>>

\* reset_worker_key: a key with the label of a row that is not removed.
ResetKey(k, r) ==
  /\ row[r].status = "live"
  /\ IssueKey(k, row[r].user, row[r].label, r)

KeyExpires(k) ==
  /\ key[k] = "live"
  /\ key' = [key EXCEPT ![k] = "gone"]
  /\ UNCHANGED <<command, row, machine, request, registered, overlap>>

\* The user runs the command of a key on a machine; the volume keeps the
\* credentials an earlier container saved.
RunCommand(m, k) ==
  /\ machine[m].at = "off"
  /\ key[k] # "unissued"
  /\ machine' = [machine EXCEPT ![m].at = "starting", ![m].key = k]
  /\ UNCHANGED <<key, command, row, request, registered, overlap>>

StopContainer(m) ==
  /\ machine[m].at # "off"
  /\ machine' = [machine EXCEPT ![m].at = "off", ![m].key = NoKey, ![m].waits = NoRequest]
  /\ UNCHANGED <<key, command, row, request, registered, overlap>>

\* remove_worker_node
Remove(r) ==
  /\ row[r].status = "live"
  /\ row' = [row EXCEPT ![r].status = "removed"]
  /\ UNCHANGED <<key, command, machine, request, registered, overlap>>

-----------------------------------------------------------------------------
(***************************************************************************)
(* The client: main and run_worker_loop.                                   *)
(***************************************************************************)

UseSavedCredentials(m) ==
  /\ machine[m].at = "starting"
  /\ machine[m].creds # NoRow
  /\ machine' = [machine EXCEPT ![m].at = "running"]
  /\ UNCHANGED <<key, command, row, request, registered, overlap>>

SendRequest(m, q) ==
  /\ machine[m].at = "starting"
  /\ machine[m].creds = NoRow
  /\ request[q] = Idle
  /\ request' = [request EXCEPT ![q] = [at |-> "sent", key |-> machine[m].key,
                                        from |-> m, row |-> NoRow]]
  /\ machine' = [machine EXCEPT ![m].at = "registering", ![m].waits = q]
  /\ UNCHANGED <<key, command, row, registered, overlap>>

\* The request times out, its answer is lost, or the container dies before it
\* has saved the credentials; the backend does not notice.
GiveUp(m) ==
  /\ machine[m].at = "registering"
  /\ machine' = [machine EXCEPT ![m].at = "starting", ![m].waits = NoRequest]
  /\ UNCHANGED <<key, command, row, request, registered, overlap>>

\* Close code 4401: the saved credentials are dropped and the client exits.
CredentialsRejected(m) ==
  /\ machine[m].at = "running"
  /\ row[machine[m].creds].status = "removed"
  /\ machine' = [machine EXCEPT ![m].at = "starting", ![m].creds = NoRow]
  /\ UNCHANGED <<key, command, row, request, registered, overlap>>

-----------------------------------------------------------------------------
(***************************************************************************)
(* register_worker_node                                                    *)
(***************************************************************************)

Waiting(q) == {m \in Machines : machine[m].waits = q}

\* The machine that still waits for the request, if any, learns its outcome.
Tell(q, creds) ==
  machine' = [m \in Machines |->
    IF m \notin Waiting(q) THEN machine[m]
    ELSE [machine[m] EXCEPT !.at = IF creds = NoRow THEN "starting" ELSE "running",
                            !.creds = creds, !.waits = NoRequest]]

\* (fault) The key is read and left in Valkey.
BurnKeepsKey(q) ==
  /\ request[q].at = "sent"
  /\ key[request[q].key] = "live"
  /\ request' = [request EXCEPT ![q].at = "burnt"]
  /\ UNCHANGED <<key, command, row, machine, registered, overlap>>

\* The node a registration is for.
Node(q) == <<command[request[q].key].user, command[request[q].key].label, Gpu[request[q].from]>>

\* GETDEL finds the key.
Burn(q) ==
  /\ request[q].at = "sent"
  /\ key[request[q].key] = "live"
  /\ key' = [key EXCEPT ![request[q].key] = "gone"]
  /\ request' = [request EXCEPT ![q].at = "burnt"]
  /\ LET others == {o \in Requests \ {q} : request[o].at \in {"burnt", "found"} /\ Node(o) = Node(q)}
     IN overlap' = IF others = {} THEN overlap
                   ELSE overlap \cup {request[o].key : o \in others \cup {q}}
  /\ UNCHANGED <<command, row, machine, registered>>

\* (fault) The request is closed with a state the handler does not have.
RejectForgetsCaller(q) ==
  /\ request[q].at = "sent"
  /\ key[request[q].key] # "live"
  /\ request' = [request EXCEPT ![q].at = "rejected"]
  /\ UNCHANGED <<key, command, row, machine, registered, overlap>>

\* GETDEL finds nothing: 401, and the client exits.
Reject(q) ==
  /\ request[q].at = "sent"
  /\ key[request[q].key] # "live"
  /\ request' = [request EXCEPT ![q] = Idle]
  /\ Tell(q, NoRow)
  /\ UNCHANGED <<key, command, row, registered, overlap>>

\* (fault) The GPU is not compared.
SameNodeAnyGpu(r, q) ==
  /\ row[r].status = "live"
  /\ row[r].user = command[request[q].key].user
  /\ row[r].label = command[request[q].key].label

\* A row the registration may attach to.
SameNode(r, q) ==
  /\ row[r].status = "live"
  /\ row[r].user = command[request[q].key].user
  /\ row[r].label = command[request[q].key].label
  /\ row[r].gpu = Gpu[request[q].from]

\* .first() without an order: any of the rows.
Find(q) ==
  /\ request[q].at = "burnt"
  /\ \/ /\ \A r \in Rows : ~ SameNode(r, q)
        /\ request' = [request EXCEPT ![q].at = "found"]
     \/ \E r \in Rows :
          /\ SameNode(r, q)
          /\ request' = [request EXCEPT ![q].at = "found", ![q].row = r]
  /\ UNCHANGED <<key, command, row, machine, registered, overlap>>

\* The commit and its answer, which is lost when nobody waits any more.
AddNode(q, r) ==
  /\ request[q].at = "found"
  /\ request[q].row = NoRow
  /\ row[r] = NoNode
  /\ row' = [row EXCEPT ![r] = [user |-> command[request[q].key].user,
                                label |-> command[request[q].key].label,
                                gpu |-> Gpu[request[q].from], status |-> "live"]]
  /\ request' = [request EXCEPT ![q] = Idle]
  /\ registered' = registered \cup {<<request[q].key, r>>}
  /\ Tell(q, r)
  /\ UNCHANGED <<key, command, overlap>>

\* A row removed since it was read comes back, unless its status was already
\* "active" when it was read: then SQLAlchemy has nothing to write.
Reattach(q) ==
  LET r == request[q].row IN
  /\ request[q].at = "found"
  /\ r # NoRow
  /\ row' \in {row, [row EXCEPT ![r].status = "live"]}
  /\ request' = [request EXCEPT ![q] = Idle]
  /\ registered' = registered \cup {<<request[q].key, r>>}
  /\ Tell(q, r)
  /\ UNCHANGED <<key, command, overlap>>

\* A database error or a restart of the backend: the key stays burnt.
BackendFails(q) ==
  /\ request[q].at \in {"burnt", "found"}
  /\ request' = [request EXCEPT ![q] = Idle]
  /\ Tell(q, NoRow)
  /\ UNCHANGED <<key, command, row, registered, overlap>>

-----------------------------------------------------------------------------
UserStep ==
  \/ \E k \in Keys, u \in Users, l \in Labels : IssueKey(k, u, l, NoRow)
  \/ \E k \in Keys, r \in Rows : ResetKey(k, r)
  \/ \E k \in Keys : KeyExpires(k)
  \/ \E m \in Machines, k \in Keys : RunCommand(m, k)
  \/ \E m \in Machines : StopContainer(m)
  \/ \E r \in Rows : Remove(r)
ClientStep(m) ==
  \/ UseSavedCredentials(m) \/ GiveUp(m) \/ CredentialsRejected(m)
  \/ \E q \in Requests : SendRequest(m, q)
BackendStep(q) ==
  \/ Burn(q) \/ Reject(q) \/ Find(q) \/ Reattach(q) \/ BackendFails(q)
  \/ \E r \in Rows : AddNode(q, r)

Next ==
  \/ UserStep
  \/ \E m \in Machines : ClientStep(m)
  \/ \E q \in Requests : BackendStep(q)

Spec == Init /\ [][Next]_vars

-----------------------------------------------------------------------------
\* A setup key is spent by one request and registers one row, however often the
\* command is run, on however many machines (generate_worker_key: "single-use").
KeyIsSingleUse ==
  \A k \in Keys :
    LET spending == {q \in Requests : request[q].key = k /\ request[q].at \in {"burnt", "found"}}
        spent    == {r \in Rows : <<k, r>> \in registered}
    IN  /\ Cardinality(spending) + Cardinality(spent) <= 1
        /\ key[k] = "live" => spending \cup spent = {}

\* A key only ever gives access to a row of the user it was issued to.
KeyStaysWithItsUser ==
  \A k \in Keys, r \in Rows :
    <<k, r>> \in registered => row[r].user = command[k].user

\* The credentials a machine holds are those of a row registered for its GPU by
\* a key it was set up with, whatever late answers and restarts there were.
CredentialsFitTheMachine ==
  \A m \in Machines :
    LET r == machine[m].creds IN
    r # NoRow => row[r].gpu = Gpu[m] /\ \E k \in Keys : <<k, r>> \in registered

\* A user has one live row for a label and a GPU, unless two registrations of
\* that node overlapped: nothing but their timing makes twins.
TwinsComeFromOverlap ==
  \A r1, r2 \in Rows :
    /\ r1 # r2
    /\ row[r1].status = "live"
    /\ row[r2].status = "live"
    /\ row[r1].user = row[r2].user
    /\ row[r1].label = row[r2].label
    /\ row[r1].gpu = row[r2].gpu
    => \E k \in overlap : <<k, r1>> \in registered \/ <<k, r2>> \in registered

\* reset_worker_key: "Issues a new key with this node's label, so registration
\* re-attaches to the same row", as long as that row lives, the GPU is its own
\* and no registrations of the node overlapped.
ResetReattaches ==
  \A k \in Keys, r \in Rows :
    LET target == command[k].target IN
    /\ <<k, r>> \in registered
    /\ target # NoRow
    /\ row[target].status = "live"
    /\ row[target].gpu = row[r].gpu
    => \/ r = target
       \/ \E o \in overlap : command[o].user = command[k].user /\ command[o].label = command[k].label

\* What a key is good for, and what a node's rows and credentials are.
KeysHold == KeyIsSingleUse /\ KeyStaysWithItsUser
NodesHold == CredentialsFitTheMachine /\ TwinsComeFromOverlap /\ ResetReattaches
=============================================================================
