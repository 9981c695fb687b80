---------------------- MODULE WorkerRegistrationProofs ----------------------
(* Proofs about WorkerRegistration, for any number of users, machines,     *)
(* keys, rows and registrations at the same time.                          *)
EXTENDS WorkerRegistration, FiniteSetTheorems, TLAPS

Machine == [at : {"off", "starting", "registering", "running"}, key : Keys \cup {NoKey},
            creds : Rows \cup {NoRow}, waits : Requests \cup {NoRequest}]
Request == [at : {"none", "sent", "burnt", "found"}, key : Keys \cup {NoKey},
            from : Machines \cup {NoRow}, row : Rows \cup {NoRow}]
Spends(q) == request[q].at \in {"burnt", "found"}

(* A request presents a key that was issued, for the machine that sent it, *)
(* and has no row before one is found.                                     *)
Presented ==
  /\ command \in [Keys -> Command \cup {NoKey}]
  /\ \A q \in Requests : request[q].at # "none" =>
       request[q].key \in Keys /\ key[request[q].key] # "unissued" /\ request[q].from \in Machines
  /\ \A q \in Requests : request[q].at # "found" => request[q].row = NoRow

(* A key that a request spends, or that has registered a row, is gone, and *)
(* it is one or the other, once.                                           *)
Spent ==
  /\ \A q \in Requests : Spends(q) =>
       key[request[q].key] = "gone" /\ \A r \in Rows : <<request[q].key, r>> \notin registered
  /\ \A p, q \in Requests : Spends(p) /\ Spends(q) /\ request[p].key = request[q].key => p = q
  /\ \A k \in Keys, r \in Rows : <<k, r>> \in registered => key[k] = "gone"
  /\ \A k \in Keys : \A r, s \in Rows : <<k, r>> \in registered /\ <<k, s>> \in registered => r = s

(* A row that was found, or registered, is of the user and the GPU it is   *)
(* for.                                                                    *)
Attached ==
  /\ \A q \in Requests : request[q].at = "found" /\ request[q].row # NoRow =>
       /\ row[request[q].row] \in Row
       /\ row[request[q].row].user = command[request[q].key].user
       /\ row[request[q].row].gpu = Gpu[request[q].from]
  /\ \A k \in Keys, r \in Rows : <<k, r>> \in registered =>
       row[r] \in Row /\ row[r].user = command[k].user

(* A machine that waits waits for its own request; what it holds fits it.  *)
Held ==
  \A m \in Machines :
    /\ machine[m].at # "off" => machine[m].key \in Keys /\ key[machine[m].key] # "unissued"
    /\ machine[m].waits # NoRequest =>
         /\ machine[m].at = "registering"
         /\ request[machine[m].waits].at # "none"
         /\ request[machine[m].waits].from = m
    /\ machine[m].creds # NoRow =>
         /\ row[machine[m].creds] \in Row
         /\ row[machine[m].creds].gpu = Gpu[m]
         /\ \E k \in Keys : <<k, machine[m].creds>> \in registered

Inv == TypeOK /\ Presented /\ Spent /\ Attached /\ Held

LEMMA Typed ==
  TypeOK <=> /\ key \in [Keys -> {"unissued", "live", "gone"}]
             /\ \A k \in Keys : key[k] # "unissued" => command[k] \in Command
             /\ row \in [Rows -> Row \cup {NoNode}]
             /\ machine \in [Machines -> Machine]
             /\ request \in [Requests -> Request]
             /\ registered \subseteq Keys \X Rows
             /\ overlap \subseteq Keys
BY DEF TypeOK, Machine, Request

LEMMA IdleIsRequest == Idle \in Request /\ Idle.at = "none" /\ Idle.row = NoRow
BY DEF Idle, Request

(* A row that is live, or that has an owner, is a row. *)
LEMMA LiveIsRow ==
  ASSUME TypeOK, NEW r \in Rows, row[r].status # "none" PROVE row[r] \in Row
BY DEF TypeOK, NoNode

LEMMA InvInit == Init => Inv
<1> SUFFICES ASSUME Init PROVE Inv
  OBVIOUS
<1>1. TypeOK
  <2>1. request \in [Requests -> Request]
    BY IdleIsRequest DEF Init
  <2>2. QED
    BY <2>1, Typed DEF Init, Machine
<1>2. Presented /\ Spent /\ Attached /\ Held
  BY IdleIsRequest DEF Init, Presented, Spent, Spends, Attached, Held
<1>3. QED
  BY <1>1, <1>2 DEF Inv

(* Who has waited for a request is told, and nobody else. *)
LEMMA TellTells ==
  ASSUME TypeOK, NEW q \in Requests, NEW creds \in Rows \cup {NoRow}, Tell(q, creds)
  PROVE  /\ machine' \in [Machines -> Machine]
         /\ \A m \in Machines \ Waiting(q) : machine'[m] = machine[m]
         /\ \A m \in Waiting(q) :
              /\ machine'[m].at # "off"
              /\ machine'[m].key = machine[m].key
              /\ machine'[m].creds = creds
              /\ machine'[m].waits = NoRequest
<1>1. machine \in [Machines -> Machine]
  BY Typed
<1>2. ASSUME NEW m \in Waiting(q)
      PROVE  /\ machine'[m] = [machine[m] EXCEPT !.at = IF creds = NoRow THEN "starting" ELSE "running",
                                                 !.creds = creds, !.waits = NoRequest]
             /\ machine[m] \in Machine
  BY <1>1 DEF Tell, Waiting
<1>3. ASSUME NEW m \in Waiting(q)
      PROVE  /\ machine'[m] \in Machine
             /\ machine'[m].at # "off"
             /\ machine'[m].key = machine[m].key
             /\ machine'[m].creds = creds
             /\ machine'[m].waits = NoRequest
  <2>1. machine[m] \in Machine
    BY <1>2
  <2> DEFINE at == IF creds = NoRow THEN "starting" ELSE "running"
             w == [machine[m] EXCEPT !.at = at, !.creds = creds, !.waits = NoRequest]
  <2>2. machine'[m] = w
    BY <1>2
  <2>3. at \in {"starting", "running"}
    OBVIOUS
  <2> HIDE DEF at
  <2>4. w \in Machine /\ w.at = at /\ w.key = machine[m].key /\ w.creds = creds /\ w.waits = NoRequest
    BY <2>1, <2>3 DEF Machine
  <2>5. QED
    BY <2>2, <2>3, <2>4
<1>4. \A m \in Machines \ Waiting(q) : machine'[m] = machine[m]
  BY DEF Tell
<1>5. machine' \in [Machines -> Machine]
  <2>1. \A m \in Machines : machine'[m] \in Machine
    BY <1>1, <1>3, <1>4
  <2>2. QED
    BY <2>1 DEF Tell
<1>6. QED
  BY <1>3, <1>4, <1>5

-----------------------------------------------------------------------------
(* What users do to keys. *)
LEMMA KeyStepKeepsInv ==
  ASSUME Inv, NEW k \in Keys,
         \/ KeyExpires(k)
         \/ \E u \in Users, l \in Labels, t \in Rows \cup {NoRow} : IssueKey(k, u, l, t)
  PROVE  Inv'
<1>1. CASE KeyExpires(k)
  <2>1. TypeOK'
    BY <1>1 DEF Inv, TypeOK, KeyExpires
  <2>2. key' \in [Keys -> {"unissued", "live", "gone"}] /\ key[k] = "live" /\ key'[k] = "gone"
        /\ \A j \in Keys \ {k} : key'[j] = key[j]
    BY <1>1 DEF Inv, TypeOK, KeyExpires
  <2>3. Presented'
    BY <1>1, <2>2 DEF Inv, Presented, KeyExpires
  <2>4. Spent'
    BY <1>1, <2>2 DEF Inv, Presented, Spent, Spends, KeyExpires
  <2>5. Attached'
    BY <1>1 DEF Inv, Attached, KeyExpires
  <2>6. Held'
    BY <1>1, <2>2 DEF Inv, Held, KeyExpires
  <2>7. QED
    BY <2>1, <2>3, <2>4, <2>5, <2>6 DEF Inv
<1>2. ASSUME NEW u \in Users, NEW l \in Labels, NEW t \in Rows \cup {NoRow}, IssueKey(k, u, l, t)
      PROVE  Inv'
  <2>1. /\ key' \in [Keys -> {"unissued", "live", "gone"}] /\ key[k] = "unissued" /\ key'[k] = "live"
        /\ \A j \in Keys \ {k} : key'[j] = key[j]
    BY <1>2 DEF Inv, TypeOK, IssueKey
  <2>2. /\ command' \in [Keys -> Command \cup {NoKey}] /\ command'[k] \in Command
        /\ \A j \in Keys \ {k} : command'[j] = command[j]
    BY <1>2 DEF Inv, Presented, IssueKey, Command
  <2>3. TypeOK'
    BY <1>2, <2>1, <2>2 DEF Inv, TypeOK, IssueKey
  <2>4. Presented'
    BY <1>2, <2>1, <2>2 DEF Inv, Presented, IssueKey
  <2>5. Spent'
    BY <1>2, <2>1 DEF Inv, Presented, Spent, Spends, IssueKey
  <2>6. Attached'
    BY <1>2, <2>1, <2>2 DEF Inv, Presented, Spent, Attached, IssueKey
  <2>7. Held'
    BY <1>2, <2>1 DEF Inv, Held, IssueKey
  <2>8. QED
    BY <2>3, <2>4, <2>5, <2>6, <2>7 DEF Inv
<1>3. QED
  BY <1>1, <1>2

(* A machine's step that sends nothing. *)
LEMMA MachineStepKeepsInv ==
  ASSUME Inv, NEW m \in Machines,
         \/ \E k \in Keys : RunCommand(m, k)
         \/ StopContainer(m) \/ UseSavedCredentials(m) \/ GiveUp(m) \/ CredentialsRejected(m)
  PROVE  Inv'
<1>1. PICK w \in Machine :
        /\ machine' = [machine EXCEPT ![m] = w]
        /\ w.at # "off" => w.key \in Keys /\ key[w.key] # "unissued"
        /\ w.waits # NoRequest => w.at = "registering" /\ w.waits = machine[m].waits
        /\ w.creds # NoRow => w.creds = machine[m].creds
  <2>1. machine[m] \in Machine
    BY Typed DEF Inv
  <2>2. ASSUME NEW k \in Keys, RunCommand(m, k)
        PROVE  \E w \in Machine :
                 /\ machine' = [machine EXCEPT ![m] = w]
                 /\ w.at # "off" => w.key \in Keys /\ key[w.key] # "unissued"
                 /\ w.waits # NoRequest => w.at = "registering" /\ w.waits = machine[m].waits
                 /\ w.creds # NoRow => w.creds = machine[m].creds
    <3> DEFINE w == [machine[m] EXCEPT !.at = "starting", !.key = k]
    <3>1. w \in Machine /\ w.key = k /\ w.waits = machine[m].waits /\ w.creds = machine[m].creds
      BY <2>1 DEF Machine
    <3> machine[m].waits = NoRequest
      BY <2>2 DEF Inv, Held, RunCommand
    <3>2. machine' = [machine EXCEPT ![m] = w]
      BY <2>2 DEF RunCommand
    <3>3. QED
      BY <2>2, <3>1, <3>2 DEF RunCommand
  <2>3. ASSUME StopContainer(m)
        PROVE  \E w \in Machine :
                 /\ machine' = [machine EXCEPT ![m] = w]
                 /\ w.at # "off" => w.key \in Keys /\ key[w.key] # "unissued"
                 /\ w.waits # NoRequest => w.at = "registering" /\ w.waits = machine[m].waits
                 /\ w.creds # NoRow => w.creds = machine[m].creds
    <3> DEFINE w == [machine[m] EXCEPT !.at = "off", !.key = NoKey, !.waits = NoRequest]
    <3>1. w \in Machine /\ w.at = "off" /\ w.waits = NoRequest /\ w.creds = machine[m].creds
      BY <2>1 DEF Machine
    <3>2. machine' = [machine EXCEPT ![m] = w]
      BY <2>3 DEF StopContainer
    <3>3. QED
      BY <3>1, <3>2
  <2>4. ASSUME UseSavedCredentials(m) \/ GiveUp(m) \/ CredentialsRejected(m)
        PROVE  \E w \in Machine :
                 /\ machine' = [machine EXCEPT ![m] = w]
                 /\ w.at # "off" => w.key \in Keys /\ key[w.key] # "unissued"
                 /\ w.waits # NoRequest => w.at = "registering" /\ w.waits = machine[m].waits
                 /\ w.creds # NoRow => w.creds = machine[m].creds
    <3>1. machine[m].key \in Keys /\ key[machine[m].key] # "unissued"
      BY <2>4 DEF Inv, Held, UseSavedCredentials, GiveUp, CredentialsRejected
    <3>2. CASE UseSavedCredentials(m)
      <4> DEFINE w == [machine[m] EXCEPT !.at = "running"]
      <4> machine[m].waits = NoRequest
        BY <3>2 DEF Inv, Held, UseSavedCredentials
      <4>1. w \in Machine /\ w.key = machine[m].key /\ w.waits = NoRequest /\ w.creds = machine[m].creds
        BY <2>1 DEF Machine
      <4>2. machine' = [machine EXCEPT ![m] = w]
        BY <3>2 DEF UseSavedCredentials
      <4>3. QED
        BY <3>1, <4>1, <4>2
    <3>3. CASE GiveUp(m)
      <4> DEFINE w == [machine[m] EXCEPT !.at = "starting", !.waits = NoRequest]
      <4>1. w \in Machine /\ w.key = machine[m].key /\ w.waits = NoRequest /\ w.creds = machine[m].creds
        BY <2>1 DEF Machine
      <4>2. machine' = [machine EXCEPT ![m] = w]
        BY <3>3 DEF GiveUp
      <4>3. QED
        BY <3>1, <4>1, <4>2
    <3>4. CASE CredentialsRejected(m)
      <4> DEFINE w == [machine[m] EXCEPT !.at = "starting", !.creds = NoRow]
      <4> machine[m].waits = NoRequest
        BY <3>4 DEF Inv, Held, CredentialsRejected
      <4>1. w \in Machine /\ w.key = machine[m].key /\ w.waits = NoRequest /\ w.creds = NoRow
        BY <2>1 DEF Machine
      <4>2. machine' = [machine EXCEPT ![m] = w]
        BY <3>4 DEF CredentialsRejected
      <4>3. QED
        BY <3>1, <4>1, <4>2
    <3>5. QED
      BY <2>4, <3>2, <3>3, <3>4
  <2>5. QED
    BY <2>2, <2>3, <2>4
<1>2. UNCHANGED <<key, command, row, request, registered, overlap>>
  BY DEF RunCommand, StopContainer, UseSavedCredentials, GiveUp, CredentialsRejected
<1>3. TypeOK'
  BY <1>1, <1>2 DEF Inv, TypeOK, Machine
<1>4. Presented' /\ Spent' /\ Attached'
  BY <1>2 DEF Inv, Presented, Spent, Spends, Attached
<1>5. machine'[m] \in Machine /\ \A n \in Machines \ {m} : machine'[n] = machine[n]
  BY <1>1, Typed DEF Inv
<1>6. machine'[m].at # "off" => machine'[m].key \in Keys /\ key[machine'[m].key] # "unissued"
  BY <1>1, Typed DEF Inv
<1>7. /\ machine'[m].waits # NoRequest =>
           machine'[m].at = "registering" /\ machine'[m].waits = machine[m].waits
      /\ machine'[m].creds # NoRow => machine'[m].creds = machine[m].creds
  BY <1>1, Typed DEF Inv
<1>8. Held'
  <2> SUFFICES ASSUME NEW n \in Machines
               PROVE  /\ machine'[n].at # "off" => machine'[n].key \in Keys /\ key[machine'[n].key] # "unissued"
                      /\ machine'[n].waits # NoRequest =>
                           /\ machine'[n].at = "registering"
                           /\ request[machine'[n].waits].at # "none"
                           /\ request[machine'[n].waits].from = n
                      /\ machine'[n].creds # NoRow =>
                           /\ row[machine'[n].creds] \in Row
                           /\ row[machine'[n].creds].gpu = Gpu[n]
                           /\ \E k \in Keys : <<k, machine'[n].creds>> \in registered
    BY <1>2 DEF Held, Row
  <2>1. CASE n = m
    BY <1>6, <1>7, <2>1 DEF Inv, Held
  <2>2. CASE n # m
    BY <1>5, <2>2 DEF Inv, Held
  <2>3. QED
    BY <2>1, <2>2
<1>9. QED
  BY <1>3, <1>4, <1>8 DEF Inv

-----------------------------------------------------------------------------
(* A machine sends a request of its own. *)
LEMMA SendKeepsInv ==
  ASSUME Inv, NEW m \in Machines, NEW q \in Requests, SendRequest(m, q)
  PROVE  Inv'
<1> DEFINE sent == [at |-> "sent", key |-> machine[m].key, from |-> m, row |-> NoRow]
           w == [machine[m] EXCEPT !.at = "registering", !.waits = q]
<1>1. machine[m] \in Machine /\ machine[m].key \in Keys /\ key[machine[m].key] # "unissued"
      /\ machine[m].creds = NoRow
  BY Typed DEF Inv, Held, SendRequest
<1>2. /\ sent \in Request /\ sent.at = "sent" /\ sent.from = m /\ sent.key = machine[m].key
      /\ sent.row = NoRow
  BY <1>1 DEF Request
<1>3. w \in Machine /\ w.at = "registering" /\ w.key = machine[m].key /\ w.waits = q /\ w.creds = NoRow
  BY <1>1 DEF Machine
<1>4. /\ machine' = [machine EXCEPT ![m] = w] /\ request' = [request EXCEPT ![q] = sent]
      /\ request[q].at = "none"
      /\ UNCHANGED <<key, command, row, registered, overlap>>
  BY IdleIsRequest DEF SendRequest
<1> HIDE DEF sent, w
<1>5. machine' \in [Machines -> Machine] /\ machine'[m] = w /\ \A n \in Machines \ {m} : machine'[n] = machine[n]
  BY <1>3, <1>4, Typed DEF Inv
<1>6. request' \in [Requests -> Request] /\ request'[q] = sent /\ \A p \in Requests \ {q} : request'[p] = request[p]
  BY <1>2, <1>4, Typed DEF Inv
<1>7. TypeOK'
  BY <1>4, <1>5, <1>6 DEF Inv, TypeOK, Machine, Request
<1>8. Presented'
  BY <1>1, <1>2, <1>4, <1>6 DEF Inv, Presented
<1>9. Spent'
  BY <1>2, <1>4, <1>6 DEF Inv, Spent, Spends
<1>10. Attached'
  BY <1>2, <1>4, <1>6 DEF Inv, Attached
<1>11. Held'
  <2>1. \A n \in Machines : machine[n].waits # q
    BY <1>4, NoneAssumption DEF Inv, Held
  <2> SUFFICES ASSUME NEW n \in Machines
               PROVE  /\ machine'[n].at # "off" => machine'[n].key \in Keys /\ key[machine'[n].key] # "unissued"
                      /\ machine'[n].waits # NoRequest =>
                           /\ machine'[n].at = "registering"
                           /\ request'[machine'[n].waits].at # "none"
                           /\ request'[machine'[n].waits].from = n
                      /\ machine'[n].creds # NoRow =>
                           /\ row[machine'[n].creds] \in Row
                           /\ row[machine'[n].creds].gpu = Gpu[n]
                           /\ \E k \in Keys : <<k, machine'[n].creds>> \in registered
    BY <1>4 DEF Held, Row
  <2>2. CASE n = m
    BY <1>1, <1>2, <1>3, <1>5, <1>6, <2>2
  <2>3. CASE n # m
    <3>1. machine[n] \in Machine
      BY Typed DEF Inv
    <3>2. machine[n].waits # NoRequest => request'[machine[n].waits] = request[machine[n].waits]
      BY <1>6, <2>1, <3>1 DEF Machine
    <3>3. QED
      BY <1>5, <2>3, <3>2 DEF Inv, Held
  <2>4. QED
    BY <2>2, <2>3
<1>12. QED
  BY <1>7, <1>8, <1>9, <1>10, <1>11 DEF Inv

(* A request that goes on, and tells nobody yet: r is what it has become.  *)
LEMMA RequestGoesOn ==
  ASSUME Inv, NEW q \in Requests, NEW r \in Request, request' = [request EXCEPT ![q] = r],
         request[q].at # "none", r.at # "none", r.key = request[q].key, r.from = request[q].from,
         UNCHANGED <<command, row, machine, registered>>,
         key' \in [Keys -> {"unissued", "live", "gone"}],
         \A k \in Keys : key'[k] # key[k] => k = r.key /\ key[k] = "live" /\ key'[k] = "gone",
         r.at \in {"burnt", "found"} =>
           key'[r.key] = "gone" /\ (Spends(q) \/ key[r.key] = "live"),
         r.at # "found" => r.row = NoRow,
         r.at = "found" /\ r.row # NoRow =>
           row[r.row] \in Row /\ row[r.row].user = command[r.key].user /\ row[r.row].gpu = Gpu[r.from],
         overlap' \subseteq Keys
  PROVE  Inv'
<1>1. request' \in [Requests -> Request] /\ request'[q] = r /\ \A p \in Requests \ {q} : request'[p] = request[p]
  BY Typed DEF Inv
<1>2. TypeOK'
  BY <1>1 DEF Inv, TypeOK, Machine, Request, Presented
<1>3. Presented'
  BY <1>1 DEF Inv, Presented
<1>4. Spent'
  <2>1. r.key \in Keys
    BY DEF Inv, Presented
  <2>2. \A p \in Requests : Spends(p)' => (Spends(p) \/ (p = q /\ key[r.key] = "live"))
    BY <1>1 DEF Spends
  <2>3. \A p \in Requests : request'[p].key = request[p].key
    BY <1>1
  <2>4. \A p \in Requests : request[p].at # "none" => request[p].key \in Keys
    BY DEF Inv, Presented
  <2>5. \A p \in Requests : Spends(p) => key[request[p].key] = "gone" /\ request[p].key \in Keys
    BY <2>4 DEF Inv, Spent, Spends
  <2>6. ASSUME NEW p \in Requests, Spends(p)'
        PROVE  /\ key'[request'[p].key] = "gone"
               /\ \A n \in Rows : <<request'[p].key, n>> \notin registered
    <3>1. CASE Spends(p)
      <4>1. key'[request[p].key] = "gone"
        BY <2>5, <3>1
      <4>2. QED
        BY <2>3, <3>1, <4>1 DEF Inv, Spent
    <3>2. CASE p = q /\ key[r.key] = "live"
      <4>1. \A n \in Rows : <<r.key, n>> \notin registered
        BY <2>1, <3>2 DEF Inv, Spent
      <4>2. QED
        BY <1>1, <2>6, <3>2, <4>1 DEF Spends
    <3>3. QED
      BY <2>2, <2>6, <3>1, <3>2
  <2>7. ASSUME NEW p \in Requests, NEW o \in Requests, Spends(p)', Spends(o)', request'[p].key = request'[o].key
        PROVE  p = o
    BY <1>1, <2>2, <2>3, <2>5, <2>7 DEF Inv, Spent
  <2>8. \A k \in Keys, n \in Rows : <<k, n>> \in registered => key'[k] = "gone"
    BY DEF Inv, Spent
  <2>9. QED
    BY <2>6, <2>7, <2>8 DEF Inv, Spent
<1>5. Attached'
  BY <1>1 DEF Inv, Attached
<1>6. Held'
  <2>1. \A p \in Requests : request[p].at # "none" => request'[p].at # "none" /\ request'[p].from = request[p].from
    BY <1>1
  <2>2. \A k \in Keys : key[k] # "unissued" => key'[k] # "unissued"
    OBVIOUS
  <2>3. \A m \in Machines : machine[m].waits \in Requests \cup {NoRequest}
    BY Typed DEF Inv, Machine
  <2>4. QED
    BY <2>1, <2>2, <2>3 DEF Inv, Held
<1>7. QED
  BY <1>2, <1>3, <1>4, <1>5, <1>6 DEF Inv

(* A request that ends: who waits for it is given creds, and what it has   *)
(* registered is on record.                                                *)
LEMMA RequestEnds ==
  ASSUME Inv, NEW q \in Requests, NEW creds \in Rows \cup {NoRow},
         request[q].at # "none", request' = [request EXCEPT ![q] = Idle], Tell(q, creds),
         UNCHANGED <<key, command, overlap>>,
         row' \in [Rows -> Row \cup {NoNode}],
         \A r \in Rows : row[r] \in Row =>
           row'[r] \in Row /\ row'[r].user = row[r].user /\ row'[r].gpu = row[r].gpu,
         \/ creds = NoRow /\ registered' = registered
         \/ /\ creds \in Rows /\ Spends(q)
            /\ registered' = registered \cup {<<request[q].key, creds>>}
            /\ row'[creds] \in Row
            /\ row'[creds].user = command[request[q].key].user
            /\ row'[creds].gpu = Gpu[request[q].from]
  PROVE  Inv'
<1>1. request' \in [Requests -> Request] /\ request'[q] = Idle /\ \A p \in Requests \ {q} : request'[p] = request[p]
  BY Typed, IdleIsRequest DEF Inv
<1>2. /\ machine' \in [Machines -> Machine]
      /\ \A m \in Machines \ Waiting(q) : machine'[m] = machine[m]
      /\ \A m \in Waiting(q) :
           /\ machine'[m].at # "off" /\ machine'[m].key = machine[m].key
           /\ machine'[m].creds = creds /\ machine'[m].waits = NoRequest
  BY TellTells DEF Inv
<1>3. request[q].key \in Keys /\ request[q].from \in Machines
  BY DEF Inv, Presented
<1>4. registered' \subseteq Keys \X Rows
  BY <1>3, Typed DEF Inv
<1>5. TypeOK'
  BY <1>1, <1>2, <1>4 DEF Inv, TypeOK, Machine, Request
<1>6. Presented'
  BY <1>1, IdleIsRequest DEF Inv, Presented
<1>7. \A p \in Requests : Spends(p)' => p # q /\ Spends(p) /\ request'[p] = request[p]
  BY <1>1, IdleIsRequest DEF Spends
<1>8. \A k \in Keys, r \in Rows : <<k, r>> \in registered' =>
        \/ <<k, r>> \in registered
        \/ Spends(q) /\ k = request[q].key /\ r = creds
  OBVIOUS
<1>9. Spent'
  <2>1. ASSUME NEW p \in Requests, Spends(p)'
        PROVE  /\ key[request'[p].key] = "gone"
               /\ \A r \in Rows : <<request'[p].key, r>> \notin registered'
    <3>1. p # q /\ Spends(p) /\ request'[p] = request[p]
      BY <1>7, <2>1
    <3>2. request[p].key \in Keys
      BY <3>1 DEF Inv, Presented, Spends
    <3>3. Spends(q) => request[p].key # request[q].key
      BY <3>1 DEF Inv, Spent
    <3>4. key[request[p].key] = "gone" /\ \A r \in Rows : <<request[p].key, r>> \notin registered
      BY <3>1 DEF Inv, Spent
    <3>5. QED
      BY <1>8, <3>1, <3>2, <3>3, <3>4
  <2>2. \A p, o \in Requests : Spends(p)' /\ Spends(o)' /\ request'[p].key = request'[o].key => p = o
    BY <1>7 DEF Inv, Spent
  <2>3. \A k \in Keys, r \in Rows : <<k, r>> \in registered' => key[k] = "gone"
    BY <1>8 DEF Inv, Spent
  <2>4. \A k \in Keys : \A r, n \in Rows : <<k, r>> \in registered' /\ <<k, n>> \in registered' => r = n
    BY <1>8 DEF Inv, Spent
  <2>5. QED
    BY <2>1, <2>2, <2>3, <2>4 DEF Spent
<1>10. Attached'
  <2>1. ASSUME NEW p \in Requests, request'[p].at = "found", request'[p].row # NoRow
        PROVE  /\ row'[request'[p].row] \in Row
               /\ row'[request'[p].row].user = command[request'[p].key].user
               /\ row'[request'[p].row].gpu = Gpu[request'[p].from]
    <3>1. p # q /\ request'[p] = request[p] /\ request[p].row \in Rows
      BY <1>1, <2>1, IdleIsRequest DEF Request
    <3>2. QED
      BY <2>1, <3>1 DEF Inv, Attached
  <2>2. \A k \in Keys, r \in Rows : <<k, r>> \in registered' => row'[r] \in Row /\ row'[r].user = command[k].user
    BY <1>8 DEF Inv, Attached
  <2>3. QED
    BY <2>1, <2>2 DEF Attached
<1>11. Held'
  <2> SUFFICES ASSUME NEW m \in Machines
               PROVE  /\ machine'[m].at # "off" => machine'[m].key \in Keys /\ key[machine'[m].key] # "unissued"
                      /\ machine'[m].waits # NoRequest =>
                           /\ machine'[m].at = "registering"
                           /\ request'[machine'[m].waits].at # "none"
                           /\ request'[machine'[m].waits].from = m
                      /\ machine'[m].creds # NoRow =>
                           /\ row'[machine'[m].creds] \in Row
                           /\ row'[machine'[m].creds].gpu = Gpu[m]
                           /\ \E k \in Keys : <<k, machine'[m].creds>> \in registered'
    BY DEF Held, Row
  <2>1. machine[m] \in Machine
    BY Typed DEF Inv
  <2>2. CASE m \in Waiting(q)
    <3>1. machine[m].waits = q /\ q # NoRequest
      BY <2>2, NoneAssumption DEF Waiting
    <3>2. request[q].from = m /\ machine[m].at = "registering"
      BY <3>1 DEF Inv, Held
    <3>3. machine[m].key \in Keys /\ key[machine[m].key] # "unissued"
      BY <3>2 DEF Inv, Held
    <3>4. creds # NoRow => \E k \in Keys : <<k, creds>> \in registered'
      BY <1>3
    <3>5. QED
      BY <1>2, <2>2, <3>2, <3>3, <3>4
  <2>3. CASE m \notin Waiting(q)
    <3>1. machine'[m] = machine[m] /\ machine[m].waits # q
      BY <1>2, <2>3 DEF Waiting
    <3>2. machine[m].waits # NoRequest => request'[machine[m].waits] = request[machine[m].waits]
      BY <1>1, <2>1, <3>1 DEF Machine
    <3>3. machine[m].creds # NoRow => machine[m].creds \in Rows
      BY <2>1 DEF Machine
    <3>4. registered \subseteq registered'
      OBVIOUS
    <3>5. /\ machine[m].at # "off" => machine[m].key \in Keys /\ key[machine[m].key] # "unissued"
          /\ machine[m].waits # NoRequest =>
               /\ machine[m].at = "registering"
               /\ request[machine[m].waits].at # "none"
               /\ request[machine[m].waits].from = m
          /\ machine[m].creds # NoRow =>
               /\ row[machine[m].creds] \in Row
               /\ row[machine[m].creds].gpu = Gpu[m]
               /\ \E k \in Keys : <<k, machine[m].creds>> \in registered
      BY DEF Inv, Held
    <3>6. QED
      BY <3>1, <3>2, <3>3, <3>4, <3>5
  <2>4. QED
    BY <2>2, <2>3
<1>12. QED
  BY <1>5, <1>6, <1>9, <1>10, <1>11 DEF Inv

-----------------------------------------------------------------------------
(* A row is removed, and stays somebody's. *)
LEMMA RemoveKeepsInv ==
  ASSUME Inv, NEW r \in Rows, Remove(r)
  PROVE  Inv'
<1> DEFINE w == [row[r] EXCEPT !.status = "removed"]
<1>1. row[r] \in Row
  BY LiveIsRow DEF Inv, Remove
<1>2. w \in Row /\ w.user = row[r].user /\ w.gpu = row[r].gpu
  BY <1>1 DEF Row
<1>3. row' = [row EXCEPT ![r] = w] /\ UNCHANGED <<key, command, machine, request, registered, overlap>>
  BY DEF Remove
<1> HIDE DEF w
<1>4. /\ row' \in [Rows -> Row \cup {NoNode}]
      /\ row'[r] = w
      /\ \A s \in Rows \ {r} : row'[s] = row[s]
  BY <1>2, <1>3, Typed DEF Inv
<1>5. \A s \in Rows : row[s] \in Row => row'[s] \in Row /\ row'[s].user = row[s].user /\ row'[s].gpu = row[s].gpu
  BY <1>2, <1>4
<1>6. TypeOK'
  BY <1>3, <1>4 DEF Inv, TypeOK
<1>7. Presented' /\ Spent'
  BY <1>3 DEF Inv, Presented, Spent, Spends
<1>8. Attached'
  <2>1. \A q \in Requests : request[q].row \in Rows \cup {NoRow}
    BY Typed DEF Inv, Request
  <2>2. \A q \in Requests : request[q].at = "found" /\ request[q].row # NoRow =>
          /\ row'[request[q].row] \in Row
          /\ row'[request[q].row].user = command[request[q].key].user
          /\ row'[request[q].row].gpu = Gpu[request[q].from]
    BY <1>5, <2>1 DEF Inv, Attached
  <2>3. \A k \in Keys, s \in Rows : <<k, s>> \in registered => row'[s] \in Row /\ row'[s].user = command[k].user
    BY <1>5 DEF Inv, Attached
  <2>4. QED
    BY <1>3, <2>2, <2>3 DEF Attached
<1>9. Held'
  <2>1. \A m \in Machines : machine[m].creds # NoRow =>
          /\ row'[machine[m].creds] \in Row
          /\ row'[machine[m].creds].gpu = Gpu[m]
    <3>1. \A m \in Machines : machine[m].creds \in Rows \cup {NoRow}
      BY Typed DEF Inv, Machine
    <3>2. QED
      BY <1>5, <3>1 DEF Inv, Held
  <2>2. QED
    BY <1>3, <2>1 DEF Inv, Held
<1>10. QED
  BY <1>6, <1>7, <1>8, <1>9 DEF Inv

(* A row is found that the registration may attach to, or there is none. *)
LEMMA FindFinds ==
  ASSUME Inv, NEW q \in Requests, Find(q)
  PROVE  \E r \in Rows \cup {NoRow}, w \in Request :
           /\ request' = [request EXCEPT ![q] = w]
           /\ w.at = "found" /\ w.row = r /\ w.key = request[q].key /\ w.from = request[q].from
           /\ r # NoRow => SameNode(r, q)
           /\ r = NoRow => \A s \in Rows : ~ SameNode(s, q)
<1>1. request[q] \in Request /\ request[q].row = NoRow
  BY Typed DEF Inv, Presented, Find
<1>2. CASE \A s \in Rows : ~ SameNode(s, q)
  <2> DEFINE w == [request[q] EXCEPT !.at = "found"]
  <2>1. /\ w \in Request /\ w.at = "found" /\ w.row = NoRow
        /\ w.key = request[q].key /\ w.from = request[q].from
    BY <1>1 DEF Request
  <2>2. request' = [request EXCEPT ![q] = w]
    BY <1>2 DEF Find
  <2>3. QED
    BY <1>2, <2>1, <2>2
<1>3. CASE \E s \in Rows : SameNode(s, q)
  <2>1. PICK r \in Rows : SameNode(r, q) /\ request' = [request EXCEPT ![q].at = "found", ![q].row = r]
    BY <1>3 DEF Find
  <2> DEFINE w == [request[q] EXCEPT !.at = "found", !.row = r]
  <2>2. /\ w \in Request /\ w.at = "found" /\ w.row = r
        /\ w.key = request[q].key /\ w.from = request[q].from
    BY <1>1 DEF Request
  <2>3. request' = [request EXCEPT ![q] = w]
    BY <2>1
  <2>4. r # NoRow
    BY NoneAssumption
  <2>5. QED
    BY <2>1, <2>2, <2>3, <2>4
<1>4. QED
  BY <1>2, <1>3

(* The key is burnt, and a row is looked for. *)
LEMMA GoingOnKeepsInv ==
  ASSUME Inv, NEW q \in Requests, Burn(q) \/ Find(q)
  PROVE  Inv'
<1>1. request[q] \in Request
  BY Typed DEF Inv
<1>2. CASE Burn(q)
  <2> DEFINE w == [request[q] EXCEPT !.at = "burnt"]
  <2>1. w \in Request /\ w.at = "burnt" /\ w.key = request[q].key /\ w.from = request[q].from
        /\ w.row = request[q].row
    BY <1>1 DEF Request
  <2>2. request' = [request EXCEPT ![q] = w] /\ request[q].at = "sent"
    BY <1>2 DEF Burn
  <2> HIDE DEF w
  <2>3. /\ request[q].key \in Keys /\ key[request[q].key] = "live"
        /\ key' = [key EXCEPT ![request[q].key] = "gone"]
        /\ UNCHANGED <<command, row, machine, registered>>
    BY <1>2, <2>2 DEF Inv, Presented, Burn
  <2>4. /\ key' \in [Keys -> {"unissued", "live", "gone"}]
        /\ key'[w.key] = "gone"
        /\ \A k \in Keys : key'[k] # key[k] => k = w.key /\ key[k] = "live" /\ key'[k] = "gone"
    BY <2>1, <2>3, Typed DEF Inv
  <2>5. overlap' \subseteq Keys
    BY <1>2, <2>2 DEF Inv, TypeOK, Presented, Burn
  <2>6. w.row = NoRow
    BY <2>1, <2>2 DEF Inv, Presented
  <2>7. key[w.key] = "live" /\ request[q].at # "none" /\ w.at # "none" /\ w.at # "found"
    BY <2>1, <2>2, <2>3
  <2>8. QED
    BY <2>1, <2>2, <2>3, <2>4, <2>5, <2>6, <2>7, RequestGoesOn
<1>3. CASE Find(q)
  <2>1. PICK r \in Rows \cup {NoRow}, w \in Request :
          /\ request' = [request EXCEPT ![q] = w]
          /\ w.at = "found" /\ w.row = r /\ w.key = request[q].key /\ w.from = request[q].from
          /\ r # NoRow => SameNode(r, q)
    BY <1>3, FindFinds
  <2>4. /\ request[q].at = "burnt" /\ Spends(q)
        /\ UNCHANGED <<key, command, row, machine, registered, overlap>>
    BY <1>3 DEF Find, Spends
  <2>5. key[request[q].key] = "gone"
    BY <2>4 DEF Inv, Spent
  <2>6. r # NoRow =>
          row[r] \in Row /\ row[r].user = command[request[q].key].user /\ row[r].gpu = Gpu[request[q].from]
    BY <2>1, LiveIsRow DEF Inv, SameNode
  <2>7. key \in [Keys -> {"unissued", "live", "gone"}] /\ overlap \subseteq Keys
    BY Typed DEF Inv
  <2>8. QED
    BY <2>1, <2>4, <2>5, <2>6, <2>7, RequestGoesOn
<1>4. QED
  BY <1>2, <1>3

(* The request is turned away, fails, or is committed. *)
LEMMA EndKeepsInv ==
  ASSUME Inv, NEW q \in Requests,
         Reject(q) \/ BackendFails(q) \/ Reattach(q) \/ \E r \in Rows : AddNode(q, r)
  PROVE  Inv'
<1> row \in [Rows -> Row \cup {NoNode}] /\ request[q] \in Request
  BY Typed DEF Inv
<1>1. CASE Reject(q) \/ BackendFails(q)
  BY <1>1, RequestEnds DEF Reject, BackendFails
<1>2. CASE Reattach(q)
  <2> DEFINE r == request[q].row
             w == [row[r] EXCEPT !.status = "live"]
  <2>1. /\ Spends(q) /\ request[q].at = "found" /\ r \in Rows
        /\ row[r] \in Row
        /\ row[r].user = command[request[q].key].user
        /\ row[r].gpu = Gpu[request[q].from]
    BY <1>2 DEF Inv, Attached, Reattach, Spends, Request
  <2>2. w \in Row /\ w.user = row[r].user /\ w.gpu = row[r].gpu
    BY <2>1 DEF Row
  <2>3. /\ row' = row \/ row' = [row EXCEPT ![r] = w]
        /\ request' = [request EXCEPT ![q] = Idle]
        /\ Tell(q, r)
        /\ registered' = registered \cup {<<request[q].key, r>>}
        /\ UNCHANGED <<key, command, overlap>>
    BY <1>2 DEF Reattach
  <2> HIDE DEF w, r
  <2>4. /\ row' \in [Rows -> Row \cup {NoNode}]
        /\ \A s \in Rows : row[s] \in Row =>
             row'[s] \in Row /\ row'[s].user = row[s].user /\ row'[s].gpu = row[s].gpu
    BY <2>1, <2>2, <2>3
  <2>5. QED
    BY <2>1, <2>3, <2>4, RequestEnds
<1>3. ASSUME NEW r \in Rows, AddNode(q, r)
      PROVE  Inv'
  <2> DEFINE w == [user |-> command[request[q].key].user, label |-> command[request[q].key].label,
                   gpu |-> Gpu[request[q].from], status |-> "live"]
  <2>1. Spends(q) /\ request[q].at = "found" /\ row[r] = NoNode
    BY <1>3 DEF AddNode, Spends
  <2>2. command[request[q].key] \in Command /\ request[q].from \in Machines
    BY <2>1 DEF Inv, TypeOK, Presented
  <2>3. w \in Row /\ w.user = command[request[q].key].user /\ w.gpu = Gpu[request[q].from]
    BY <2>2 DEF Row, Command
  <2>4. /\ row' = [row EXCEPT ![r] = w]
        /\ request' = [request EXCEPT ![q] = Idle]
        /\ Tell(q, r)
        /\ registered' = registered \cup {<<request[q].key, r>>}
        /\ UNCHANGED <<key, command, overlap>>
    BY <1>3 DEF AddNode
  <2> HIDE DEF w
  <2>5. NoNode \notin Row
    <3>1. \A x \in Row : x.status # "none"
      BY DEF Row
    <3>2. QED
      BY <3>1 DEF NoNode
  <2>6. /\ row' \in [Rows -> Row \cup {NoNode}]
        /\ row'[r] = w
        /\ \A s \in Rows : row[s] \in Row =>
             row'[s] \in Row /\ row'[s].user = row[s].user /\ row'[s].gpu = row[s].gpu
    BY <2>1, <2>3, <2>4, <2>5
  <2>7. QED
    BY <2>1, <2>3, <2>4, <2>6, RequestEnds
<1>4. QED
  BY <1>1, <1>2, <1>3

LEMMA InvStep == Inv /\ [Next]_vars => Inv'
<1> SUFFICES ASSUME Inv, [Next]_vars PROVE Inv'
  OBVIOUS
<1>1. CASE UserStep
  <2>1. ASSUME NEW k \in Keys, NEW r \in Rows, ResetKey(k, r) PROVE Inv'
    <3>1. row[r].user \in Users /\ row[r].label \in Labels
      BY <2>1, LiveIsRow DEF Inv, ResetKey, Row
    <3>2. QED
      BY <2>1, <3>1, KeyStepKeepsInv DEF ResetKey
  <2>2. QED
    BY <1>1, <2>1, KeyStepKeepsInv, MachineStepKeepsInv, RemoveKeepsInv DEF UserStep
<1>2. ASSUME NEW m \in Machines, ClientStep(m) PROVE Inv'
  BY <1>2, MachineStepKeepsInv, SendKeepsInv DEF ClientStep
<1>3. ASSUME NEW q \in Requests, BackendStep(q) PROVE Inv'
  BY <1>3, GoingOnKeepsInv, EndKeepsInv DEF BackendStep
<1>4. CASE UNCHANGED vars
  <2> UNCHANGED <<key, command, row, machine, request, registered, overlap>>
    BY <1>4 DEF vars
  <2>1. TypeOK'
    BY DEF Inv, TypeOK
  <2>2. Presented' /\ Spent'
    BY DEF Inv, Presented, Spent, Spends
  <2>3. Attached' /\ Held'
    BY DEF Inv, Attached, Held
  <2>4. QED
    BY <2>1, <2>2, <2>3 DEF Inv
<1>5. QED
  BY <1>1, <1>2, <1>3, <1>4 DEF Next

-----------------------------------------------------------------------------
(* A set with at most one element has at most one. *)
LEMMA OneAtMost ==
  ASSUME NEW S, \A x, y \in S : x = y
  PROVE  Cardinality(S) \in {0, 1} /\ (Cardinality(S) = 1 => S # {})
<1>1. CASE S = {}
  BY <1>1, FS_EmptySet
<1>2. CASE S # {}
  <2>1. PICK x : x \in S
    BY <1>2
  <2>2. S = {x}
    BY <2>1
  <2>3. QED
    BY <2>2, FS_Singleton
<1>3. QED
  BY <1>1, <1>2

LEMMA InvMakesKeysHold == Inv => KeysHold
<1> SUFFICES ASSUME Inv PROVE KeysHold
  OBVIOUS
<1>1. ASSUME NEW k \in Keys
      PROVE  LET spending == {q \in Requests : request[q].key = k /\ request[q].at \in {"burnt", "found"}}
                 spent    == {r \in Rows : <<k, r>> \in registered}
             IN  /\ Cardinality(spending) + Cardinality(spent) <= 1
                 /\ key[k] = "live" => spending \cup spent = {}
  <2> DEFINE spending == {q \in Requests : request[q].key = k /\ request[q].at \in {"burnt", "found"}}
             spent    == {r \in Rows : <<k, r>> \in registered}
  <2>1. \A p, q \in spending : p = q
    BY DEF Inv, Spent, Spends
  <2>2. \A r, s \in spent : r = s
    BY DEF Inv, Spent
  <2>3. spending = {} \/ spent = {}
    BY DEF Inv, Spent, Spends
  <2>4. key[k] = "live" => spending \cup spent = {}
    BY DEF Inv, Spent, Spends
  <2> HIDE DEF spending, spent
  <2>5. /\ Cardinality(spending) \in {0, 1} /\ (Cardinality(spending) = 1 => spending # {})
        /\ Cardinality(spent) \in {0, 1} /\ (Cardinality(spent) = 1 => spent # {})
    BY <2>1, <2>2, OneAtMost
  <2>6. Cardinality(spending) + Cardinality(spent) <= 1
    BY <2>3, <2>5
  <2>7. QED
    BY <2>4, <2>6 DEF spending, spent
<1>2. KeyStaysWithItsUser
  BY DEF Inv, Attached, KeyStaysWithItsUser
<1>3. QED
  BY <1>1, <1>2 DEF KeysHold, KeyIsSingleUse

LEMMA InvMakesCredentialsFit == Inv => CredentialsFitTheMachine
BY DEF Inv, Held, CredentialsFitTheMachine

(* Whatever is issued, removed, given up and answered late, the state      *)
(* keeps its types: keys, rows, containers and register requests.          *)
THEOREM RegistrationTypes == Spec => []TypeOK
<1>1. Spec => []Inv
  BY InvInit, InvStep, PTL DEF Spec
<1>2. Inv => TypeOK
  BY DEF Inv
<1>3. QED
  BY <1>1, <1>2, PTL

(* GETDEL makes a key single-use: one request spends it, one row is        *)
(* registered with it, and that row is of the user it was issued to.       *)
THEOREM KeysAlwaysHold == Spec => []KeysHold
<1>1. Spec => []Inv
  BY InvInit, InvStep, PTL DEF Spec
<1>2. QED
  BY <1>1, InvMakesKeysHold, PTL

(* A machine's credentials are those of a row for its own GPU, which one   *)
(* of the keys has registered.                                             *)
THEOREM CredentialsAlwaysFit == Spec => []CredentialsFitTheMachine
<1>1. Spec => []Inv
  BY InvInit, InvStep, PTL DEF Spec
<1>2. QED
  BY <1>1, InvMakesCredentialsFit, PTL

-----------------------------------------------------------------------------
(* Why a node has one row, unless registrations of it overlap. *)

Live(r) == row[r].status = "live"
Alike(r, s) == row[r].user = row[s].user /\ row[r].label = row[s].label /\ row[r].gpu = row[s].gpu

(* The row is of the node that the registration is for. *)
IsFor(r, q) ==
  /\ row[r].user = command[request[q].key].user
  /\ row[r].label = command[request[q].key].label
  /\ row[r].gpu = Gpu[request[q].from]

(* A registration that overlapped made one of the two rows. *)
Explained(r, s) == \E k \in overlap : <<k, r>> \in registered \/ <<k, s>> \in registered

(* A registration for this user and label overlapped another. *)
Disturbed(k) == \E o \in overlap : command[o].user = command[k].user /\ command[o].label = command[k].label

(* Labels agree like users and GPUs do, and a key's target is the user's.  *)
Labelled ==
  /\ \A q \in Requests : request[q].at = "found" /\ request[q].row # NoRow =>
       row[request[q].row].label = command[request[q].key].label
  /\ \A k \in Keys, r \in Rows : <<k, r>> \in registered => row[r].label = command[k].label
  /\ \A k \in overlap : key[k] # "unissued"
  /\ \A k \in Keys : key[k] # "unissued" /\ command[k].target # NoRow =>
       /\ row[command[k].target] \in Row
       /\ row[command[k].target].user = command[k].user
       /\ row[command[k].target].label = command[k].label

(* Whoever spends a key while another does for the same node is on record. *)
Recorded ==
  \A p, q \in Requests :
    p # q /\ Spends(p) /\ Spends(q) /\ Node(p) = Node(q) => request[p].key \in overlap

(* What a registration has found is still the node's only live row, unless *)
(* it overlapped another, or the twins were there before.                  *)
Found ==
  \A q \in Requests : request[q].at = "found" /\ request[q].key \notin overlap =>
    \A s \in Rows : Live(s) /\ IsFor(s, q) /\ s # request[q].row =>
      request[q].row # NoRow /\ Explained(request[q].row, s)

(* A reset key that registered another row than its target did so after    *)
(* the target was removed, and nobody is about to bring it back.           *)
Missed ==
  \A k \in Keys, r \in Rows :
    LET t == command[k].target IN
    <<k, r>> \in registered /\ t # NoRow /\ t # r /\ row[t].gpu = row[r].gpu =>
      \/ Disturbed(k)
      \/ ~ Live(t) /\ \A p \in Requests : request[p].at = "found" => request[p].row # t

Twins == Labelled /\ Recorded /\ Found /\ TwinsComeFromOverlap /\ Missed

LEMMA TwinsInit == Init => Twins
<1> SUFFICES ASSUME Init PROVE Twins
  OBVIOUS
<1>1. \A q \in Requests : request[q].at = "none"
  BY IdleIsRequest DEF Init
<1>2. \A r \in Rows : row[r].status = "none"
  BY DEF Init, NoNode
<1>3. registered = {} /\ overlap = {} /\ \A k \in Keys : key[k] = "unissued"
  BY DEF Init
<1>4. Labelled /\ Recorded /\ Found
  BY <1>1, <1>2, <1>3 DEF Labelled, Recorded, Found, Spends
<1>5. TwinsComeFromOverlap /\ Missed
  BY <1>2, <1>3 DEF TwinsComeFromOverlap, Missed
<1>6. QED
  BY <1>4, <1>5 DEF Twins

(* Registrations that one row fits are of one node. *)
LEMMA OneNode ==
  ASSUME NEW p \in Requests, NEW q \in Requests, NEW r, IsFor(r, p), IsFor(r, q)
  PROVE  Node(p) = Node(q)
BY DEF IsFor, Node

(* What a registration holds is typed. *)
LEMMA SpenderIsTyped ==
  ASSUME Inv, NEW q \in Requests, Spends(q)
  PROVE  request[q].key \in Keys /\ key[request[q].key] # "unissued" /\ request[q].from \in Machines
BY DEF Inv, Presented, Spends

LEMMA FoundIsFor ==
  ASSUME Inv, Twins, NEW q \in Requests, request[q].at = "found", request[q].row # NoRow
  PROVE  request[q].row \in Rows /\ row[request[q].row] \in Row /\ IsFor(request[q].row, q)
<1>1. request[q].row \in Rows
  BY Typed DEF Inv, Request
<1>2. QED
  BY <1>1 DEF Inv, Attached, Twins, Labelled, IsFor

LEMMA LiveIsTyped ==
  ASSUME Inv, NEW r \in Rows, Live(r) PROVE row[r] \in Row
BY LiveIsRow DEF Inv, Live

(* What no step changes: the command of an issued key, the owner of a row. *)
Settled ==
  /\ \A k \in Keys : key[k] # "unissued" => key'[k] # "unissued" /\ command'[k] = command[k]
  /\ \A r \in Rows : row[r] \in Row =>
       row'[r] \in Row /\ row'[r].user = row[r].user /\ row'[r].label = row[r].label /\ row'[r].gpu = row[r].gpu
  /\ \A k \in Keys : key'[k] # "unissued" /\ key[k] = "unissued" /\ command'[k].target # NoRow =>
       LET t == command'[k].target IN
       t \in Rows /\ row'[t] \in Row /\ row'[t].user = command'[k].user /\ row'[t].label = command'[k].label

(* A step that finds, registers and revives nothing. *)
LEMMA QuietKeepsTwins ==
  ASSUME Inv, Twins, Inv', Settled, UNCHANGED <<registered, overlap>>,
         \A p \in Requests : Spends(p)' => Spends(p) /\ request'[p] = request[p],
         \A r \in Rows : Live(r)' => Live(r)
  PROVE  Twins'
<1>1. ASSUME NEW p \in Requests, Spends(p)'
      PROVE  /\ Spends(p) /\ request'[p] = request[p]
             /\ request[p].key \in Keys /\ key[request[p].key] # "unissued"
             /\ command'[request[p].key] = command[request[p].key]
  BY <1>1, SpenderIsTyped DEF Settled
<1>2. ASSUME NEW p \in Requests, request'[p].at = "found"
      PROVE  Spends(p)'
  BY <1>2 DEF Spends
<1>3. \A k \in Keys, r \in Rows : <<k, r>> \in registered =>
        key[k] # "unissued" /\ command'[k] = command[k] /\ row[r] \in Row
  BY DEF Inv, Spent, Attached, Settled
<1>4. overlap \subseteq Keys /\ \A k \in overlap : key[k] # "unissued" /\ command'[k] = command[k]
  BY DEF Inv, TypeOK, Twins, Labelled, Settled
<1>5. \A k \in Keys : key[k] # "unissued" /\ command[k].target # NoRow => command[k].target \in Rows
  BY DEF Inv, TypeOK, Command
<1>6. Labelled'
  <2>1. ASSUME NEW q \in Requests, request'[q].at = "found", request'[q].row # NoRow
        PROVE  row'[request'[q].row].label = command'[request'[q].key].label
    BY <1>1, <1>2, <2>1, FoundIsFor DEF IsFor, Settled
  <2>2. ASSUME NEW k \in Keys, NEW r \in Rows, <<k, r>> \in registered
        PROVE  row'[r].label = command'[k].label
    BY <1>3, <2>2 DEF Twins, Labelled, Settled
  <2>3. \A k \in overlap : key'[k] # "unissued"
    BY <1>4 DEF Settled
  <2>4. ASSUME NEW k \in Keys, key'[k] # "unissued", command'[k].target # NoRow
        PROVE  /\ row'[command'[k].target] \in Row
               /\ row'[command'[k].target].user = command'[k].user
               /\ row'[command'[k].target].label = command'[k].label
    <3>1. CASE key[k] = "unissued"
      BY <2>4, <3>1 DEF Settled
    <3>2. CASE key[k] # "unissued"
      <4>1. command'[k] = command[k]
        BY <3>2 DEF Settled
      <4>2. QED
        BY <1>5, <2>4, <3>2, <4>1 DEF Twins, Labelled, Settled
    <3>3. QED
      BY <3>1, <3>2
  <2>5. QED
    BY <2>1, <2>2, <2>3, <2>4 DEF Labelled
<1>7. Recorded'
  <2>1. ASSUME NEW p \in Requests, Spends(p)' PROVE Node(p)' = Node(p)
    BY <1>1, <2>1 DEF Node
  <2>2. QED
    BY <1>1, <2>1 DEF Twins, Recorded
<1>8. Found'
  <2> SUFFICES ASSUME NEW q \in Requests, request'[q].at = "found", request'[q].key \notin overlap,
                      NEW s \in Rows, Live(s)', IsFor(s, q)', s # request'[q].row
               PROVE  request'[q].row # NoRow /\ Explained(request[q].row, s)'
    BY DEF Found
  <2>1. request'[q] = request[q] /\ command'[request[q].key] = command[request[q].key]
    BY <1>1, <1>2
  <2>2. Live(s) /\ IsFor(s, q)
    BY <2>1, LiveIsTyped DEF IsFor, Settled
  <2>3. request[q].row # NoRow /\ Explained(request[q].row, s)
    BY <2>1, <2>2 DEF Twins, Found
  <2>4. QED
    BY <2>1, <2>3 DEF Explained
<1>9. TwinsComeFromOverlap'
  <2> SUFFICES ASSUME NEW r1 \in Rows, NEW r2 \in Rows, r1 # r2, Live(r1)', Live(r2)', Alike(r1, r2)'
               PROVE  \E k \in overlap : <<k, r1>> \in registered \/ <<k, r2>> \in registered
    BY DEF TwinsComeFromOverlap, Live, Alike
  <2>1. Live(r1) /\ Live(r2) /\ Alike(r1, r2)
    BY LiveIsTyped DEF Alike, Settled
  <2>2. QED
    BY <2>1 DEF Twins, TwinsComeFromOverlap, Live, Alike
<1>10. Missed'
  <2> SUFFICES ASSUME NEW k \in Keys, NEW r \in Rows, <<k, r>> \in registered, command'[k].target # NoRow,
                      command'[k].target # r, row'[command'[k].target].gpu = row'[r].gpu
               PROVE  \/ Disturbed(k)'
                      \/ /\ ~ Live(command[k].target)'
                         /\ \A p \in Requests : request'[p].at = "found" => request'[p].row # command'[k].target
    BY DEF Missed
  <2> DEFINE t == command[k].target
  <2>1. key[k] # "unissued" /\ command'[k] = command[k] /\ t \in Rows /\ row[t] \in Row /\ row[r] \in Row
    BY <1>3, <1>5 DEF Twins, Labelled
  <2>2. t # NoRow /\ t # r /\ row[t].gpu = row[r].gpu
    BY <2>1 DEF Settled
  <2>3. Disturbed(k) \/ (~ Live(t) /\ \A p \in Requests : request[p].at = "found" => request[p].row # t)
    BY <2>2 DEF Twins, Missed
  <2>4. CASE Disturbed(k)
    BY <1>4, <2>1, <2>4 DEF Disturbed
  <2>5. CASE ~ Live(t) /\ \A p \in Requests : request[p].at = "found" => request[p].row # t
    BY <1>1, <1>2, <2>1, <2>5
  <2>6. QED
    BY <2>3, <2>4, <2>5
<1>11. QED
  BY <1>6, <1>7, <1>8, <1>9, <1>10 DEF Twins

-----------------------------------------------------------------------------
(* Burning a key records who overlaps. *)
LEMMA BurnKeepsTwins ==
  ASSUME Inv, Twins, Inv', NEW q \in Requests, Burn(q)
  PROVE  Twins'
<1> DEFINE others == {o \in Requests \ {q} : request[o].at \in {"burnt", "found"} /\ Node(o) = Node(q)}
<1>1. /\ request[q].at = "sent" /\ request[q].key \in Keys
      /\ key' = [key EXCEPT ![request[q].key] = "gone"]
      /\ request' = [request EXCEPT ![q].at = "burnt"]
      /\ overlap' = IF others = {} THEN overlap ELSE overlap \cup {request[o].key : o \in others \cup {q}}
      /\ UNCHANGED <<command, row, machine, registered>>
  BY DEF Burn, Inv, Presented
<1>2. ASSUME NEW p \in Requests
      PROVE  /\ request'[p].key = request[p].key /\ request'[p].from = request[p].from
             /\ request'[p].row = request[p].row
             /\ request'[p].at = "found" <=> request[p].at = "found"
             /\ Spends(p)' => Spends(p) \/ p = q
             /\ Node(p)' = Node(p)
  <2>1. request \in [Requests -> Request]
    BY Typed DEF Inv
  <2>2. /\ request'[p].key = request[p].key /\ request'[p].from = request[p].from
        /\ request'[p].row = request[p].row
        /\ p # q => request'[p].at = request[p].at
        /\ request'[q].at = "burnt"
    BY <1>1, <2>1 DEF Request
  <2>3. QED
    BY <1>1, <2>2 DEF Spends, Node
<1>3. overlap \subseteq overlap'
  BY <1>1
<1>4. key' \in [Keys -> {"unissued", "live", "gone"}] /\ \A k \in Keys : key'[k] # "unissued" <=> key[k] # "unissued"
  BY <1>1, Typed DEF Inv, Presented
<1>5. Labelled'
  <2>1. \A k \in overlap' : key'[k] # "unissued"
    <3>1. \A k \in overlap : k \in Keys /\ key[k] # "unissued"
      BY DEF Inv, TypeOK, Twins, Labelled
    <3>2. \A o \in others \cup {q} : request[o].key \in Keys /\ key[request[o].key] # "unissued"
      BY <1>1 DEF Inv, Presented
    <3>3. QED
      BY <1>1, <1>4, <3>1, <3>2
  <2>2. QED
    BY <1>1, <1>2, <1>4, <2>1 DEF Twins, Labelled
<1>6. Recorded'
  <2> SUFFICES ASSUME NEW p \in Requests, NEW o \in Requests, p # o, Spends(p)', Spends(o)', Node(p)' = Node(o)'
               PROVE  request'[p].key \in overlap'
    BY DEF Recorded
  <2>1. Node(p) = Node(o) /\ (Spends(p) \/ p = q) /\ (Spends(o) \/ o = q) /\ request'[p].key = request[p].key
    BY <1>2
  <2>2. CASE p = q
    <3>1. o \in others
      BY <2>1, <2>2 DEF Spends
    <3>2. QED
      BY <1>1, <2>1, <2>2, <3>1
  <2>3. CASE o = q
    <3>1. p \in others
      BY <2>1, <2>3 DEF Spends
    <3>2. QED
      BY <1>1, <2>1, <3>1
  <2>4. CASE p # q /\ o # q
    BY <1>3, <2>1, <2>4 DEF Twins, Recorded
  <2>5. QED
    BY <2>2, <2>3, <2>4
<1>7. Found'
  <2> SUFFICES ASSUME NEW p \in Requests, request'[p].at = "found", request'[p].key \notin overlap',
                      NEW s \in Rows, Live(s)', IsFor(s, p)', s # request'[p].row
               PROVE  request'[p].row # NoRow /\ Explained(request[p].row, s)'
    BY <1>2 DEF Found
  <2>1. Live(s) /\ IsFor(s, p)
    BY <1>1, <1>2 DEF Live, IsFor
  <2>2. request[p].row # NoRow /\ Explained(request[p].row, s)
    BY <1>2, <1>3, <2>1 DEF Twins, Found
  <2>3. QED
    BY <1>1, <1>2, <1>3, <2>2 DEF Explained
<1>8. TwinsComeFromOverlap'
  BY <1>1, <1>3 DEF Twins, TwinsComeFromOverlap
<1>9. Missed'
  <2> SUFFICES ASSUME NEW k \in Keys, NEW r \in Rows, <<k, r>> \in registered, command[k].target # NoRow,
                      command[k].target # r, row[command[k].target].gpu = row[r].gpu
               PROVE  \/ Disturbed(k)'
                      \/ /\ ~ Live(command[k].target)
                         /\ \A p \in Requests : request'[p].at = "found" => request'[p].row # command[k].target
    BY <1>1 DEF Missed, Live
  <2>1. CASE Disturbed(k)
    BY <1>1, <1>3, <2>1 DEF Disturbed
  <2>2. CASE ~ Disturbed(k)
    BY <1>2, <2>2 DEF Twins, Missed
  <2>3. QED
    BY <2>1, <2>2
<1>10. QED
  BY <1>5, <1>6, <1>7, <1>8, <1>9 DEF Twins

(* Finding a row, or none: what it misses has an explanation already. *)
LEMMA FindKeepsTwins ==
  ASSUME Inv, Twins, Inv', NEW q \in Requests, Find(q)
  PROVE  Twins'
<1>1. PICK r \in Rows \cup {NoRow}, w \in Request :
        /\ request' = [request EXCEPT ![q] = w]
        /\ w.at = "found" /\ w.row = r /\ w.key = request[q].key /\ w.from = request[q].from
        /\ r # NoRow => SameNode(r, q)
        /\ r = NoRow => \A s \in Rows : ~ SameNode(s, q)
  BY FindFinds
<1>2. Spends(q) /\ UNCHANGED <<key, command, row, machine, registered, overlap>>
  BY DEF Find, Spends
<1>3. request'[q] = w /\ \A p \in Requests \ {q} : request'[p] = request[p]
  BY <1>1, Typed DEF Inv
<1>4. \A p \in Requests : request'[p].key = request[p].key /\ request'[p].from = request[p].from
  BY <1>1, <1>3
<1>5. \A p \in Requests : Node(p)' = Node(p) /\ (Spends(p)' => Spends(p))
  BY <1>2, <1>3, <1>4 DEF Node, Spends
<1>6. r # NoRow => Live(r) /\ IsFor(r, q)
  BY <1>1 DEF SameNode, Live, IsFor
<1>7. Labelled'
  <2>1. ASSUME NEW p \in Requests, request'[p].at = "found", request'[p].row # NoRow
        PROVE  row[request'[p].row].label = command[request'[p].key].label
    <3>1. CASE p = q
      BY <1>1, <1>3, <1>6, <2>1, <3>1 DEF IsFor
    <3>2. CASE p # q
      BY <1>3, <2>1, <3>2 DEF Twins, Labelled
    <3>3. QED
      BY <3>1, <3>2
  <2>2. QED
    BY <1>2, <2>1 DEF Twins, Labelled
<1>8. Recorded'
  BY <1>2, <1>4, <1>5 DEF Twins, Recorded
<1>9. Found'
  <2> SUFFICES ASSUME NEW p \in Requests, request'[p].at = "found", request'[p].key \notin overlap,
                      NEW s \in Rows, Live(s)', IsFor(s, p)', s # request'[p].row
               PROVE  request'[p].row # NoRow
                      /\ \E k \in overlap : <<k, request'[p].row>> \in registered \/ <<k, s>> \in registered
    BY <1>2 DEF Found, Explained
  <2>1. Live(s) /\ IsFor(s, p)
    BY <1>2, <1>4 DEF Live, IsFor
  <2>2. CASE p = q
    <3>1. SameNode(s, q)
      BY <2>1, <2>2 DEF SameNode, Live, IsFor
    <3>2. r # NoRow /\ request'[p].row = r
      BY <1>1, <1>3, <2>2, <3>1
    <3>3. r \in Rows /\ r # s /\ Live(r) /\ Alike(r, s)
      BY <1>6, <2>1, <2>2, <3>2 DEF IsFor, Alike
    <3>4. QED
      BY <2>1, <3>2, <3>3 DEF Twins, TwinsComeFromOverlap, Live, Alike
  <2>3. CASE p # q
    BY <1>3, <2>1, <2>3 DEF Twins, Found, Explained
  <2>4. QED
    BY <2>2, <2>3
<1>10. TwinsComeFromOverlap'
  BY <1>2 DEF Twins, TwinsComeFromOverlap
<1>11. Missed'
  <2> SUFFICES ASSUME NEW k \in Keys, NEW s \in Rows, <<k, s>> \in registered, command[k].target # NoRow,
                      command[k].target # s, row[command[k].target].gpu = row[s].gpu, ~ Disturbed(k)
               PROVE  /\ ~ Live(command[k].target)
                      /\ \A p \in Requests : request'[p].at = "found" => request'[p].row # command[k].target
    BY <1>2 DEF Missed, Live, Disturbed
  <2>1. /\ ~ Live(command[k].target)
        /\ \A p \in Requests : request[p].at = "found" => request[p].row # command[k].target
    BY DEF Twins, Missed
  <2>2. r # command[k].target
    BY <1>6, <2>1
  <2>3. QED
    BY <1>1, <1>3, <2>1, <2>2
<1>12. QED
  BY <1>7, <1>8, <1>9, <1>10, <1>11 DEF Twins

-----------------------------------------------------------------------------
(* The commit: a row is added, or the one that was found is written.  Any  *)
(* other live row of the node was explained when it was found, or the      *)
(* registration overlapped the one that made it.                           *)
LEMMA CommitKeepsTwins ==
  ASSUME Inv, Twins, Inv', NEW q \in Requests, NEW r \in Rows,
         request[q].at = "found", request' = [request EXCEPT ![q] = Idle],
         registered' = registered \cup {<<request[q].key, r>>},
         UNCHANGED <<key, command, overlap>>,
         \A s \in Rows \ {r} : row'[s] = row[s],
         row[r] \in Row =>
           row'[r].user = row[r].user /\ row'[r].label = row[r].label /\ row'[r].gpu = row[r].gpu,
         row'[r] \in Row, row'[r].user = command[request[q].key].user,
         row'[r].label = command[request[q].key].label, row'[r].gpu = Gpu[request[q].from],
         \/ request[q].row = r
         \/ request[q].row = NoRow /\ row[r] \notin Row
  PROVE  Twins'
<1> DEFINE own == request[q].key
<1>1. own \in Keys /\ key[own] # "unissued" /\ Spends(q)
  BY SpenderIsTyped DEF Spends
<1>2. ASSUME NEW p \in Requests, Spends(p)'
      PROVE  p # q /\ Spends(p) /\ request'[p] = request[p]
  BY <1>2, IdleIsRequest, Typed DEF Inv, Spends
<1>3. ASSUME NEW p \in Requests, request'[p].at = "found"
      PROVE  p # q /\ request[p].at = "found" /\ request'[p] = request[p]
  BY <1>2, <1>3 DEF Spends
<1>4. \A s \in Rows : row[s] \in Row =>
        row'[s] \in Row /\ row'[s].user = row[s].user /\ row'[s].label = row[s].label /\ row'[s].gpu = row[s].gpu
  OBVIOUS
<1>5. registered \subseteq registered' /\ <<own, r>> \in registered'
  OBVIOUS
<1>6. \A k \in Keys, s \in Rows : <<k, s>> \in registered' => <<k, s>> \in registered \/ (k = own /\ s = r)
  OBVIOUS
<1>7. \A k \in Keys, s \in Rows : <<k, s>> \in registered => row[s] \in Row
  BY DEF Inv, Attached
<1>8. \A k \in Keys : key[k] # "unissued" /\ command[k].target # NoRow => command[k].target \in Rows
  BY DEF Inv, TypeOK, Command
<1>9. Labelled'
  <2>1. ASSUME NEW p \in Requests, request'[p].at = "found", request'[p].row # NoRow
        PROVE  row'[request'[p].row].label = command[request'[p].key].label
    BY <1>3, <1>4, <2>1, FoundIsFor DEF IsFor
  <2>2. \A k \in Keys, s \in Rows : <<k, s>> \in registered' => row'[s].label = command[k].label
    BY <1>4, <1>6, <1>7 DEF Twins, Labelled
  <2>3. ASSUME NEW k \in Keys, key[k] # "unissued", command[k].target # NoRow
        PROVE  /\ row'[command[k].target] \in Row
               /\ row'[command[k].target].user = command[k].user
               /\ row'[command[k].target].label = command[k].label
    BY <1>4, <1>8, <2>3 DEF Twins, Labelled
  <2>4. \A k \in overlap : key[k] # "unissued"
    BY DEF Twins, Labelled
  <2>5. QED
    BY <2>1, <2>2, <2>3, <2>4 DEF Labelled
<1>10. ASSUME NEW p \in Requests, Spends(p)' PROVE Node(p)' = Node(p)
  BY <1>2, <1>10 DEF Node
<1>11. Recorded'
  BY <1>2, <1>10 DEF Twins, Recorded
<1>12. ASSUME NEW s \in Rows, s # r, Live(s), IsFor(s, q), own \notin overlap
       PROVE  request[q].row = r /\ Explained(r, s)
  BY <1>12, NoneAssumption DEF Twins, Found
<1>13. Found'
  <2> SUFFICES ASSUME NEW p \in Requests, request'[p].at = "found", request'[p].key \notin overlap,
                      NEW s \in Rows, Live(s)', IsFor(s, p)', s # request'[p].row
               PROVE  request'[p].row # NoRow /\ Explained(request[p].row, s)'
    BY <1>3 DEF Found
  <2>1. p # q /\ request[p].at = "found" /\ request'[p] = request[p] /\ Spends(p)
    BY <1>3 DEF Spends
  <2>2. CASE s = r
    <3>1. Node(p) = Node(q)
      BY <2>1, <2>2 DEF Node, IsFor
    <3>2. QED
      BY <1>1, <2>1, <3>1 DEF Twins, Recorded
  <2>3. CASE s # r
    <3>1. Live(s) /\ IsFor(s, p)
      BY <2>1, <2>3 DEF Live, IsFor
    <3>2. request[p].row # NoRow /\ Explained(request[p].row, s)
      BY <2>1, <3>1 DEF Twins, Found
    <3>3. QED
      BY <1>5, <2>1, <3>2 DEF Explained
  <2>4. QED
    BY <2>2, <2>3
<1>14. ASSUME NEW s \in Rows, s # r, Live(s)', Alike(r, s)'
       PROVE  \E k \in overlap : <<k, r>> \in registered' \/ <<k, s>> \in registered'
  <2>1. Live(s) /\ IsFor(s, q)
    BY <1>14 DEF Live, Alike, IsFor
  <2>2. CASE own \in overlap
    BY <1>5, <2>2
  <2>3. CASE own \notin overlap
    BY <1>5, <1>12, <1>14, <2>1, <2>3 DEF Explained
  <2>4. QED
    BY <2>2, <2>3
<1>15. TwinsComeFromOverlap'
  <2> SUFFICES ASSUME NEW r1 \in Rows, NEW r2 \in Rows, r1 # r2, Live(r1)', Live(r2)', Alike(r1, r2)'
               PROVE  \E k \in overlap : <<k, r1>> \in registered' \/ <<k, r2>> \in registered'
    BY DEF TwinsComeFromOverlap, Live, Alike
  <2>1. CASE r1 = r
    BY <1>14, <2>1
  <2>2. CASE r2 = r
    BY <1>14, <2>2 DEF Alike
  <2>3. CASE r1 # r /\ r2 # r
    <3>1. Live(r1) /\ Live(r2) /\ Alike(r1, r2)
      BY <2>3 DEF Live, Alike
    <3>2. QED
      BY <1>5, <3>1 DEF Twins, TwinsComeFromOverlap, Live, Alike
  <2>4. QED
    BY <2>1, <2>2, <2>3
<1>16. Missed'
  <2> SUFFICES ASSUME NEW k \in Keys, NEW s \in Rows, <<k, s>> \in registered', command[k].target # NoRow,
                      command[k].target # s, row'[command[k].target].gpu = row'[s].gpu, ~ Disturbed(k)
               PROVE  /\ ~ Live(command[k].target)'
                      /\ \A p \in Requests : request'[p].at = "found" => request'[p].row # command[k].target
    BY DEF Missed, Disturbed
  <2> DEFINE t == command[k].target
  <2>1. /\ key[k] # "unissued" /\ t \in Rows /\ row[t] \in Row
        /\ row[t].user = command[k].user /\ row[t].label = command[k].label
    <3>1. key[k] # "unissued"
      BY <1>1, <1>6 DEF Inv, Spent
    <3>2. QED
      BY <1>8, <3>1 DEF Twins, Labelled
  <2>2. CASE <<k, s>> \in registered
    <3>1. row[t].gpu = row[s].gpu
      BY <1>4, <1>7, <2>1, <2>2
    <3>2. ~ Live(t) /\ \A p \in Requests : request[p].at = "found" => request[p].row # t
      BY <2>2, <3>1 DEF Twins, Missed
    <3>3. t # r
      BY <2>1, <3>2
    <3>4. QED
      BY <1>3, <2>1, <3>2, <3>3 DEF Live
  <2>3. CASE k = own /\ s = r
    <3>1. t # r /\ row'[t] = row[t] /\ IsFor(t, q)
      BY <2>1, <2>3 DEF IsFor
    <3>2. own \notin overlap
      BY <2>3 DEF Disturbed
    <3>3. ~ Live(t)
      <4> SUFFICES ASSUME Live(t) PROVE FALSE
        OBVIOUS
      <4>1. request[q].row = r /\ Explained(r, t)
        BY <1>12, <2>1, <3>1, <3>2
      <4>2. PICK o \in overlap : <<o, r>> \in registered \/ <<o, t>> \in registered
        BY <4>1 DEF Explained
      <4>3. o \in Keys
        BY DEF Inv, TypeOK
      <4>4. IsFor(r, q)
        BY <4>1, FoundIsFor, NoneAssumption
      <4>5. \A s1 \in Rows : <<o, s1>> \in registered =>
              row[s1].user = command[o].user /\ row[s1].label = command[o].label
        BY <4>3 DEF Inv, Attached, Twins, Labelled
      <4>6. command[o].user = command[own].user /\ command[o].label = command[own].label
        BY <2>1, <3>1, <4>2, <4>4, <4>5 DEF IsFor
      <4>7. QED
        BY <2>3, <4>6 DEF Disturbed
    <3>4. ASSUME NEW p \in Requests, request'[p].at = "found", request'[p].row = t PROVE FALSE
      <4>1. p # q /\ request[p].at = "found" /\ request[p].row = t /\ Spends(p)
        BY <1>3, <3>4 DEF Spends
      <4>2. Node(p) = Node(q)
        BY <3>1, <4>1, FoundIsFor, OneNode
      <4>3. QED
        BY <1>1, <3>2, <4>1, <4>2 DEF Twins, Recorded
    <3>5. QED
      BY <3>1, <3>3, <3>4 DEF Live
  <2>4. QED
    BY <1>6, <2>2, <2>3
<1>17. QED
  BY <1>9, <1>11, <1>13, <1>15, <1>16 DEF Twins

-----------------------------------------------------------------------------
(* The steps of users and clients. *)
LEMMA IssueKeepsTwins ==
  ASSUME Inv, Twins, Inv', NEW k \in Keys,
         \/ \E u \in Users, l \in Labels : IssueKey(k, u, l, NoRow)
         \/ \E r \in Rows : ResetKey(k, r)
  PROVE  Twins'
<1>1. PICK u \in Users, l \in Labels, t \in Rows \cup {NoRow} :
        /\ IssueKey(k, u, l, t)
        /\ t # NoRow => row[t] \in Row /\ row[t].user = u /\ row[t].label = l
  <2>1. CASE \E v \in Users, l \in Labels : IssueKey(k, v, l, NoRow)
    BY <2>1
  <2>2. CASE \E r \in Rows : ResetKey(k, r)
    <3>1. PICK r \in Rows : row[r].status = "live" /\ IssueKey(k, row[r].user, row[r].label, r)
      BY <2>2 DEF ResetKey
    <3>2. row[r] \in Row /\ row[r].user \in Users /\ row[r].label \in Labels
      BY <3>1, LiveIsRow DEF Inv, Row
    <3>3. QED
      BY <3>1, <3>2
  <2>3. QED
    BY <2>1, <2>2
<1> DEFINE issued == [user |-> u, label |-> l, target |-> t]
<1>2. /\ key[k] = "unissued" /\ key' = [key EXCEPT ![k] = "live"]
      /\ command' = [command EXCEPT ![k] = issued]
      /\ UNCHANGED <<row, machine, request, registered, overlap>>
  BY <1>1 DEF IssueKey
<1>3. issued.user = u /\ issued.label = l /\ issued.target = t
  OBVIOUS
<1> HIDE DEF issued
<1>4. /\ \A j \in Keys \ {k} : key'[j] = key[j] /\ command'[j] = command[j]
      /\ command'[k] = issued
  BY <1>2 DEF Inv, TypeOK, Presented
<1>5. Settled
  BY <1>1, <1>2, <1>3, <1>4 DEF Settled
<1>6. \A p \in Requests : Spends(p)' => Spends(p) /\ request'[p] = request[p]
  BY <1>2 DEF Spends
<1>7. QED
  BY <1>2, <1>5, <1>6, QuietKeepsTwins DEF Live

LEMMA ClientKeepsTwins ==
  ASSUME Inv, Twins, Inv',
         \/ \E k \in Keys : KeyExpires(k)
         \/ \E m \in Machines, k \in Keys : RunCommand(m, k)
         \/ \E m \in Machines : StopContainer(m) \/ UseSavedCredentials(m) \/ GiveUp(m) \/ CredentialsRejected(m)
         \/ UNCHANGED vars
  PROVE  Twins'
<1>1. /\ UNCHANGED <<command, row, request, registered, overlap>>
      /\ \A k \in Keys : key'[k] # "unissued" <=> key[k] # "unissued"
  <2>1. ASSUME NEW k \in Keys, KeyExpires(k)
        PROVE  /\ UNCHANGED <<command, row, request, registered, overlap>>
               /\ \A j \in Keys : key'[j] # "unissued" <=> key[j] # "unissued"
    BY <2>1 DEF Inv, TypeOK, KeyExpires
  <2>2. QED
    BY <2>1 DEF RunCommand, StopContainer, UseSavedCredentials, GiveUp, CredentialsRejected, vars
<1>2. Settled
  BY <1>1 DEF Settled
<1>3. QED
  BY <1>1, <1>2, QuietKeepsTwins DEF Live, Spends

LEMMA SendKeepsTwins ==
  ASSUME Inv, Twins, Inv', NEW m \in Machines, NEW q \in Requests, SendRequest(m, q)
  PROVE  Twins'
<1>1. /\ UNCHANGED <<key, command, row, registered, overlap>>
      /\ request'[q].at = "sent"
      /\ \A p \in Requests \ {q} : request'[p] = request[p]
  BY Typed DEF Inv, SendRequest
<1>2. Settled
  BY <1>1 DEF Settled
<1>3. \A p \in Requests : Spends(p)' => Spends(p) /\ request'[p] = request[p]
  BY <1>1 DEF Spends
<1>4. QED
  BY <1>1, <1>2, <1>3, QuietKeepsTwins DEF Live

LEMMA RemoveKeepsTwins ==
  ASSUME Inv, Twins, Inv', NEW r \in Rows, Remove(r)
  PROVE  Twins'
<1> DEFINE w == [row[r] EXCEPT !.status = "removed"]
<1>1. row[r] \in Row
  BY LiveIsRow DEF Inv, Remove
<1>2. w \in Row /\ w.status = "removed" /\ w.user = row[r].user /\ w.label = row[r].label /\ w.gpu = row[r].gpu
  BY <1>1 DEF Row
<1>3. row' = [row EXCEPT ![r] = w] /\ UNCHANGED <<key, command, machine, request, registered, overlap>>
  BY DEF Remove
<1> HIDE DEF w
<1>4. row'[r] = w /\ \A s \in Rows \ {r} : row'[s] = row[s]
  BY <1>3, Typed DEF Inv
<1>5. Settled
  BY <1>2, <1>3, <1>4 DEF Settled
<1>6. \A s \in Rows : Live(s)' => Live(s)
  BY <1>2, <1>4 DEF Live
<1>7. QED
  BY <1>3, <1>5, <1>6, QuietKeepsTwins DEF Spends

(* The steps of a registration that register nothing, and those that do.   *)
LEMMA FailureKeepsTwins ==
  ASSUME Inv, Twins, Inv', NEW q \in Requests, Reject(q) \/ BackendFails(q)
  PROVE  Twins'
<1>1. /\ UNCHANGED <<key, command, row, registered, overlap>>
      /\ request' = [request EXCEPT ![q] = Idle]
  BY DEF Reject, BackendFails
<1>2. request'[q].at = "none" /\ \A p \in Requests \ {q} : request'[p] = request[p]
  BY <1>1, IdleIsRequest, Typed DEF Inv
<1>3. Settled
  BY <1>1 DEF Settled
<1>4. \A p \in Requests : Spends(p)' => Spends(p) /\ request'[p] = request[p]
  BY <1>2 DEF Spends
<1>5. QED
  BY <1>1, <1>3, <1>4, QuietKeepsTwins DEF Live

LEMMA RegisteringKeepsTwins ==
  ASSUME Inv, Twins, Inv', NEW q \in Requests, Reattach(q) \/ \E r \in Rows : AddNode(q, r)
  PROVE  Twins'
<1>1. CASE Reattach(q)
  <2> DEFINE r == request[q].row
             w == [row[r] EXCEPT !.status = "live"]
  <2>1. /\ request[q].at = "found" /\ r # NoRow
        /\ row' = row \/ row' = [row EXCEPT ![r] = w]
        /\ request' = [request EXCEPT ![q] = Idle]
        /\ registered' = registered \cup {<<request[q].key, r>>}
        /\ UNCHANGED <<key, command, overlap>>
    BY <1>1 DEF Reattach
  <2>2. r \in Rows /\ row[r] \in Row /\ IsFor(r, q)
    BY <2>1, FoundIsFor
  <2>3. w \in Row /\ w.user = row[r].user /\ w.label = row[r].label /\ w.gpu = row[r].gpu
    BY <2>2 DEF Row
  <2> HIDE DEF w
  <2>4. (row'[r] = row[r] \/ row'[r] = w) /\ \A s \in Rows \ {r} : row'[s] = row[s]
    BY <2>1, <2>2, Typed DEF Inv
  <2>5. /\ row'[r] \in Row
        /\ row'[r].user = row[r].user /\ row'[r].label = row[r].label /\ row'[r].gpu = row[r].gpu
    BY <2>2, <2>3, <2>4
  <2> HIDE DEF r
  <2>6. request[q].row = r
    BY DEF r
  <2>7. QED
    BY <2>1, <2>2, <2>4, <2>5, <2>6, CommitKeepsTwins DEF IsFor
<1>2. ASSUME NEW r \in Rows, AddNode(q, r)
      PROVE  Twins'
  <2> DEFINE w == [user |-> command[request[q].key].user, label |-> command[request[q].key].label,
                   gpu |-> Gpu[request[q].from], status |-> "live"]
  <2>1. /\ request[q].at = "found" /\ request[q].row = NoRow /\ row[r] = NoNode
        /\ row' = [row EXCEPT ![r] = w]
        /\ request' = [request EXCEPT ![q] = Idle]
        /\ registered' = registered \cup {<<request[q].key, r>>}
        /\ UNCHANGED <<key, command, overlap>>
    BY <1>2 DEF AddNode
  <2>2. command[request[q].key] \in Command /\ request[q].from \in Machines
    BY <2>1, SpenderIsTyped DEF Inv, TypeOK, Spends
  <2>3. /\ w \in Row /\ w.user = command[request[q].key].user
        /\ w.label = command[request[q].key].label /\ w.gpu = Gpu[request[q].from]
    BY <2>2 DEF Row, Command
  <2> HIDE DEF w
  <2>4. row'[r] = w /\ \A s \in Rows \ {r} : row'[s] = row[s]
    BY <2>1, Typed DEF Inv
  <2>5. row[r] \notin Row
    <3>1. \A x \in Row : x.status # "none"
      BY DEF Row
    <3>2. QED
      BY <2>1, <3>1 DEF NoNode
  <2>6. QED
    BY <2>1, <2>3, <2>4, <2>5, CommitKeepsTwins
<1>3. QED
  BY <1>1, <1>2

LEMMA TwinsStep == Inv /\ Twins /\ [Next]_vars => Twins'
<1> SUFFICES ASSUME Inv, Twins, [Next]_vars PROVE Twins'
  OBVIOUS
<1> Inv'
  BY InvStep
<1>1. CASE UserStep
  BY <1>1, IssueKeepsTwins, ClientKeepsTwins, RemoveKeepsTwins DEF UserStep
<1>2. ASSUME NEW m \in Machines, ClientStep(m) PROVE Twins'
  BY <1>2, ClientKeepsTwins, SendKeepsTwins DEF ClientStep
<1>3. ASSUME NEW q \in Requests, BackendStep(q) PROVE Twins'
  BY <1>3, BurnKeepsTwins, FindKeepsTwins, FailureKeepsTwins, RegisteringKeepsTwins DEF BackendStep
<1>4. CASE UNCHANGED vars
  BY <1>4, ClientKeepsTwins
<1>5. QED
  BY <1>1, <1>2, <1>3, <1>4 DEF Next

LEMMA TwinsMakeNodesHold == Inv /\ Twins => NodesHold
<1> SUFFICES ASSUME Inv, Twins PROVE NodesHold
  OBVIOUS
<1>1. ResetReattaches
  <2> SUFFICES ASSUME NEW k \in Keys, NEW r \in Rows, <<k, r>> \in registered, command[k].target # NoRow,
                      Live(command[k].target), row[command[k].target].gpu = row[r].gpu,
                      r # command[k].target
               PROVE  Disturbed(k)
    BY DEF ResetReattaches, Live, Disturbed
  <2>1. QED
    BY DEF Twins, Missed
<1>2. QED
  BY <1>1, InvMakesCredentialsFit DEF Twins, NodesHold

(* However registrations, restarts, late answers, resets and removals are  *)
(* mixed: the credentials on a machine fit it, a reset key finds its row,  *)
(* and only registrations that overlapped made two rows of one node.       *)
THEOREM NodesAlwaysHold == Spec => []NodesHold
<1>1. Init => Inv /\ Twins
  BY InvInit, TwinsInit
<1>2. Inv /\ Twins /\ [Next]_vars => (Inv /\ Twins)'
  BY InvStep, TwinsStep
<1>3. Spec => [](Inv /\ Twins)
  BY <1>1, <1>2, PTL DEF Spec
<1>4. QED
  BY <1>3, TwinsMakeNodesHold, PTL
=============================================================================
