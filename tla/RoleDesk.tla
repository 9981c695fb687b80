------------------------------ MODULE RoleDesk ------------------------------
(***************************************************************************)
(* Role requests: users ask for a role on their profile page               *)
(* (app/frontend/src/components/profile/RoleRequests.tsx, RoleActions.tsx, *)
(* hooks/useMyRoleRequests.ts), administrators decide at their desks       *)
(* (pages/admin/approvals.tsx, hooks/useRoleRequests.ts), and the server   *)
(* keeps the requests (app/backend/src/services/users/role_request.py,     *)
(* services/admin/role_request.py).                                        *)
(*                                                                         *)
(* Every request of a browser is read and written in two steps, and both   *)
(* sides look at lists that were true when they were fetched.              *)
(***************************************************************************)
EXTENDS Integers, Sequences

CONSTANTS
  Applicants,     \* the users, each with one profile page for each of ...
  Pages,          \* ... these tabs
  Desks,          \* the administrators' approval pages
  MaxRequests,    \* bound: requests made
  MaxRuns,        \* bound: buttons of the profile pages pressed
  MaxDecisions    \* bound: decisions sent

ASSUME RoleAssumption == MaxRequests \in Nat /\ MaxRuns \in Nat /\ MaxDecisions \in Nat

Ids == 1..MaxRequests
Wants == {"firefighter", "admin"}
Roles == {"user"} \cup Wants
Statuses == {"none", "pending", "approved", "rejected", "revoked"}

VARIABLES
  role,        \* the users' roles
  request,     \* the rows, by number; "none": not there
  page,        \* a profile page: what it knows to wait, the role it knows, its request
  desk,        \* a desk: its list, the request that is open
  decision,    \* the decisions sent, by number
  runs,
  twice,       \* (history) users with two submissions at once
  tangled      \* (history) users whose grants were read at once, or undone out of their order

roleVars == <<role, request, page, desk, decision, runs, twice, tangled>>
Unheard == [n \in Ids |-> "none"]
Row(u) == {n \in DOMAIN request : request[n].user = u /\ request[n].status # "none"}

RoleInit ==
  /\ role = [u \in Applicants |-> "user"]
  /\ request = <<>>
  /\ page = [k \in Applicants \X Pages |->
               [waits |-> "none", loading |-> TRUE, knows |-> "user", does |-> "nothing", step |-> "idle",
                wants |-> "admin", from |-> "user", id |-> 0]]
  /\ desk = [d \in Desks |-> [list |-> Unheard, loading |-> TRUE, open |-> 0]]
  /\ decision = <<>>
  /\ runs = 0
  /\ twice = {} /\ tangled = {}

-----------------------------------------------------------------------------
(* The profile page.  A role offers its button when no request waits, or   *)
(* when the one that waits is for it.                                      *)
PendingIn(u) == {n \in Row(u) : request[n].status = "pending"}
WaitingFor(u) ==
  IF PendingIn(u) = {} THEN "none" ELSE request[CHOOSE n \in PendingIn(u) : \A k \in PendingIn(u) : n <= k].wants
RoleActions(u, p, r) ==
  LET mine == page[<<u, p>>] IN
  IF mine.knows = r THEN "current"
  ELSE IF mine.loading \/ mine.step # "idle" \/ mine.waits \notin {"none", r} THEN "disabled"
  ELSE IF mine.waits = r THEN "cancel" ELSE "request"
Rows(u, p) == {r \in Wants : r = "firefighter" => page[<<u, p>>].knows # "admin"}

(* The list arrives, or does not: then none is shown. *)
MyListArrives(u, p) ==
  /\ page[<<u, p>>].loading
  /\ \E heard \in BOOLEAN :
       page' = [page EXCEPT ![<<u, p>>].loading = FALSE,
                  ![<<u, p>>].waits = IF heard THEN WaitingFor(u) ELSE "none"]
  /\ UNCHANGED <<role, request, desk, decision, runs, twice, tangled>>

run(u, p) ==
  /\ runs < MaxRuns /\ runs' = runs + 1
  /\ \E r \in Rows(u, p) :
       /\ RoleActions(u, p, r) \in {"request", "cancel"}
       /\ page' = [page EXCEPT ![<<u, p>>].does = RoleActions(u, p, r), ![<<u, p>>].wants = r, ![<<u, p>>].step = "sent"]
  /\ UNCHANGED <<role, request, desk, decision, twice, tangled>>

(* create_role_request looks for a pending one, and notes the role of now  *)
(* ...                                                                     *)
create_role_request(u, p) ==
  /\ page[<<u, p>>].does = "request" /\ page[<<u, p>>].step = "sent" /\ Len(request) < MaxRequests
  /\ IF PendingIn(u) # {} THEN page' = [page EXCEPT ![<<u, p>>].step = "refused"] /\ UNCHANGED twice
     ELSE /\ page' = [page EXCEPT ![<<u, p>>].step = "read", ![<<u, p>>].from = role[u]]
          /\ twice' = IF \E q \in Pages : page[<<u, q>>].does = "request" /\ page[<<u, q>>].step = "read"
                      THEN twice \cup {u} ELSE twice
  /\ UNCHANGED <<role, request, desk, decision, runs, tangled>>

(* ... and writes it. *)
InsertRequest(u, p) ==
  /\ page[<<u, p>>].does = "request" /\ page[<<u, p>>].step = "read" /\ Len(request) < MaxRequests
  /\ request' = Append(request, [user |-> u, wants |-> page[<<u, p>>].wants, from |-> page[<<u, p>>].from, status |-> "pending"])
  /\ page' = [page EXCEPT ![<<u, p>>].step = "done"]
  /\ UNCHANGED <<role, desk, decision, runs, twice, tangled>>

(* Two that hold one row have read it before either has written. *)
Held(n) == (\E k \in DOMAIN decision : decision[k].id = n /\ decision[k].step = "read")
           \/ (\E u \in Applicants, p \in Pages : page[<<u, p>>].does = "cancel" /\ page[<<u, p>>].step = "read" /\ page[<<u, p>>].id = n)
Tangles(n) == IF Held(n) THEN tangled \cup {request[n].user} ELSE tangled

(* cancel_role_request finds the pending one ... *)
cancel_role_request(u, p) ==
  /\ page[<<u, p>>].does = "cancel" /\ page[<<u, p>>].step = "sent"
  /\ IF PendingIn(u) = {} THEN page' = [page EXCEPT ![<<u, p>>].step = "refused"] /\ UNCHANGED tangled
     ELSE \E n \in PendingIn(u) :
            /\ page' = [page EXCEPT ![<<u, p>>].step = "read", ![<<u, p>>].id = n]
            /\ tangled' = Tangles(n)
  /\ UNCHANGED <<role, request, desk, decision, runs, twice>>

(* ... and deletes the row, whatever it has become. *)
DeleteRequest(u, p) ==
  /\ page[<<u, p>>].does = "cancel" /\ page[<<u, p>>].step = "read"
  /\ request' = [request EXCEPT ![page[<<u, p>>].id].status = "none"]
  /\ page' = [page EXCEPT ![<<u, p>>].step = "done"]
  /\ UNCHANGED <<role, desk, decision, runs, twice, tangled>>

(* The answer: the list is fetched again after a success only. *)
RunEnds(u, p) ==
  /\ page[<<u, p>>].step \in {"sent", "done", "refused"}
  /\ \E ok \in BOOLEAN :
       /\ ok => page[<<u, p>>].step = "done"
       /\ page' = [page EXCEPT ![<<u, p>>].step = "idle", ![<<u, p>>].does = "nothing", ![<<u, p>>].id = 0,
                     ![<<u, p>>].wants = "admin", ![<<u, p>>].from = "user", ![<<u, p>>].loading = @ \/ ok]
  /\ UNCHANGED <<role, request, desk, decision, runs, twice, tangled>>

(* The page is loaded again and learns the user's role. *)
ReloadProfile(u, p) ==
  /\ page[<<u, p>>].step = "idle" /\ page[<<u, p>>].knows # role[u]
  /\ page' = [page EXCEPT ![<<u, p>>].knows = role[u], ![<<u, p>>].loading = TRUE, ![<<u, p>>].waits = "none"]
  /\ UNCHANGED <<role, request, desk, decision, runs, twice, tangled>>

-----------------------------------------------------------------------------
(* The desk: its table, and the request that is open over it. *)
RoleRequestsTable(d) == IF desk[d].loading THEN {} ELSE {n \in Ids : desk[d].list[n] # "none"}
ModalButtons(d) ==
  IF desk[d].open = 0 THEN {} ELSE
  CASE desk[d].list[desk[d].open] = "pending" -> {"approve", "reject"}
    [] desk[d].list[desk[d].open] = "approved" -> {"revoke"}
    [] OTHER -> {}

DeskListArrives(d) ==
  /\ desk[d].loading
  /\ \E heard \in BOOLEAN :
       desk' = [desk EXCEPT ![d].loading = FALSE,
                  ![d].list = [n \in Ids |-> IF heard /\ n \in DOMAIN request THEN request[n].status ELSE "none"]]
  /\ UNCHANGED <<role, request, page, decision, runs, twice, tangled>>

OpenRequest(d) ==
  /\ desk[d].open = 0
  /\ \E n \in RoleRequestsTable(d) : desk' = [desk EXCEPT ![d].open = n]
  /\ UNCHANGED <<role, request, page, decision, runs, twice, tangled>>

CloseRequest(d) ==
  /\ desk[d].open # 0
  /\ desk' = [desk EXCEPT ![d].open = 0]
  /\ UNCHANGED <<role, request, page, decision, runs, twice, tangled>>

(* The buttons stay usable while a decision is on its way. *)
Decide(d) ==
  /\ Len(decision) < MaxDecisions
  /\ \E b \in ModalButtons(d) :
       decision' = Append(decision, [by |-> d, does |-> b, id |-> desk[d].open, step |-> "sent"])
  /\ UNCHANGED <<role, request, page, desk, runs, twice, tangled>>

(* The server reads the row: a pending one may be decided, an approved one *)
(* revoked ...                                                             *)
Needs == [approve |-> "pending", reject |-> "pending", revoke |-> "approved"]
ReadForDecision(k) ==
  /\ decision[k].step = "sent"
  /\ LET n == decision[k].id IN
     IF request[n].status = Needs[decision[k].does]
     THEN decision' = [decision EXCEPT ![k].step = "read"] /\ tangled' = Tangles(n)
     ELSE decision' = [decision EXCEPT ![k].step = "refused"] /\ UNCHANGED tangled
  /\ UNCHANGED <<role, request, page, desk, runs, twice>>

(* ... and writes the row and the role together; if the row is not there   *)
(* any more, neither.                                                      *)
Grants(k) == [approve |-> request[decision[k].id].wants, revoke |-> request[decision[k].id].from]
Becomes == [approve |-> "approved", reject |-> "rejected", revoke |-> "revoked"]
OutOfOrder(k) ==
  LET r == request[decision[k].id] IN
  role[r.user] # (CASE decision[k].does = "approve" -> r.from [] decision[k].does = "revoke" -> r.wants
                    [] OTHER -> role[r.user])
WriteDecision(k) ==
  /\ decision[k].step = "read"
  /\ LET n == decision[k].id  u == request[n].user IN
     IF request[n].status = "none"
     THEN decision' = [decision EXCEPT ![k].step = "refused"] /\ UNCHANGED <<role, request, tangled>>
     ELSE /\ request' = [request EXCEPT ![n].status = Becomes[decision[k].does]]
          /\ role' = IF decision[k].does = "reject" THEN role ELSE [role EXCEPT ![u] = Grants(k)[decision[k].does]]
          /\ tangled' = IF OutOfOrder(k) THEN tangled \cup {u} ELSE tangled
          /\ decision' = [decision EXCEPT ![k].step = "done"]
  /\ UNCHANGED <<page, desk, runs, twice>>

(* updateStatus: a success fetches the list again, a failure is only       *)
(* logged; either way the request that is open by now is closed.           *)
DecisionEnds(k) ==
  /\ decision[k].step \in {"sent", "done", "refused"}
  /\ \E ok \in BOOLEAN :
       /\ ok => decision[k].step = "done"
       /\ decision' = [decision EXCEPT ![k].step = IF ok THEN "heard" ELSE "lost"]
       /\ desk' = [desk EXCEPT ![decision[k].by].open = 0,
                     ![decision[k].by].loading = @ \/ ok]
  /\ UNCHANGED <<role, request, page, runs, twice, tangled>>

ApplicantStep(u, p) ==
  \/ MyListArrives(u, p) \/ run(u, p) \/ create_role_request(u, p) \/ InsertRequest(u, p)
  \/ cancel_role_request(u, p) \/ DeleteRequest(u, p) \/ RunEnds(u, p) \/ ReloadProfile(u, p)
DeskStep(d) == DeskListArrives(d) \/ OpenRequest(d) \/ CloseRequest(d) \/ Decide(d)
DecisionStep(k) == ReadForDecision(k) \/ WriteDecision(k) \/ DecisionEnds(k)
RoleNext ==
  \/ \E u \in Applicants, p \in Pages : ApplicantStep(u, p)
  \/ \E d \in Desks : DeskStep(d)
  \/ \E k \in DOMAIN decision : DecisionStep(k)
RoleSpec == RoleInit /\ [][RoleNext]_roleVars

-----------------------------------------------------------------------------
RoleTypeOK ==
  /\ role \in [Applicants -> Roles]
  /\ request \in Seq([user : Applicants, wants : Wants, from : Roles, status : Statuses])
  /\ page \in [Applicants \X Pages ->
       [waits : Wants \cup {"none"}, loading : BOOLEAN, knows : Roles, does : {"nothing", "request", "cancel"},
        step : {"idle", "sent", "read", "done", "refused"}, wants : Wants, from : Roles,
        id : 0..MaxRequests]]
  /\ desk \in [Desks -> [list : [Ids -> Statuses], loading : BOOLEAN, open : 0..MaxRequests]]
  /\ decision \in Seq(
       [by : Desks, does : {"approve", "reject", "revoke"}, id : 0..MaxRequests,
        step : {"sent", "read", "done", "refused", "heard", "lost"}])
  /\ runs \in 0..MaxRuns
  /\ twice \subseteq Applicants /\ tangled \subseteq Applicants

(* A user has one request that waits, and two only when two were submitted *)
(* at once.                                                                *)
OnePendingEach == \A u \in Applicants : PendingIn(u) = {} \/ u \in twice \/ \E n \in Row(u) : PendingIn(u) = {n}

(* A role that is more than a user's stands on record, approved, and can   *)
(* be revoked: unless the grants of that user were tangled, by two who     *)
(* read one request at once or by a decision taken out of the order in     *)
(* which the requests noted the role to go back to.                        *)
GrantsAreOnRecord ==
  \A u \in Applicants \ tangled :
    role[u] # "user" => \E n \in Row(u) : request[n].status = "approved" /\ request[n].wants = role[u]

(* A desk that has heard that its decision was taken, and has its list     *)
(* again, does not offer the request for decision a second time.           *)
DeskLearns ==
  \A k \in DOMAIN decision :
    decision[k].step = "heard" /\ ~desk[decision[k].by].loading
      => desk[decision[k].by].list[decision[k].id] # "pending"
=============================================================================
