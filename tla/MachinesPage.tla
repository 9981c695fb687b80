---------------------------- MODULE MachinesPage ----------------------------
(***************************************************************************)
(* The machines of a volunteer and of the administrator                    *)
(* (app/frontend/src/components/gpu_worker and hooks/useGPUWorkers.ts,     *)
(* with the REST operations of app/backend/src/services/workers.py).       *)
(*                                                                         *)
(* A page lists machines from a fetch and from the answers to what was     *)
(* done to them; meanwhile the event loop and the other page change their  *)
(* status.  Nothing is disabled while a request is on its way, and the     *)
(* requests of a page overtake one another.  Of the event loop only that   *)
(* it changes a status is kept; what it may write is in WorkerDispatch.    *)
(***************************************************************************)
EXTENDS Integers, FiniteSets, TLC

CONSTANTS
  Machines,
  Volunteer, Desk,   \* the pages: of the owner, and of an administrator
  NoMachine,
  LoopStatus,        \* bound: the statuses the event loop is seen to write
  MaxVersions,       \* bound: changes of a machine's status
  MaxPresses,        \* bound: requests of the pages
  MaxNewKeys          \* bound: keys issued by a reset

ASSUME MachinesAssumption ==
  /\ LoopStatus \subseteq {"active", "busy", "offline", "quarantined", "rejected"}
  /\ Volunteer # Desk /\ NoMachine \notin Machines
  /\ {MaxVersions, MaxPresses, MaxNewKeys} \subseteq Nat

VARIABLES
  nodes,         \* worker_nodes: [status, version] of each machine; version counts its changes
  workers,     \* of each page: [status, version] of the machines it lists
  reading,     \* of each page: "loading", "read" or "failed"
  actionError, \* of each page
  pendingRemoval,   \* of each page: the machine of RemoveModal
  command,     \* the machine of WorkerCommandModal, which volunteers have, ...
  runCommand, resetCommand, resetting,   \* ... and what it shows
  modal,      \* counts the modals opened
  join,        \* JoinComputeGridPopUp of the volunteer's page
  calls,       \* requests on their way
  presses,     \* requests so far
  newKeys       \* keys issued by newKeys: [machine, modal]

pageStateVars == <<workers, reading, actionError, pendingRemoval>>
commandVars == <<command, runCommand, resetCommand, resetting, modal>>
dialogVars == <<commandVars, join>>
machineVars == <<nodes, pageStateVars, dialogVars, calls, presses, newKeys>>

MachinePages == {Volunteer, Desk}
Status == LoopStatus \cup {"active", "deactivated", "removed"}
Entries == [status : Status, version : 0..MaxVersions]
Table(p) == DOMAIN workers[p]
At(p, m) == IF m \in Table(p) THEN workers[p][m].version ELSE -1

MachinesTypeOK ==
  /\ DOMAIN nodes \subseteq Machines /\ \A m \in DOMAIN nodes : nodes[m] \in Entries
  /\ \A p \in MachinePages : Table(p) \subseteq Machines /\ \A m \in Table(p) : workers[p][m] \in Entries
  /\ reading \in [MachinePages -> {"loading", "read", "failed"}]
  /\ actionError \in [MachinePages -> BOOLEAN]
  /\ pendingRemoval \in [MachinePages -> Machines \cup {NoMachine}]
  /\ command \in Machines \cup {NoMachine}
  /\ {runCommand, resetCommand, resetting} \subseteq BOOLEAN
  /\ join \in [open : BOOLEAN, step : {"form", "instructions"}, loading : BOOLEAN, key : 0..MaxPresses,
               mount : Nat]
  /\ \A c \in calls : c.page \in MachinePages /\ c.n \in 1..presses

(* A dialog that adds a machine, as it is mounted with the page; key is   *)
(* the number of the request that brought the command it shows.            *)
NewJoin(mount) == [open |-> FALSE, step |-> "form", loading |-> FALSE, key |-> 0, mount |-> mount]

(* The administrator's page may be closed all the while. *)
MachinesInit ==
  /\ \E known \in {{}, Machines} : \E s \in {"active", "deactivated"} :
       nodes = [m \in known |-> [status |-> s, version |-> 0]]
  /\ workers = [p \in MachinePages |-> <<>>]
  /\ reading = [p \in MachinePages |-> "loading"]
  /\ actionError = [p \in MachinePages |-> FALSE]
  /\ pendingRemoval = [p \in MachinePages |-> NoMachine]
  /\ command = NoMachine /\ runCommand = FALSE /\ resetCommand = FALSE /\ resetting = FALSE /\ modal = 0
  /\ join = NewJoin(0)
  /\ \E opened \in {{Volunteer}, MachinePages} :
       /\ calls = {[page |-> p, n |-> IF p = Volunteer THEN 1 ELSE 2, do |-> "list", machine |-> NoMachine,
                    modal |-> 0, known |-> [m \in Machines |-> -1], at |-> "sent", answer |-> <<>>] : p \in opened}
       /\ presses = Cardinality(opened)
  /\ newKeys = {}

-----------------------------------------------------------------------------
(* What the pages show and offer. *)

(* The owner's page stays while its list is fetched again; the other does  *)
(* not.                                                                    *)
VolunteerPage == reading[Volunteer] # "failed" /\ (reading[Volunteer] = "loading" => Table(Volunteer) # {})
GpuWorkersPage == reading[Desk] = "read"
Shown(p) == IF p = Volunteer THEN VolunteerPage ELSE GpuWorkersPage

(* The buttons of a row, by the status on display. *)
Offers(p, status) ==
  IF status = "removed" THEN {}
  ELSE {"remove"} \cup (IF p = Volunteer THEN {"command"} ELSE {})
       \cup (CASE status = "deactivated" -> {"activate"}
               [] status \in {"quarantined", "offline", "rejected"} -> {}
               [] OTHER -> {"deactivate"})
(* The buttons of the two dialogs. *)
JoinView ==
  CASE join.step = "form" -> {"close"} \cup (IF join.loading THEN {} ELSE {"key"})
    [] join.step = "instructions" -> {"close"}
CommandView == {"close"} \cup (IF resetCommand \/ resetting THEN {} ELSE {"reset"})
(* The badge's words. *)
getStatusMessage(status) ==
  CASE status = "active" -> "ready" [] status = "busy" -> "running" [] status = "offline" -> "silent"
    [] status = "quarantined" -> "flagged" [] status = "deactivated" -> "paused"
    [] status = "rejected" -> "unverified" [] OTHER -> "gone"

Modal(p) == pendingRemoval[p] # NoMachine \/ (p = Volunteer /\ (command # NoMachine \/ join.open))

-----------------------------------------------------------------------------
(* What the pages ask. *)

Send(p, do, m, d) ==
  /\ presses < MaxPresses
  /\ presses' = presses + 1
  /\ calls' = calls \cup {[page |-> p, n |-> presses + 1, do |-> do, machine |-> m, modal |-> d,
                           known |-> [k \in Machines |-> At(p, k)], at |-> "sent", answer |-> <<>>]}

(* JoinComputeGridPopUp: closed or not, it stays mounted with the page. *)
OpenJoin ==
  /\ Shown(Volunteer) /\ ~Modal(Volunteer)
  /\ join' = [join EXCEPT !.open = TRUE]
  /\ UNCHANGED <<nodes, pageStateVars, commandVars, calls, presses, newKeys>>
handleGetSetupKey ==
  /\ Shown(Volunteer) /\ join.open /\ "key" \in JoinView
  /\ Send(Volunteer, "key", NoMachine, join.mount)
  /\ join' = [join EXCEPT !.loading = TRUE]
  /\ UNCHANGED <<nodes, pageStateVars, commandVars, newKeys>>
(* Closed, it asks for the list again; with no machines on it the page     *)
(* shows its skeleton meanwhile, and what comes back is a new dialog.     *)
ClosedJoin(j) == [j EXCEPT !.open = FALSE, !.step = "form"]
handlCloseModal ==
  /\ Shown(Volunteer) /\ join.open
  /\ Send(Volunteer, "list", NoMachine, 0)
  /\ reading' = [reading EXCEPT ![Volunteer] = "loading"]
  /\ join' = IF Table(Volunteer) = {} THEN NewJoin(join.mount + 1) ELSE ClosedJoin(join)
  /\ UNCHANGED <<nodes, workers, actionError, pendingRemoval, commandVars, newKeys>>
runAction(p, m, do) ==
  /\ Send(p, do, m, 0)
  /\ actionError' = [actionError EXCEPT ![p] = FALSE]
WorkerActions(p, m, do) ==
  /\ Shown(p) /\ ~Modal(p) /\ m \in Table(p)
  /\ do \in Offers(p, workers[p][m].status) \cap {"activate", "deactivate"}
  /\ runAction(p, m, do)
  /\ UNCHANGED <<nodes, workers, reading, pendingRemoval, dialogVars, newKeys>>

(* RemoveModal; that an administrator must give a reason is left out. *)
OpenRemoval(p, m) ==
  /\ Shown(p) /\ ~Modal(p) /\ m \in Table(p)
  /\ "remove" \in Offers(p, workers[p][m].status)
  /\ pendingRemoval' = [pendingRemoval EXCEPT ![p] = m]
  /\ UNCHANGED <<nodes, workers, reading, actionError, dialogVars, calls, presses, newKeys>>
CloseRemoval(p) ==
  /\ Shown(p) /\ pendingRemoval[p] # NoMachine
  /\ pendingRemoval' = [pendingRemoval EXCEPT ![p] = NoMachine]
  /\ UNCHANGED <<nodes, workers, reading, actionError, dialogVars, calls, presses, newKeys>>
SubmitRemoval(p) ==
  /\ Shown(p) /\ pendingRemoval[p] # NoMachine
  /\ runAction(p, pendingRemoval[p], "remove")
  /\ pendingRemoval' = [pendingRemoval EXCEPT ![p] = NoMachine]
  /\ UNCHANGED <<nodes, workers, reading, dialogVars, newKeys>>

(* WorkerCommandModal: it asks for the command at once. *)
ShowCommand(m) ==
  /\ Shown(Volunteer) /\ ~Modal(Volunteer) /\ m \in Table(Volunteer)
  /\ "command" \in Offers(Volunteer, workers[Volunteer][m].status)
  /\ command' = m
  /\ modal' = modal + 1
  /\ runCommand' = FALSE /\ resetCommand' = FALSE /\ resetting' = FALSE
  /\ Send(Volunteer, "command", m, modal + 1)
  /\ UNCHANGED <<nodes, pageStateVars, join, newKeys>>
handleReset ==
  /\ Shown(Volunteer) /\ command # NoMachine /\ "reset" \in CommandView
  /\ resetting' = TRUE
  /\ Send(Volunteer, "reset", command, modal)
  /\ UNCHANGED <<nodes, pageStateVars, command, runCommand, resetCommand, modal, join, newKeys>>
CloseCommand ==
  /\ Shown(Volunteer) /\ command # NoMachine
  /\ command' = NoMachine
  /\ runCommand' = FALSE /\ resetCommand' = FALSE /\ resetting' = FALSE
  /\ UNCHANGED <<nodes, pageStateVars, modal, join, calls, presses, newKeys>>

-----------------------------------------------------------------------------
(* The server. *)

Write(m, s) ==
  /\ nodes[m].version < MaxVersions
  /\ nodes' = [nodes EXCEPT ![m] = [status |-> s, version |-> @.version + 1]]
(* A machine with a new key registers (WorkerRegistration). *)
Registers(m) ==
  /\ m \notin DOMAIN nodes
  /\ nodes' = [k \in DOMAIN nodes \cup {m} |-> IF k = m THEN [status |-> "active", version |-> 0] ELSE nodes[k]]
  /\ UNCHANGED <<pageStateVars, dialogVars, calls, presses, newKeys>>
(* The event loop, whatever it has to say of a machine at work. *)
LoopWrites(m) ==
  /\ m \in DOMAIN nodes /\ nodes[m].status \in LoopStatus
  /\ \E s \in LoopStatus \ {nodes[m].status} : Write(m, s)
  /\ UNCHANGED <<pageStateVars, dialogVars, calls, presses, newKeys>>

Answer(c, at, answer) == calls' = (calls \ {c}) \cup {[c EXCEPT !.at = at, !.answer = answer]}
TurnDown(c) == Answer(c, "refused", <<>>) /\ UNCHANGED <<nodes, newKeys>>

list_workers(c) ==
  /\ c.do = "list"
  /\ Answer(c, "answered", nodes)
  /\ UNCHANGED <<nodes, newKeys>>
(* Only a paused machine is activated; any other is returned as it is. *)
activate_worker_node(c) ==
  /\ c.do = "activate"
  /\ IF nodes[c.machine].status = "deactivated"
     THEN Write(c.machine, "active") ELSE UNCHANGED nodes
  /\ Answer(c, "answered", nodes'[c.machine])
  /\ UNCHANGED newKeys
deactivate_worker_node(c) ==
  /\ c.do = "deactivate"
  /\ IF nodes[c.machine].status = "removed" /\ c.page = Volunteer THEN TurnDown(c)
     ELSE Write(c.machine, "deactivated") /\ Answer(c, "answered", nodes'[c.machine]) /\ UNCHANGED newKeys
remove_worker_node(c) ==
  /\ c.do = "remove"
  /\ Write(c.machine, "removed")
  /\ Answer(c, "answered", nodes'[c.machine])
  /\ UNCHANGED newKeys
(* A machine that was removed has no command any more. *)
get_owned_node(m) == nodes[m].status # "removed"
get_worker_command(c) ==
  /\ c.do = "command"
  /\ IF get_owned_node(c.machine) THEN Answer(c, "answered", <<>>) /\ UNCHANGED <<nodes, newKeys>> ELSE TurnDown(c)
(* A new key; the credentials the machine has stay as good as they were. *)
reset_worker_key(c) ==
  /\ c.do = "reset"
  /\ IF get_owned_node(c.machine)
     THEN /\ Cardinality(newKeys) < MaxNewKeys
          /\ newKeys' = newKeys \cup {[machine |-> c.machine, modal |-> c.modal]}
          /\ Answer(c, "answered", <<>>)
          /\ UNCHANGED nodes
     ELSE TurnDown(c)
generate_worker_key(c) ==
  /\ c.do = "key"
  /\ Answer(c, "answered", <<>>)
  /\ UNCHANGED <<nodes, newKeys>>
ServerHandles(c) ==
  /\ c \in calls /\ c.at = "sent"
  /\ \/ list_workers(c) \/ activate_worker_node(c) \/ deactivate_worker_node(c) \/ remove_worker_node(c)
     \/ get_worker_command(c) \/ reset_worker_key(c)
     \/ generate_worker_key(c)
  /\ UNCHANGED <<pageStateVars, dialogVars, presses>>

-----------------------------------------------------------------------------
(* What the pages make of an answer. *)

Heard(c) == calls' = calls \ {c}
ListArrives(c) ==
  /\ c.do = "list" /\ c.at = "answered"
  /\ workers' = [workers EXCEPT ![c.page] = c.answer]
  /\ reading' = [reading EXCEPT ![c.page] = "read"]
  /\ UNCHANGED <<actionError, pendingRemoval, dialogVars>>
(* Every page keeps its modals only as long as it is shown. *)
ListFails(c) ==
  /\ c.do = "list" /\ c.at # "refused"
  /\ workers' = [workers EXCEPT ![c.page] = <<>>]
  /\ reading' = [reading EXCEPT ![c.page] = "failed"]
  /\ pendingRemoval' = [pendingRemoval EXCEPT ![c.page] = NoMachine]
  /\ IF c.page = Volunteer
     THEN /\ command' = NoMachine /\ runCommand' = FALSE /\ resetCommand' = FALSE /\ resetting' = FALSE
          /\ join' = NewJoin(join.mount + 1)
     ELSE UNCHANGED <<command, runCommand, resetCommand, resetting, join>>
  /\ UNCHANGED <<actionError, modal>>
ActionArrives(c) ==
  /\ c.do \in {"activate", "deactivate", "remove"} /\ c.at = "answered"
  /\ workers' = [workers EXCEPT ![c.page] =
                   [m \in DOMAIN @ |-> IF m = c.machine THEN c.answer ELSE @[m]]]
  /\ UNCHANGED <<reading, actionError, pendingRemoval, dialogVars>>
ActionFails(c) ==
  /\ c.do \in {"activate", "deactivate", "remove"}
  /\ actionError' = [actionError EXCEPT ![c.page] = TRUE]
  /\ UNCHANGED <<workers, reading, pendingRemoval, dialogVars>>
(* An answer to a modal that is gone is gone with it. *)
CommandArrives(c) ==
  /\ c.do \in {"command", "reset"}
  /\ \E heard \in {FALSE, c.at = "answered"} :
       IF command # NoMachine /\ c.modal = modal
       THEN /\ runCommand' = (runCommand \/ (c.do = "command" /\ heard))
            /\ resetCommand' = (resetCommand \/ (c.do = "reset" /\ heard))
            /\ resetting' = (resetting /\ c.do # "reset")
       ELSE UNCHANGED <<runCommand, resetCommand, resetting>>
  /\ UNCHANGED <<pageStateVars, command, modal, join>>
(* The key is shown even if the dialog was closed and opened again. *)
KeyArrives(c) ==
  /\ c.do = "key"
  /\ \E heard \in {FALSE, c.at = "answered"} :
       join' = IF c.modal # join.mount THEN join
               ELSE IF heard THEN [join EXCEPT !.step = "instructions", !.loading = FALSE, !.key = c.n]
               ELSE [join EXCEPT !.loading = FALSE]
  /\ UNCHANGED <<pageStateVars, commandVars>>
AnswerArrives(c) ==
  /\ c \in calls /\ Heard(c)
  /\ \/ ListArrives(c) \/ ListFails(c) \/ ActionArrives(c) \/ ActionFails(c)
     \/ CommandArrives(c) \/ KeyArrives(c)
  /\ UNCHANGED <<nodes, presses, newKeys>>

MachinesNext ==
  \/ OpenJoin \/ handleGetSetupKey \/ handlCloseModal \/ handleReset \/ CloseCommand
  \/ \E m \in Machines : Registers(m) \/ LoopWrites(m) \/ ShowCommand(m)
  \/ \E p \in MachinePages :
       \/ CloseRemoval(p) \/ SubmitRemoval(p)
       \/ \E m \in Machines : OpenRemoval(p, m) \/ \E do \in {"activate", "deactivate"} : WorkerActions(p, m, do)
  \/ \E c \in calls : ServerHandles(c) \/ AnswerArrives(c)

-----------------------------------------------------------------------------
(* A row goes back to an earlier state of its machine only by an answer    *)
(* that was asked for before the page knew the later one (runAction and    *)
(* fetchWorkers write what they get).                                      *)
RowsGoForward ==
  [][\A p \in MachinePages : \A m \in Table(p) :
       m \in DOMAIN workers'[p] /\ workers'[p][m].version < At(p, m) =>
         \E c \in calls \ calls' : c.page = p /\ c.known[m] < At(p, m)]_machineVars

(* What is offered is good: the server turns a request down, or does       *)
(* nothing, only when the machine has changed since the page was told      *)
(* (WorkerActions against services/workers.py).  A reset is not offered by *)
(* a row but by the modal, which keeps the row it was opened on.           *)
OffersAreGood ==
  [][\A c \in calls : \A d \in calls' :
       c.n = d.n /\ c.at = "sent" /\ d.at # "sent" /\ c.do \notin {"list", "key", "reset"} =>
         \/ c.known[c.machine] < nodes[c.machine].version
         \/ d.at = "answered" /\ (c.do \in {"activate", "deactivate", "remove"} => nodes' # nodes)]_machineVars

(* A machine that was removed comes back, as far as REST goes, only by an  *)
(* administrator whose page did not know of the removal.                   *)
ReturnsByADesk ==
  [][\A m \in DOMAIN nodes : nodes[m].status = "removed" /\ nodes'[m].status # "removed" =>
       \E c \in calls : c.page = Desk /\ c.machine = m /\ c.known[m] < nodes[m].version]_machineVars

MachinesMove == RowsGoForward /\ OffersAreGood /\ ReturnsByADesk

(* A key that is shown was issued for the machine and the modal it is      *)
(* shown in, and a page says that a machine waits to be activated just     *)
(* when it offers that.  The dialog that adds a machine asks for one key  *)
(* at a time, closed and opened as it may be, and gives instructions only  *)
(* with the key asked for last.                                            *)
PagesAreTrue ==
  /\ resetCommand => [machine |-> command, modal |-> modal] \in newKeys
  /\ \A p \in MachinePages : \A m \in Table(p) :
       getStatusMessage(workers[p][m].status) = "paused" <=> "activate" \in Offers(p, workers[p][m].status)
  /\ \A c \in calls : c.do = "key" /\ c.modal = join.mount => join.loading /\ join.step = "form" /\ c.n > join.key
  /\ join.step = "instructions" => join.key # 0
=============================================================================
