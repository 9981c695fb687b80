-------------------------- MODULE NotificationFeed --------------------------
(***************************************************************************)
(* The notices of a user in one tab (app/frontend/src/hooks/               *)
(* useNotification.tsx and components/notification): a list that is        *)
(* fetched whole and added to by the server's pushes, the toast that shows *)
(* one notice at a time, and the marks of what was read.                   *)
(*                                                                         *)
(* Pushes come over a socket that is opened once, with the page; answers   *)
(* to fetches come whenever they come and replace the list, and what the   *)
(* tab knows, by what the server had when it was asked.                    *)
(***************************************************************************)
EXTENDS Integers, FiniteSets, SequencesExt

CONSTANTS
  MaxNotices,    \* bound: notices the server makes
  MaxFetches,    \* bound: fetches of the list
  PageSize       \* the server's answer holds so many notices: 50 in the code

ASSUME FeedAssumption == MaxNotices \in Nat /\ MaxFetches \in Nat \ {0} /\ PageSize \in Nat

VARIABLES
  made,        \* notices the server has, numbered in the order they were made
  aged,        \* those older than a day
  readMarks,   \* the server's marks
  session,     \* the browser has the cookie of a user
  socket,      \* "opening", "open" or "closed"
  wire,        \* notices pushed and not yet received
  feed,        \* the list: a sequence of [id, read], newest first
  known,       \* knownIdsRef
  loadDone,    \* initialLoadDoneRef
  toast,       \* the notice that is shown, or 0
  fetches,     \* fetches on their way; heard, marks: what was known when they were asked
  fetched,     \* fetches so far
  reads,       \* marks on their way to the server
  toasted,     \* (history) notices that a toast has shown ...
  twice,       \* ... and those it has shown twice
  forgotten    \* (history) notices that an answer took out of what was known

pastToasts == <<toasted, twice, forgotten>>
feedVars == <<made, aged, readMarks, session, socket, wire, feed, known, loadDone, toast, fetches, fetched,
              reads, pastToasts>>

Ids == 1..MaxNotices
idsOf(list) == {list[i].id : i \in DOMAIN list}
Notice(id, read) == [id |-> id, read |-> read]
(* The j-th of a set of numbers, the least first. *)
Nth(S, j) == CHOOSE i \in S : Cardinality({k \in S : k < i}) = j - 1

(* A page is loaded: it asks for the list, to be toasted if the user has   *)
(* just signed in, and opens the socket.                                   *)
FeedInit ==
  /\ made = 0 /\ aged = {} /\ readMarks = {}
  /\ session \in BOOLEAN /\ socket = "opening" /\ wire = {}
  /\ feed = <<>> /\ known = {} /\ loadDone = FALSE /\ toast = 0
  /\ \E justLoggedIn \in BOOLEAN :
       fetches = {[n |-> 1, toasts |-> justLoggedIn, asked |-> TRUE, ok |-> FALSE, answer |-> <<>>,
                   heard |-> {}, marks |-> {}]}
  /\ fetched = 1 /\ reads = {} /\ toasted = {} /\ twice = {} /\ forgotten = {}

-----------------------------------------------------------------------------
(* The server. *)
MakeNotice ==
  /\ made < MaxNotices
  /\ made' = made + 1
  /\ wire' = IF socket = "open" THEN wire \cup {made + 1} ELSE wire
  /\ UNCHANGED <<aged, readMarks, session, socket, feed, known, loadDone, toast, fetches, fetched, reads, pastToasts>>
NoticeAges ==
  /\ \E id \in 1..made : id \notin aged /\ (\A older \in 1..(id - 1) : older \in aged) /\ aged' = aged \cup {id}
  /\ UNCHANGED <<made, readMarks, session, socket, wire, feed, known, loadDone, toast, fetches, fetched, reads, pastToasts>>

(* The notices of the day, the newest first, a page of them. *)
PageOf(day) == IF Cardinality(day) < PageSize THEN Cardinality(day) ELSE PageSize
\* (fault) the oldest first
OldestFirst ==
  LET day == (1..made) \ aged IN
  [i \in 1..PageOf(day) |-> Notice(Nth(day, i), Nth(day, i) \in readMarks)]
list_notifications ==
  LET day == (1..made) \ aged IN
  [i \in 1..PageOf(day) |->
     LET id == Nth(day, Cardinality(day) + 1 - i) IN Notice(id, id \in readMarks)]
ServerAnswers(f) ==
  /\ f \in fetches /\ f.asked
  /\ fetches' = (fetches \ {f}) \cup
       {[f EXCEPT !.asked = FALSE, !.ok = session, !.answer = IF session THEN list_notifications ELSE <<>>]}
  /\ UNCHANGED <<made, aged, readMarks, session, socket, wire, feed, known, loadDone, toast, fetched, reads, pastToasts>>

(* The socket is let in with a cookie only, and is opened once. *)
notification_ws ==
  /\ socket = "opening"
  /\ socket' = IF session THEN "open" ELSE "closed"
  /\ UNCHANGED <<made, aged, readMarks, session, wire, feed, known, loadDone, toast, fetches, fetched, reads, pastToasts>>
(* What was on its way is lost. *)
SocketBreaks ==
  /\ socket = "open"
  /\ socket' = "closed"
  /\ wire' = {}
  /\ UNCHANGED <<made, aged, readMarks, session, feed, known, loadDone, toast, fetches, fetched, reads, pastToasts>>
(* A sign-in with a second factor goes on without a new page. *)
SignsInOnThePage ==
  /\ ~session
  /\ session' = TRUE
  /\ UNCHANGED <<made, aged, readMarks, socket, wire, feed, known, loadDone, toast, fetches, fetched, reads, pastToasts>>

-----------------------------------------------------------------------------
(* A toast stands for six seconds from the moment there is one; another    *)
(* takes its place and what is left of its time.                           *)
showToast(id) ==
  /\ toast' = id
  /\ toasted' = toasted \cup {id}
  /\ twice' = IF id \in toasted THEN twice \cup {id} ELSE twice
NoToast == UNCHANGED <<toast, toasted, twice>>
NotificationToast == toast # 0
dismissToast ==
  /\ NotificationToast
  /\ toast' = 0
  /\ UNCHANGED <<made, aged, readMarks, session, socket, wire, feed, known, loadDone, fetches, fetched, reads, pastToasts>>

(* The answer to a fetch replaces the list and what is known. *)
fetchNotifications(f) ==
  /\ f \in fetches /\ ~f.asked
  /\ fetches' = fetches \ {f}
  /\ IF ~f.ok THEN NoToast /\ UNCHANGED <<feed, known, loadDone, forgotten>>
     ELSE /\ feed' = f.answer
          /\ known' = idsOf(f.answer)
          /\ forgotten' = forgotten \cup (known \ known')
          /\ loadDone' = TRUE
          /\ LET new == {i \in DOMAIN f.answer : f.answer[i].id \notin known /\ ~f.answer[i].read} IN
             IF f.toasts /\ new # {} THEN showToast(f.answer[Nth(new, 1)].id) ELSE NoToast
  /\ UNCHANGED <<made, aged, readMarks, session, socket, wire, fetched, reads>>
FetchFails(f) ==
  /\ f \in fetches
  /\ fetches' = fetches \ {f}
  /\ UNCHANGED <<made, aged, readMarks, session, socket, wire, feed, known, loadDone, toast, fetched, reads, pastToasts>>

(* The map has told the server where the user is (useUpdateUserLocation). *)
refetchSilent ==
  /\ fetched < MaxFetches /\ session
  /\ fetches' = fetches \cup
       {[n |-> fetched + 1, toasts |-> FALSE, asked |-> TRUE, ok |-> FALSE, answer |-> <<>>,
          heard |-> known, marks |-> readMarks]}
  /\ fetched' = fetched + 1
  /\ UNCHANGED <<made, aged, readMarks, session, socket, wire, feed, known, loadDone, toast, reads, pastToasts>>

(* A push: a notice that is known is skipped. *)
\* (fault) every push is listed
ListEveryPush(id) ==
  /\ id \in wire
  /\ wire' = wire \ {id}
  /\ known' = known \cup {id}
  /\ feed' = <<Notice(id, FALSE)>> \o feed
  /\ IF loadDone THEN showToast(id) ELSE NoToast
  /\ UNCHANGED <<made, aged, readMarks, session, socket, loadDone, fetches, fetched, reads, forgotten>>
onmessage(id) ==
  /\ id \in wire
  /\ wire' = wire \ {id}
  /\ IF id \in known THEN NoToast /\ UNCHANGED <<feed, known>>
     ELSE /\ known' = known \cup {id}
          /\ feed' = <<Notice(id, FALSE)>> \o feed
          /\ IF loadDone THEN showToast(id) ELSE NoToast
  /\ UNCHANGED <<made, aged, readMarks, session, socket, loadDone, fetches, fetched, reads, forgotten>>

(* Once a minute what is older than a day goes. *)
DropsOld ==
  /\ LET young == {i \in DOMAIN feed : feed[i].id \notin aged} IN
     feed' = [j \in 1..Cardinality(young) |-> feed[Nth(young, j)]]
  /\ feed' # feed
  /\ UNCHANGED <<made, aged, readMarks, session, socket, wire, known, loadDone, toast, fetches, fetched, reads, pastToasts>>

(* A card is clicked: it is read here at once, and on the server if the    *)
(* request gets there.                                                     *)
NotificationSidebar == DOMAIN feed
NotificationCard(i) == ~feed[i].read
markAsRead(i) ==
  /\ i \in NotificationSidebar /\ NotificationCard(i)
  /\ feed' = [feed EXCEPT ![i].read = TRUE]
  /\ reads' = reads \cup {feed[i].id}
  /\ UNCHANGED <<made, aged, readMarks, session, socket, wire, known, loadDone, toast, fetches, fetched, pastToasts>>
read_notification(id) ==
  /\ id \in reads
  /\ reads' = reads \ {id}
  /\ readMarks' \in {readMarks, readMarks \cup {id}}
  /\ UNCHANGED <<made, aged, session, socket, wire, feed, known, loadDone, toast, fetches, fetched, pastToasts>>

FeedNext ==
  \/ MakeNotice \/ NoticeAges \/ notification_ws \/ SocketBreaks \/ SignsInOnThePage
  \/ dismissToast \/ refetchSilent \/ DropsOld
  \/ \E f \in fetches : ServerAnswers(f) \/ fetchNotifications(f) \/ FetchFails(f)
  \/ \E id \in wire : onmessage(id)
  \/ \E i \in 1..MaxNotices : markAsRead(i)
  \/ \E id \in reads : read_notification(id)
FeedSpec == FeedInit /\ [][FeedNext]_feedVars

-----------------------------------------------------------------------------
FeedTypeOK ==
  /\ made \in 0..MaxNotices /\ aged \subseteq 1..made /\ readMarks \subseteq 1..made
  /\ session \in BOOLEAN /\ socket \in {"opening", "open", "closed"} /\ wire \subseteq 1..made
  /\ \A i \in DOMAIN feed : feed[i] \in [id : 1..made, read : BOOLEAN]
  /\ known \subseteq 1..made /\ twice \subseteq toasted /\ forgotten \subseteq 1..made /\ toasted \subseteq 1..made /\ loadDone \in BOOLEAN /\ toast \in 0..made
  /\ \A f \in fetches : f.n \in 1..fetched /\ f.heard \subseteq 1..made
  /\ reads \subseteq 1..made /\ fetched \in 0..MaxFetches

(* No notice is in the list twice, whichever of a fetch and a push brings  *)
(* it first, nor is there one that a push would bring again.               *)
ListedOnce ==
  /\ Cardinality(idsOf(feed)) = Len(feed)
  /\ idsOf(feed) \subseteq known

(* A notice leaves the list only when its day is over, or when an answer   *)
(* replaces the list that was asked for before the tab heard of it, or     *)
(* that was cut to a page.  A notice that was read becomes unread again    *)
(* only by an answer asked for before the server had stored the mark.      *)
ListedStay ==
  \A id \in idsOf(feed) \ idsOf(feed') :
    id \in aged \/ \E f \in fetches \ fetches' : id \notin f.heard \/ Cardinality(id..made) > PageSize
ReadStay ==
  \A x \in ToSet(feed) : x.read /\ Notice(x.id, FALSE) \in ToSet(feed') =>
    \E f \in fetches \ fetches' : x.id \notin f.marks
NoticesStay == [][ListedStay /\ ReadStay]_feedVars

(* A push of a notice the tab has already is skipped (already have it),    *)
(* wherever it had it from: a toast shows a notice twice only when an      *)
(* answer that is older than the notice has made the tab forget it.        *)
ToastsAreNew == twice \subseteq forgotten
=============================================================================
