--------------------------- MODULE BrowserSession ---------------------------
(***************************************************************************)
(* A browser with one session cookie and several tabs: which page a tab    *)
(* is let into (app/frontend/src/middleware.ts), where the login page      *)
(* sends one who is signed in (pages/login.tsx, hooks/useAuth.ts), and how *)
(* a session ends (lib/api.ts).                                            *)
(*                                                                         *)
(* The middleware believes the role in the token, which was written when   *)
(* the user signed in; the server answers /api/auth/me with the role in    *)
(* its database, which an administrator may have changed since.            *)
(***************************************************************************)
EXTENDS Integers, FiniteSets

CONSTANTS
  SessionTabs, Owners,
  RoleOf,            \* the roles an owner may be given, the first of them at the start
  MaxCookies,        \* bound: sign-ins
  MaxRoleChanges     \* bound

ASSUME SessionAssumption ==
  /\ \A o \in Owners : RoleOf[o].first \in RoleOf[o].all
  /\ \A o \in Owners : RoleOf[o].all \subseteq {"admin", "firefighter", "user"}
  /\ MaxCookies \in Nat /\ MaxRoleChanges \in Nat

VARIABLES
  roleNow,      \* the roles in the database
  cookie,       \* the token the browser holds; n = 0: none
  tab,          \* a tab: its page, what /api/auth/me said, whether it is leaving
  logouts,      \* logout requests the server has not seen, with the tab that waits
  cookies, roleChanges,
  tokenRole,    \* (history) the role written into each token
  ended,        \* (history) tokens that a logout or their time has ended
  bounced       \* (history) tabs that the login page sent away and the middleware sent back

sessionVars == <<roleNow, cookie, tab, logouts, cookies, roleChanges, tokenRole, ended, bounced>>

ROLE_REDIRECTS == [admin |-> "/admin", firefighter |-> "/firefighter", user |-> "/users"]
protectedRoutes == {"/admin", "/firefighter", "/users"}
rolesOf(p) == {r \in DOMAIN ROLE_REDIRECTS : ROLE_REDIRECTS[r] = p}
NoCookie == [n |-> 0, live |-> FALSE]

(* A page as it is loaded: it knows nothing of the session. *)
Loaded(p) == [page |-> p, me |-> "asked", of |-> 0, leaving |-> FALSE]

SessionInit ==
  /\ roleNow = [o \in Owners |-> RoleOf[o].first]
  /\ cookie = NoCookie
  /\ tab = [t \in SessionTabs |-> Loaded("/login")]
  /\ logouts = {}
  /\ cookies = 0 /\ roleChanges = 0
  /\ tokenRole = [n \in 1..MaxCookies |-> [owner |-> CHOOSE o \in Owners : TRUE, role |-> "user"]]
  /\ ended = {}
  /\ bounced = {}

-----------------------------------------------------------------------------
(* Where a visit to page p ends, and what becomes of the cookie. *)
middleware(p) ==
  IF p \notin protectedRoutes THEN p
  ELSE IF cookie.n # 0 /\ cookie.live /\ tokenRole[cookie.n].role \in rolesOf(p) THEN p ELSE "/login"
CookieAfter(p) == IF p \in protectedRoutes /\ cookie.n # 0 /\ ~cookie.live THEN NoCookie ELSE cookie

(* A page is asked for by its address, with a full load. *)
Visit(t, p) ==
  /\ ~tab[t].leaving
  /\ tab' = [tab EXCEPT ![t] = Loaded(middleware(p))]
  /\ cookie' = CookieAfter(p)
  /\ bounced' = bounced \ {t}
  /\ UNCHANGED <<roleNow, logouts, cookies, roleChanges, tokenRole, ended>>

(* useAuth: the server reads the token, and the role of its owner. *)
checkAuth(t) ==
  /\ tab[t].page = "/login" /\ tab[t].me = "asked"
  /\ \E heard \in BOOLEAN :
       tab' = [tab EXCEPT
                 ![t].me = IF heard /\ cookie.live THEN roleNow[tokenRole[cookie.n].owner] ELSE "nobody",
                 ![t].of = IF heard /\ cookie.live THEN cookie.n ELSE 0]
  /\ UNCHANGED <<roleNow, cookie, logouts, cookies, roleChanges, tokenRole, ended, bounced>>

(* The login and register pages show their form to nobody else. *)
PublicView(t) == IF tab[t].me = "nobody" THEN "form" ELSE "skeleton"

(* A user who is signed in is sent to the page of the role.  If the        *)
(* middleware sends the tab back, the login page is still mounted and      *)
(* remembers what it was told.                                             *)
RedirectByRole(t) ==
  /\ tab[t].page = "/login" /\ PublicView(t) = "skeleton" /\ tab[t].me # "asked" /\ ~tab[t].leaving
  /\ LET p == ROLE_REDIRECTS[tab[t].me] IN
     /\ tab' = IF middleware(p) = p THEN [tab EXCEPT ![t] = Loaded(p)] ELSE tab
     /\ bounced' = IF middleware(p) = p THEN bounced ELSE bounced \cup {t}
     /\ cookie' = CookieAfter(p)
  /\ UNCHANGED <<roleNow, logouts, cookies, roleChanges, tokenRole, ended>>

(* An owner signs in: the token carries the role of now, and the page of   *)
(* the role is loaded.                                                     *)
SignsIn(t) ==
  /\ tab[t].page = "/login" /\ PublicView(t) = "form" /\ ~tab[t].leaving /\ cookies < MaxCookies
  /\ \E o \in Owners :
       /\ cookie' = [n |-> cookies + 1, live |-> TRUE]
       /\ tokenRole' = [tokenRole EXCEPT ![cookies + 1] = [owner |-> o, role |-> roleNow[o]]]
       /\ tab' = [tab EXCEPT ![t] = Loaded(ROLE_REDIRECTS[roleNow[o]])]
  /\ cookies' = cookies + 1
  /\ bounced' = bounced \ {t}
  /\ UNCHANGED <<roleNow, logouts, roleChanges, ended>>

(* A page asks the server something; with a token that is not good any     *)
(* more a protected page takes its leave, once.                            *)
apiCall(t) ==
  /\ tab[t].page \in protectedRoutes /\ ~cookie.live /\ ~tab[t].leaving
  /\ tab' = [tab EXCEPT ![t].leaving = TRUE]
  /\ logouts' = logouts \cup {t}
  /\ UNCHANGED <<roleNow, cookie, cookies, roleChanges, tokenRole, ended, bounced>>

(* The button does the same. *)
logout(t) ==
  /\ tab[t].page \in protectedRoutes /\ ~tab[t].leaving
  /\ tab' = [tab EXCEPT ![t].leaving = TRUE]
  /\ logouts' = logouts \cup {t}
  /\ UNCHANGED <<roleNow, cookie, cookies, roleChanges, tokenRole, ended, bounced>>

(* The server's answer takes the cookie away, whichever it is by then; if  *)
(* the request fails it stays.  Either way the tab goes to the login page. *)
LogoutEnds(t) ==
  /\ t \in logouts
  /\ logouts' = logouts \ {t}
  /\ \/ cookie' = NoCookie /\ ended' = IF cookie.n # 0 THEN ended \cup {cookie.n} ELSE ended
     \/ UNCHANGED <<cookie, ended>>
  /\ tab' = [tab EXCEPT ![t] = Loaded("/login")]
  /\ bounced' = bounced \ {t}
  /\ UNCHANGED <<roleNow, cookies, roleChanges, tokenRole>>

(* The token's hour is over. *)
TokenExpires ==
  /\ cookie.live
  /\ cookie' \in {[cookie EXCEPT !.live = FALSE], NoCookie}
  /\ ended' = ended \cup {cookie.n}
  /\ UNCHANGED <<roleNow, tab, logouts, cookies, roleChanges, tokenRole, bounced>>

(* An administrator decides on a role request, or revokes one. *)
RoleChanges ==
  /\ roleChanges < MaxRoleChanges
  /\ \E o \in Owners : \E r \in RoleOf[o].all \ {roleNow[o]} : roleNow' = [roleNow EXCEPT ![o] = r]
  /\ roleChanges' = roleChanges + 1
  /\ UNCHANGED <<cookie, tab, logouts, cookies, tokenRole, ended, bounced>>

SessionTabStep(t) ==
  \/ \E p \in protectedRoutes \cup {"/login"} : Visit(t, p)
  \/ checkAuth(t) \/ RedirectByRole(t) \/ SignsIn(t) \/ apiCall(t) \/ logout(t) \/ LogoutEnds(t)
SessionNext == (\E t \in SessionTabs : SessionTabStep(t)) \/ TokenExpires \/ RoleChanges

SessionSpec == SessionInit /\ [][SessionNext]_sessionVars

-----------------------------------------------------------------------------
SessionTypeOK ==
  /\ \A o \in Owners : roleNow[o] \in RoleOf[o].all
  /\ cookie \in [n : 0..MaxCookies, live : BOOLEAN]
  /\ tab \in [SessionTabs -> [page : protectedRoutes \cup {"/login"}, of : 0..MaxCookies, leaving : BOOLEAN,
                              me : {"asked", "nobody", "admin", "firefighter", "user"}]]
  /\ logouts \subseteq SessionTabs /\ bounced \subseteq SessionTabs
  /\ cookies \in 0..MaxCookies /\ roleChanges \in 0..MaxRoleChanges
  /\ \A n \in 1..cookies : tokenRole[n].role \in RoleOf[tokenRole[n].owner].all
  /\ ended \subseteq 1..cookies

(* A tab that the login page cannot get rid of holds an answer that is not *)
(* true of the cookie: the token the answer was for is gone, or the role   *)
(* of its owner is not the one it carries, or was not.  A user whose role  *)
(* stays and whose session lasts is never caught between the two.          *)
BounceHasACause ==
  \A t \in bounced :
    tab[t].page = "/login" => \/ tab[t].of # cookie.n \/ ~cookie.live
                              \/ tab[t].me # tokenRole[tab[t].of].role

(* The browser loses the token of the last sign-in only to a logout, from  *)
(* whichever tab and however late it arrives, or to the end of its time.   *)
SessionsEndForAReason == cookies > 0 => cookie.n = cookies \/ cookies \in ended
=============================================================================
