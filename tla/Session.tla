------------------------------ MODULE Session ------------------------------
(***************************************************************************)
(* Who is logged in on a device: the tabs of one browser, the token they   *)
(* share through localStorage and the cookie, the cached answer they       *)
(* share, and the server that issues and revokes tokens (frontend          *)
(* AuthContext, login page, navigation, middleware.ts, the credential      *)
(* parts of lib/api.ts; backend auth service and AuthMiddleware).          *)
(*                                                                         *)
(* One cache key stands for all: what it holds is told apart only by whose *)
(* answer it is.  A form that is not filled in is not sent and changes     *)
(* nothing; what it asks for is left out.  A stored token is always one    *)
(* that the server has issued, so it can be parsed.                        *)
(***************************************************************************)
EXTENDS Integers, FiniteSets

CONSTANTS
  Users, Role,      \* the people who use the device, and their roles
  Tabs,
  MaxTokens,        \* bound: the tokens ever issued
  Opened,           \* bound: the addresses that are opened
  None

Roles == {"STUDENT", "PARENT", "MODERATOR", "ADMIN"}
Tokens == 1 .. MaxTokens    \* in the order they are issued in

\* "/dashboard" stands for every page that only asks for a session.
Pages == {"/login", "/dashboard", "/parent", "/moderator", "/admin"}

ASSUME SessionAssumption ==
  /\ Role \in [Users -> Roles] /\ MaxTokens \in Nat
  /\ Opened \subseteq Pages
  /\ None \notin Users \cup Tokens

VARIABLES
  tabs,      \* each tab: its page, its React state and its calls under way
  store,     \* log_token and log_user in localStorage
  cookie,    \* the log_token cookie
  cache,     \* whose answer the cached GET holds
  owner,     \* whose token each is, once issued
  late,      \* tokens within 30 seconds of their end, or past it
  revoked,   \* the server's blocklist
  ended,     \* history: tokens whose logout was carried out
  strays     \* history: whether what is cached missed a change of user

vars == <<tabs, store, cookie, cache, owner, late, revoked, ended,
          strays>>

-----------------------------------------------------------------------------
(* Pages.                                                                  *)

\* The roles the middleware lets through; the landing page of each role.
Admitted(p) == CASE p = "/admin" -> {"ADMIN"}
                 [] p = "/moderator" -> {"ADMIN", "MODERATOR"}
                 [] p = "/parent" -> {"PARENT"}
                 [] OTHER -> Roles
Landing(u) == CASE Role[u] = "ADMIN" -> "/admin"
                [] Role[u] = "MODERATOR" -> "/moderator"
                [] Role[u] = "PARENT" -> "/parent"
                [] OTHER -> "/dashboard"

\* Where a request for p ends, for the role in the cookie; None without one.
Routed(p, role) ==
  IF role = None THEN "/login"
  ELSE IF p = "/login" \/ role \notin Admitted(p) THEN "/dashboard"
  ELSE p

RoleOf(t) == IF t = None THEN None ELSE Role[owner[t]]

\* The links the navigation and its account menu offer a user.
Links(role) ==
  {"/dashboard"} \cup (IF role = "PARENT" THEN {"/parent"} ELSE {})
    \cup (IF role \in {"MODERATOR", "ADMIN"} THEN {"/moderator"} ELSE {})
    \cup (IF role = "ADMIN" THEN {"/admin"} ELSE {})

NoGet == [on |-> FALSE, tok |-> None]
GetWith(t) == [on |-> TRUE, tok |-> t]

\* A page just loaded: no React state yet, and whatever was under way is gone.
Loaded(p) == [page |-> p, up |-> FALSE, tok |-> None, sign |-> None,
              out |-> "no", revoke |-> None, get |-> NoGet]

Tab == [page : Pages, up : BOOLEAN, tok : Tokens \cup {None},
        sign : Users \cup {None}, out : {"no", "asked", "wiping"},
        revoke : Tokens \cup {None},
        get : [on : BOOLEAN, tok : Tokens \cup {None}]]
Issued == {t \in Tokens : owner[t] # None}

TypeOK ==
  /\ tabs \in [Tabs -> Tab]
  /\ store \in Tokens \cup {None} /\ cookie \in Tokens \cup {None}
  /\ cache \in Users \cup {None}
  /\ owner \in [Tokens -> Users \cup {None}]
  /\ revoked \cup ended \cup late \subseteq Issued
  /\ strays \in BOOLEAN

Init ==
  /\ tabs = [i \in Tabs |-> Loaded("/login")]
  /\ store = None /\ cookie = None /\ cache = None
  /\ owner = [t \in Tokens |-> None]
  /\ late = {} /\ revoked = {} /\ ended = {}
  /\ strays = FALSE

-----------------------------------------------------------------------------
(* Coming to a page.                                                       *)

Tokened == <<owner, late, revoked>>
Server == <<Tokened, ended, strays>>

\* Whether a tab that goes away now leaves a cache that it was to wipe.
Keeps(i) == tabs[i].out = "wiping" /\ cache # None

\* An address is opened, the page reloaded, or the tab closed and reopened.
\* A clean-up under way stops where it is; one that had not yet wiped the cache
\* leaves it.
Visit(i, p) ==
  /\ tabs[i].up
  /\ tabs' = [tabs EXCEPT ![i] = Loaded(Routed(p, RoleOf(cookie)))]
  /\ strays' = (strays \/ Keeps(i))
  /\ UNCHANGED <<store, cookie, cache, Tokened, ended>>

\* A link of the navigation: only the page changes.
Follow(i, p) ==
  /\ tabs[i].tok # None /\ p \in Links(RoleOf(tabs[i].tok))
  /\ tabs' = [tabs EXCEPT ![i].page = Routed(p, RoleOf(cookie))]
  /\ UNCHANGED <<store, cookie, cache, Server>>

\* isTokenExpired: 30 seconds early.
Expired(t) == t \in late

\* A tab that logs out; without a stored token the server is not asked.
LoggingOut(i) ==
  [tabs[i] EXCEPT !.tok = None, !.up = TRUE,
                  !.out = IF store = None THEN "wiping" ELSE "asked",
                  !.revoke = store]

\* Mutant: the cookie is left for the server's answer to clear.
LogOut_KeepsCookie(i) ==
  /\ tabs' = [tabs EXCEPT ![i] = LoggingOut(i)]
  /\ UNCHANGED <<store, cookie, cache, Tokened, ended, strays>>

\* logout: state and cookie go at once, the rest after the server's answer.
\* The token to be revoked is the one in storage, whosever it is by now.
LogOut(i) ==
  /\ tabs' = [tabs EXCEPT ![i] = LoggingOut(i)]
  /\ cookie' = None
  /\ UNCHANGED <<store, cache, Tokened, ended, strays>>

\* The effect of AuthProvider: restore the stored session, unless expired.
Restore(i) ==
  /\ ~tabs[i].up /\ (store # None => ~Expired(store))
  /\ tabs' = [tabs EXCEPT ![i].up = TRUE, ![i].tok = store]
  /\ cookie' = IF store = None THEN cookie ELSE store
  /\ UNCHANGED <<store, cache, Server>>

RestoreExpired(i) ==
  /\ ~tabs[i].up /\ store # None /\ Expired(store)
  /\ LogOut(i)

\* The check of every 60 seconds, of the token this tab holds.
ExpiryCheck(i) ==
  /\ tabs[i].tok # None /\ Expired(tabs[i].tok)
  /\ LogOut(i)

ClickLogout(i) ==
  /\ tabs[i].tok # None
  /\ LogOut(i)

\* The request arrives; or it never does, and one that arrives after its page
\* has gone counts as arrived before.
Revoke(i) ==
  /\ tabs[i].revoke # None
  /\ revoked' = revoked \cup {tabs[i].revoke}
  /\ tabs' = [tabs EXCEPT ![i].revoke = None]
  /\ UNCHANGED <<store, cookie, cache, owner, late, ended, strays>>

\* Mutant: the cookie was cleared when the logout began, so it is not again.
Cleared_KeepsCookie == store' = None /\ cookie' = cookie

Cleared == store' = None /\ cookie' = None

\* The server's answer, or none: storage and cookie are cleared all the same.
LogoutAnswered(i) ==
  /\ tabs[i].out = "asked"
  /\ ended' = ended \cup ({store} \ {None})
  /\ Cleared
  /\ tabs' = [tabs EXCEPT ![i].out = "wiping", ![i].revoke = None]
  /\ UNCHANGED <<cache, Tokened, strays>>

\* Mutant: the cached answers stay.
Wiped_KeepsCache == cache' = cache

Wiped == cache' = None

\* Then the cache, once the database is open, and off to the login page; also
\* when that fails.
FinishLogout(i) ==
  /\ tabs[i].out = "wiping"
  /\ \/ Wiped /\ strays' = FALSE
     \/ cache' = cache /\ strays' = (strays \/ Keeps(i))
  /\ tabs' = [tabs EXCEPT ![i] = Loaded("/login")]
  /\ UNCHANGED <<store, cookie, Tokened, ended>>

-----------------------------------------------------------------------------
(* Logging in.                                                             *)

\* Mutant: credentials are dropped from storage only.
Dropped_StorageOnly(i) ==
  /\ store' = None
  /\ cookie' = cookie
  /\ tabs' = [tabs EXCEPT ![i] =
       IF @.page = "/login" THEN [@ EXCEPT !.sign = None] ELSE Loaded("/login")]
  /\ strays' = (cache # None)
  /\ UNCHANGED <<cache, Tokened, ended>>

\* clearCredentialsAndRedirect: the cache is not cleared.
Dropped(i) ==
  /\ store' = None
  /\ cookie' = None
  /\ tabs' = [tabs EXCEPT ![i] =
       IF @.page = "/login" THEN [@ EXCEPT !.sign = None] ELSE Loaded("/login")]
  /\ strays' = (cache # None)
  /\ UNCHANGED <<cache, Tokened, ended>>

\* A request of a tab that can read: a form, or a page's data.
MayAsk(i) == tabs[i].up /\ tabs[i].out = "no" /\ ~tabs[i].get.on /\ tabs[i].sign = None

\* A form is sent: to log in, or to register, claim an invitation or come by
\* Google, which makes the account if there is none.  Bound: one form is under
\* way at a time.
Submit(i, u) ==
  /\ MayAsk(i) /\ tabs[i].page = "/login"
  /\ \A j \in Tabs : tabs[j].sign = None
  /\ tabs' = [tabs EXCEPT ![i].sign = u]
  /\ UNCHANGED <<store, cookie, cache, Server>>

\* fetchWithCache finds the stored token over: the request is not sent, and
\* the credentials go, whichever page asked and whatever for.
FindsOver(i) ==
  /\ MayAsk(i) /\ store # None /\ Expired(store)
  /\ Dropped(i)

\* A token: storage, cookie, and off to the landing page with a full load.
\* (SyncQueue follows the consent the form sends next, and the flush.)
SignedIn(i, t) ==
  LET u == tabs[i].sign IN
  /\ u # None /\ \A s \in Tokens : owner[s] = None <=> s >= t
  /\ owner' = [owner EXCEPT ![t] = u]
  /\ store' = t /\ cookie' = t
  /\ strays' = (strays \/ Keeps(i)
                   \/ (cache # None /\ store # None /\ owner[store] # u))
  /\ tabs' = [tabs EXCEPT ![i] = Loaded(Routed(Landing(u), Role[u]))]
  /\ UNCHANGED <<cache, late, revoked, ended>>

\* Refused with a 401: the credentials in storage are dropped, though they may
\* be those of another tab.  Any other failure only lets the form be sent again.
SignInRefused(i) ==
  /\ tabs[i].sign # None
  /\ Dropped(i)

SignInFailed(i) ==
  /\ tabs[i].sign # None
  /\ tabs' = [tabs EXCEPT ![i].sign = None]
  /\ UNCHANGED <<store, cookie, cache, Server>>

-----------------------------------------------------------------------------
(* Reading.                                                                *)

\* A page asks for its data with the stored token, or with none.  Bound: one
\* tab reads at a time.
Get(i) ==
  /\ MayAsk(i) /\ tabs[i].page # "/login"
  /\ \A j \in Tabs : ~tabs[j].get.on
  /\ tabs' = [tabs EXCEPT ![i].get = GetWith(store)]
  /\ UNCHANGED <<store, cookie, cache, Server>>

\* The answer is cached whoever has logged in or out since it was asked for.
GetAnswered(i) ==
  LET t == tabs[i].get.tok IN
  /\ tabs[i].get.on /\ t # None /\ t \notin revoked
  /\ cache' = owner[t]
  /\ tabs' = [tabs EXCEPT ![i].get = NoGet]
  /\ strays' = (store = None \/ owner[store] # owner[t])
  /\ UNCHANGED <<store, cookie, Tokened, ended>>

\* A 401: no token, one that was revoked, or one that is over.
GetRefused(i) ==
  LET t == tabs[i].get.tok IN
  /\ tabs[i].get.on /\ (t = None \/ t \in revoked \/ Expired(t))
  /\ Dropped(i)

\* No answer: the page shows whatever the cache holds.
GetFromCache(i) ==
  /\ tabs[i].get.on
  /\ tabs' = [tabs EXCEPT ![i].get = NoGet]
  /\ UNCHANGED <<store, cookie, cache, Server>>

\* Tokens are given one lifetime: they are over in the order of their issue.
GrowLate(t) ==
  /\ owner[t] # None /\ t \notin late /\ 1 .. t - 1 \subseteq late
  /\ late' = late \cup {t}
  /\ UNCHANGED <<tabs, store, cookie, cache, owner, revoked, ended,
                 strays>>

Next ==
  \/ \E i \in Tabs, p \in Opened : Visit(i, p)
  \/ \E i \in Tabs, p \in Pages : Follow(i, p)
  \/ \E i \in Tabs : Restore(i) \/ RestoreExpired(i) \/ ExpiryCheck(i)
  \/ \E i \in Tabs : ClickLogout(i)
  \/ \E i \in Tabs : Revoke(i) \/ LogoutAnswered(i) \/ FinishLogout(i)
  \/ \E i \in Tabs, u \in Users : Submit(i, u)
  \/ \E i \in Tabs, t \in Tokens : SignedIn(i, t)
  \/ \E i \in Tabs : SignInRefused(i) \/ SignInFailed(i)
  \/ \E i \in Tabs : FindsOver(i) \/ Get(i)
  \/ \E i \in Tabs : GetAnswered(i) \/ GetRefused(i) \/ GetFromCache(i)
  \/ \E t \in Tokens : GrowLate(t)

Spec == Init /\ [][Next]_vars

\* Effects run and the interval fires, while there is a tab.
Fairness ==
  \A i \in Tabs : /\ WF_vars(Restore(i) \/ RestoreExpired(i))
                  /\ WF_vars(ExpiryCheck(i))

FairSpec == Spec /\ Fairness

-----------------------------------------------------------------------------
(* Properties.                                                             *)

(* The cookie that the edge routes by never outlives the session in storage *)
(* and never is that of another one, with all tabs logging in and out at    *)
(* once (setTokenCookie, logout, clearCredentialsAndRedirect).              *)
CookieIsStored == cookie # None => cookie = store

(* A session that was logged out of does not come back, in no tab's storage *)
(* or cookie, also when another tab restores it while the server is asked   *)
(* to revoke it (logout).                                                   *)
LoggedOutStaysOut == {store, cookie} \cap ended = {}

(* What is cached was read by the stored session ("wipe the IndexedDB       *)
(* cache, so the next user sees no stale data"), or some tab is still to    *)
(* wipe it, whoever logs in in another tab meanwhile.  Since it was cached  *)
(* no session ended without a logout, no logout was cut off before its wipe *)
(* or failed in it, no one logged in over another session, and it was not   *)
(* answered after its own session (strays); after a wipe nothing is left.   *)
OneUserCache ==
  ~strays /\ cache # None =>
    \/ store # None /\ cache = owner[store]
    \/ \E i \in Tabs : tabs[i].out = "wiping"

(* A session whose token is over is not routed by for ever: some tab's      *)
(* check or restore ends it (the 60-second interval, the mount effect).     *)
ExpiredSessionEnds ==
  \A t \in Tokens : (cookie = t /\ Expired(t)) ~> cookie # t
=============================================================================
