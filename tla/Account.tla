------------------------------ MODULE Account ------------------------------
(***************************************************************************)
(* The settings page and what it does to an account: password, logout on   *)
(* all devices, analytics consent, erasure; with the admin's role changes  *)
(* that run beside them (frontend app/settings; backend auth, privacy and  *)
(* admin services, AuthMiddleware).                                        *)
(*                                                                         *)
(* Each user has one device with the settings page; tokens of her other    *)
(* devices are those she was issued before.  The export only reads; what   *)
(* the page keeps of the look, the language and the offline switch is      *)
(* Session's and SyncQueue's, or nothing but looks.                        *)
(***************************************************************************)
EXTENDS Integers

CONSTANTS
  Users,
  FirstAdmin,    \* the admin of the start
  Calls, Idle,   \* toggles that may be under way at once
  None,
  MaxSec         \* bound: the clock, in the seconds that tokens are dated by

Roles == {"STUDENT", "ADMIN"}
Never == -1

VARIABLES
  rows,      \* the user rows: there or erased, and the role
  cutoff,    \* user_revocations: tokens dated up to it are refused
  granted,   \* whose analytics consent is on record as granted
  pages,     \* each user's settings page
  jobs,      \* UpdatePassword: the row it has read, between its two statements
  toggles,   \* the analytics calls under way
  now,       \* seconds
  unread,    \* whether user_revocations cannot be read at present
  revoked,   \* history: the tokens a logout-all was to end
  erased,    \* history: whose erasure was carried out
  left,      \* history: whether an admin's account was erased
  raced,     \* history: whose row was put back as it had been read
  unsure     \* history: whose toggles overlapped or lost an answer

vars == <<rows, cutoff, granted, pages, jobs, toggles, now, unread, revoked,
          erased, left, raced, unsure>>

Row == [there : BOOLEAN, role : Roles]
Token == [user : Users, role : Roles, iat : 0 .. MaxSec]
NoRow == [there |-> FALSE, role |-> "STUDENT"]
NoJob == [on |-> FALSE, row |-> NoRow]
LoginPage == [tok |-> None, shown |-> None, del |-> FALSE, all |-> FALSE]
Page == [tok : Token \cup {None}, shown : BOOLEAN \cup {None},
         del : BOOLEAN, all : BOOLEAN]
Asked == [user : Users, on : BOOLEAN, ok : BOOLEAN, here : BOOLEAN]

ASSUME AccountAssumption ==
  /\ FirstAdmin \in Users /\ MaxSec \in Nat
  /\ None \notin Token /\ None \notin BOOLEAN /\ Idle \notin Asked

TypeOK ==
  /\ rows \in [Users -> Row]
  /\ cutoff \in [Users -> {Never} \cup 0 .. now]
  /\ granted \subseteq Users
  /\ pages \in [Users -> Page]
  /\ jobs \in [Users -> [on : BOOLEAN, row : Row]]
  /\ toggles \in [Calls -> Asked \cup {Idle}]
  /\ now \in 0 .. MaxSec /\ unread \in BOOLEAN
  /\ revoked \subseteq Token
  /\ erased \subseteq Users /\ left \in BOOLEAN
  /\ raced \subseteq Users /\ unsure \subseteq Users
  /\ \A u \in Users : pages[u].tok = None => pages[u] = LoginPage

Init ==
  /\ rows = [u \in Users |-> [there |-> TRUE,
               role |-> IF u = FirstAdmin THEN "ADMIN" ELSE "STUDENT"]]
  /\ cutoff = [u \in Users |-> Never]
  /\ granted = {}
  /\ pages = [u \in Users |-> LoginPage]
  /\ jobs = [u \in Users |-> NoJob]
  /\ toggles = [c \in Calls |-> Idle]
  /\ now = 0 /\ unread = FALSE /\ revoked = {} /\ erased = {} /\ left = FALSE
  /\ raced = {} /\ unsure = {}

Clock == <<now, unread>>
History == <<revoked, erased, left, raced, unsure>>

-----------------------------------------------------------------------------
(* Tokens.                                                                 *)

\* AuthMiddleware: the account is there, with the role of the token, which is
\* not of a second up to that of the last logout of all devices; but if that
\* cannot be read, any second will do.
Accepts(t) ==
  /\ rows[t.user].there /\ rows[t.user].role = t.role
  /\ unread \/ t.iat > cutoff[t.user]

\* u's page is open, with a token that is accepted.  A request that is refused
\* leaves everything as it was.
Here(u) == pages[u].tok # None /\ Accepts(pages[u].tok)

Login(u) ==
  /\ pages[u].tok = None /\ rows[u].there
  /\ pages' = [pages EXCEPT ![u].tok =
                  [user |-> u, role |-> rows[u].role, iat |-> now]]
  /\ UNCHANGED <<rows, cutoff, granted, jobs, toggles, Clock, History>>

\* Mutant: a second logout-all finds the row there and leaves it.
Cut_Once(u) ==
  cutoff' = [cutoff EXCEPT ![u] = IF @ = Never THEN now ELSE @]

\* RevokeAll: insert, or on conflict update.
Cut(u) == cutoff' = [cutoff EXCEPT ![u] = now]

\* "Log Out on All Devices", confirmed; the button waits for the answer.
RevokeAll(u) ==
  /\ Here(u) /\ ~pages[u].all
  /\ Cut(u)
  /\ revoked' = revoked \cup {t \in Token : t.user = u /\ t.iat <= now}
  /\ pages' = [pages EXCEPT ![u].all = TRUE]
  /\ UNCHANGED <<rows, granted, jobs, toggles, Clock, erased, left, raced,
                 unsure>>

\* Mutant: the credentials are dropped, but the page is not left.
LeavePage_NoRedirect(u) ==
  /\ pages' = [pages EXCEPT ![u].tok = None]
  /\ UNCHANGED toggles

\* The login page is loaded: no answer finds the old page any more.
LeavePage(u) ==
  /\ pages' = [pages EXCEPT ![u] = LoginPage]
  /\ toggles' = [c \in Calls |->
       IF toggles[c] # Idle /\ toggles[c].user = u
         THEN [toggles[c] EXCEPT !.here = FALSE] ELSE toggles[c]]

\* The answer clears cache and credentials and leads to the login page ...
LogoutAllAnswered(u) ==
  /\ pages[u].all
  /\ LeavePage(u)
  /\ UNCHANGED <<rows, cutoff, granted, jobs, Clock, History>>

\* ... a lost answer leaves the page as it is, and so does a refusal.
LogoutAllFailed(u) ==
  /\ pages[u].all
  /\ pages' = [pages EXCEPT ![u].all = FALSE]
  /\ UNCHANGED <<rows, cutoff, granted, jobs, toggles, Clock, History>>

-----------------------------------------------------------------------------
(* The password.                                                           *)

\* UpdatePassword, for a form with a new password of eight letters, twice the
\* same: it finds the user and checks the old password ...
ReadUser(u) ==
  /\ Here(u) /\ ~jobs[u].on
  /\ jobs' = [jobs EXCEPT ![u] = [on |-> TRUE, row |-> rows[u]]]
  /\ UNCHANGED <<rows, cutoff, granted, pages, toggles, Clock, History>>

\* ... and saves the row it has read, which inserts it if it is gone.
SaveUser(u) ==
  /\ jobs[u].on
  /\ rows' = [rows EXCEPT ![u] = jobs[u].row]
  /\ raced' = IF rows[u] = jobs[u].row THEN raced ELSE raced \cup {u}
  /\ jobs' = [jobs EXCEPT ![u] = NoJob]
  /\ UNCHANGED <<cutoff, granted, pages, toggles, Clock, revoked, erased,
                 left, unsure>>

-----------------------------------------------------------------------------
(* Roles.                                                                  *)

Admins == {u \in Users : rows[u].there /\ rows[u].role = "ADMIN"}

\* Mutant: the admins are not counted.
MayChange_Uncounted(target, role) == rows[target].there

\* Mutant: the target is not looked up.
MayChange_Unread(target, role) ==
  role = "ADMIN" \/ Admins \ {target} # {}

\* The last admin is never demoted: counted within the transaction.
MayChange(target, role) ==
  /\ rows[target].there
  /\ target \in Admins /\ role # "ADMIN" => Admins \ {target} # {}

\* ChangeRoleTx, by a user whose token is an admin's.
ChangeRole(actor, target, role) ==
  /\ Here(actor) /\ pages[actor].tok.role = "ADMIN"
  /\ MayChange(target, role)
  /\ rows' = [rows EXCEPT ![target] = [there |-> TRUE, role |-> role]]
  /\ UNCHANGED <<cutoff, granted, pages, jobs, toggles, Clock, History>>

-----------------------------------------------------------------------------
(* Erasure.                                                                *)

\* DeleteAccountTx, after "DELETE" was typed and confirmed: revocations and
\* consents go with the row.
DeleteAccount(u) ==
  /\ Here(u) /\ ~pages[u].del
  /\ rows' = [rows EXCEPT ![u].there = FALSE]
  /\ cutoff' = [cutoff EXCEPT ![u] = Never]
  /\ granted' = granted \ {u}
  /\ erased' = erased \cup {u}
  /\ left' = (left \/ rows[u].role = "ADMIN")
  /\ pages' = [pages EXCEPT ![u].del = TRUE]
  /\ UNCHANGED <<jobs, toggles, Clock, revoked, raced, unsure>>

\* The device is wiped, the credentials dropped.
DeleteAnswered(u) ==
  /\ pages[u].del
  /\ LeavePage(u)
  /\ UNCHANGED <<rows, cutoff, granted, jobs, Clock, History>>

\* A lost answer, or a device that cannot be wiped: the page stays.
DeleteFailed(u) ==
  /\ pages[u].del
  /\ pages' = [pages EXCEPT ![u].del = FALSE]
  /\ UNCHANGED <<rows, cutoff, granted, jobs, toggles, Clock, History>>

-----------------------------------------------------------------------------
(* The analytics switch.                                                   *)

\* loadConsentStatus, when the page opens.
LoadConsentStatus(u) ==
  /\ Here(u) /\ pages[u].shown = None
  /\ pages' = [pages EXCEPT ![u].shown = (u \in granted)]
  /\ UNCHANGED <<rows, cutoff, granted, jobs, toggles, Clock, History>>

Under(u) == {c \in Calls : toggles[c] # Idle /\ toggles[c].user = u}

\* handleAnalyticsToggle: the switch is not disabled while a call is under way.
\* RecordConsent takes the call or refuses it.
Toggle(c, u, ok) ==
  /\ pages[u].shown # None /\ toggles[c] = Idle
  /\ ok => Here(u)
  /\ toggles' = [toggles EXCEPT ![c] =
       [user |-> u, on |-> ~pages[u].shown, ok |-> ok, here |-> TRUE]]
  /\ granted' = IF ~ok THEN granted
                ELSE IF pages[u].shown THEN granted \ {u} ELSE granted \cup {u}
  /\ unsure' = IF Under(u) # {} THEN unsure \cup {u} ELSE unsure
  /\ UNCHANGED <<rows, cutoff, pages, jobs, Clock, revoked, erased, left, raced>>

\* Mutant: the switch moves whatever the answer says.
Outcome_Hopeful(call) == call.on

\* Where the switch is put by an answer.
Outcome(call) == IF call.ok THEN call.on ELSE ~call.on

ToggleAnswered(c) ==
  /\ toggles[c] # Idle /\ toggles[c].here
  /\ toggles' = [toggles EXCEPT ![c] = Idle]
  /\ pages' = [pages EXCEPT ![toggles[c].user].shown = Outcome(toggles[c])]
  /\ UNCHANGED <<rows, cutoff, granted, jobs, Clock, History>>

\* No answer, or the page was left: the switch stays where it was.
ToggleLost(c) ==
  /\ toggles[c] # Idle
  /\ toggles' = [toggles EXCEPT ![c] = Idle]
  /\ unsure' = unsure \cup {toggles[c].user}
  /\ UNCHANGED <<rows, cutoff, granted, pages, jobs, Clock, revoked,
                 erased, left, raced>>

Tick ==
  /\ now < MaxSec
  /\ now' = now + 1
  /\ UNCHANGED <<rows, cutoff, granted, pages, jobs, toggles, unread, History>>

\* The look-up of revocations begins to fail, or succeeds again.
LookupTurns ==
  /\ unread' = ~unread
  /\ UNCHANGED <<rows, cutoff, granted, pages, jobs, toggles, now, History>>

Next ==
  \/ \E u \in Users : Login(u) \/ RevokeAll(u)
  \/ \E u \in Users : LogoutAllAnswered(u) \/ LogoutAllFailed(u)
  \/ \E u \in Users : ReadUser(u) \/ SaveUser(u)
  \/ \E u, v \in Users, r \in Roles : ChangeRole(u, v, r)
  \/ \E u \in Users : DeleteAccount(u) \/ DeleteAnswered(u) \/ DeleteFailed(u)
  \/ \E u \in Users : LoadConsentStatus(u)
  \/ \E c \in Calls, u \in Users, ok \in BOOLEAN : Toggle(c, u, ok)
  \/ \E c \in Calls : ToggleAnswered(c) \/ ToggleLost(c)
  \/ Tick \/ LookupTurns

Spec == Init /\ [][Next]_vars

-----------------------------------------------------------------------------
(* Properties.                                                             *)

(* A token that a logout of all devices was to end is accepted only while   *)
(* that cannot be read, and never again after it, whatever it was used for  *)
(* meanwhile: over later logouts, role changes and the erasure that deletes *)
(* the record of it, unless a password update put the user row back         *)
(* (RevokeAll, AuthMiddleware, DeleteAccountTx).                            *)
RevokedStaysRevoked ==
  ~unread => \A t \in revoked : t.user \notin raced => ~Accepts(t)

(* An erased account stays erased whatever admins do with what they had on  *)
(* screen, unless a password update had read its row (DeleteAccountTx,      *)
(* ChangeRoleTx, UpdatePassword).                                           *)
ErasedStaysErased == \A u \in erased \ raced : ~rows[u].there

(* "A school with zero principals has no recovery path": role changes by    *)
(* several admins at once leave one.  Erasure and a password update that    *)
(* puts an old role back are not guarded (ChangeRoleTx).                    *)
AlwaysAnAdmin == left \/ raced # {} \/ Admins # {}

(* "The real recorded state": the switch shows what is on record once no    *)
(* call is under way, unless calls overlapped or an answer was lost         *)
(* (handleAnalyticsToggle, loadConsentStatus).                              *)
SwitchShowsRecord ==
  \A u \in Users \ (unsure \cup erased) :
    Under(u) = {} /\ pages[u].shown # None =>
      pages[u].shown = (u \in granted)
=============================================================================
