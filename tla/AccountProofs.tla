--------------------------- MODULE AccountProofs ---------------------------
(***************************************************************************)
(* Proofs about Account, for every set of users and calls and every bound  *)
(* of the clock.                                                           *)
(***************************************************************************)
EXTENDS Account, TLAPS

-----------------------------------------------------------------------------
(* Types.                                                                  *)

\* A call that is to find its page again finds it open.
AnswersFindPage ==
  \A c \in Calls : toggles[c] # Idle /\ toggles[c].here =>
    pages[toggles[c].user].tok # None

TypeInv == TypeOK /\ AnswersFindPage

LEMMA InitType ==
  ASSUME Init
  PROVE  TypeInv
  <1>1. LoginPage \in Page /\ NoJob \in [on : BOOLEAN, row : Row]
    BY DEF LoginPage, Page, NoJob, NoRow, Row, Roles
  <1>2. rows \in [Users -> Row]
    BY DEF Init, Row, Roles
  <1>3. cutoff \in [Users -> {Never} \cup 0 .. now] /\ now \in 0 .. MaxSec
    BY AccountAssumption DEF Init
  <1>4. /\ pages \in [Users -> Page]
        /\ jobs \in [Users -> [on : BOOLEAN, row : Row]]
        /\ toggles \in [Calls -> Asked \cup {Idle}]
    BY <1>1 DEF Init
  <1>5. AnswersFindPage
    BY DEF Init, AnswersFindPage
  <1> QED BY <1>2, <1>3, <1>4, <1>5 DEF Init, TypeInv, TypeOK

\* What the pages are, and what a step leaves of it that gives a page a record.
PagesOK ==
  /\ pages \in [Users -> Page]
  /\ \A u \in Users : pages[u].tok = None => pages[u] = LoginPage

LEMMA PageStep ==
  ASSUME PagesOK, NEW u \in Users, NEW p \in Page,
         p.tok = None => p = LoginPage,
         pages' = [pages EXCEPT ![u] = p]
  PROVE  PagesOK'
  BY DEF PagesOK

LEMMA LeavePageType ==
  ASSUME TypeInv, NEW u \in Users, LeavePage(u),
         UNCHANGED <<rows, cutoff, granted, jobs, Clock, History>>
  PROVE  TypeInv'
  <1>1. PagesOK /\ toggles \in [Calls -> Asked \cup {Idle}]
    BY DEF TypeInv, TypeOK, PagesOK
  <1>2. /\ pages' = [pages EXCEPT ![u] = LoginPage]
        /\ toggles' = [c \in Calls |->
             IF toggles[c] # Idle /\ toggles[c].user = u
               THEN [toggles[c] EXCEPT !.here = FALSE] ELSE toggles[c]]
    BY DEF LeavePage
  <1>3. LoginPage \in Page
    BY DEF LoginPage, Page
  <1>4. PagesOK'
    BY <1>1, <1>2, <1>3, PageStep
  <1>5. toggles' \in [Calls -> Asked \cup {Idle}]
    BY <1>1, <1>2 DEF Asked
  <1>6. ASSUME NEW c \in Calls, toggles'[c] # Idle, toggles'[c].here
        PROVE  pages'[toggles'[c].user].tok # None
    <2>1. toggles[c] # Idle /\ toggles[c] \in Asked
      BY <1>1, <1>2, <1>6
    <2>2. toggles[c].user # u /\ toggles'[c] = toggles[c]
      BY <1>2, <1>6, <2>1 DEF Asked
    <2>3. pages[toggles[c].user].tok # None /\ toggles[c].user \in Users
      BY <1>6, <2>1, <2>2 DEF TypeInv, AnswersFindPage, Asked
    <2> QED BY <1>1, <1>2, <2>2, <2>3 DEF PagesOK
  <1> QED BY <1>4, <1>5, <1>6 DEF TypeInv, TypeOK, PagesOK, AnswersFindPage,
           Clock, History

\* A step that leaves the calls alone and closes no page.
LEMMA PagesStayOpen ==
  ASSUME TypeInv, toggles' = toggles,
         \A v \in Users : pages[v].tok # None => pages'[v].tok # None
  PROVE  AnswersFindPage'
  <1>1. \A c \in Calls : toggles[c] # Idle => toggles[c].user \in Users
    BY DEF TypeInv, TypeOK, Asked
  <1> QED BY <1>1 DEF TypeInv, AnswersFindPage

LEMMA RequestType ==
  ASSUME TypeInv, NEW u \in Users,
         Login(u) \/ RevokeAll(u) \/ DeleteAccount(u)
  PROVE  TypeInv'
  <1> DEFINE p == pages[u]
  <1>1. /\ PagesOK /\ rows \in [Users -> Row] /\ p \in Page
        /\ now \in 0 .. MaxSec /\ cutoff \in [Users -> {Never} \cup 0 .. now]
    BY DEF TypeInv, TypeOK, PagesOK
  <1>2. PagesOK' /\ \A v \in Users : pages[v].tok # None => pages'[v].tok # None
    <2>1. CASE Login(u)
      <3> DEFINE t == [user |-> u, role |-> rows[u].role, iat |-> now]
      <3>1. t \in Token
        BY <1>1 DEF Token, Row
      <3>2. t # None
        BY <3>1, AccountAssumption
      <3>3. pages' = [pages EXCEPT ![u] = [p EXCEPT !.tok = t]]
        BY <1>1, <2>1 DEF Login, PagesOK
      <3> HIDE DEF t
      <3>4. [p EXCEPT !.tok = t] \in Page /\ [p EXCEPT !.tok = t].tok = t
        BY <1>1, <3>1 DEF Page
      <3>5. PagesOK'
        BY <1>1, <3>2, <3>3, <3>4, PageStep
      <3> QED BY <1>1, <3>2, <3>3, <3>4, <3>5 DEF PagesOK
    <2>2. CASE RevokeAll(u)
      <3>1. pages' = [pages EXCEPT ![u] = [p EXCEPT !.all = TRUE]] /\ p.tok # None
        BY <1>1, <2>2 DEF RevokeAll, Here, PagesOK
      <3>2. [p EXCEPT !.all = TRUE] \in Page /\ [p EXCEPT !.all = TRUE].tok = p.tok
        BY <1>1 DEF Page
      <3>3. PagesOK'
        BY <1>1, <3>1, <3>2, PageStep
      <3> QED BY <1>1, <3>1, <3>2, <3>3 DEF PagesOK
    <2>3. CASE DeleteAccount(u)
      <3>1. pages' = [pages EXCEPT ![u] = [p EXCEPT !.del = TRUE]] /\ p.tok # None
        BY <1>1, <2>3 DEF DeleteAccount, Here, PagesOK
      <3>2. [p EXCEPT !.del = TRUE] \in Page /\ [p EXCEPT !.del = TRUE].tok = p.tok
        BY <1>1 DEF Page
      <3>3. PagesOK'
        BY <1>1, <3>1, <3>2, PageStep
      <3> QED BY <1>1, <3>1, <3>2, <3>3 DEF PagesOK
    <2> QED BY <2>1, <2>2, <2>3
  <1>3. AnswersFindPage'
    <2>1. toggles' = toggles
      BY DEF Login, RevokeAll, DeleteAccount
    <2> QED BY <1>2, <2>1, PagesStayOpen
  <1>4. cutoff' \in [Users -> {Never} \cup 0 .. now'] /\ now' \in 0 .. MaxSec
    <2>1. now' = now /\ (\/ cutoff' = cutoff
                         \/ cutoff' = [cutoff EXCEPT ![u] = now]
                         \/ cutoff' = [cutoff EXCEPT ![u] = Never])
      BY DEF Login, RevokeAll, Cut, DeleteAccount, Clock
    <2> QED BY <1>1, <2>1, AccountAssumption
  <1>5. rows' \in [Users -> Row]
    <2>1. rows' = rows \/ rows' = [rows EXCEPT ![u].there = FALSE]
      BY DEF Login, RevokeAll, DeleteAccount
    <2> QED BY <1>1, <2>1 DEF Row
  <1>6. /\ granted' \subseteq Users /\ jobs' = jobs /\ toggles' = toggles
        /\ revoked' \subseteq Token /\ erased' \subseteq Users
        /\ left' \in BOOLEAN /\ raced' = raced /\ unsure' = unsure
        /\ unread' = unread
    BY DEF Login, RevokeAll, DeleteAccount, TypeInv, TypeOK, Clock, History
  <1> QED BY <1>2, <1>3, <1>4, <1>5, <1>6 DEF TypeInv, TypeOK, PagesOK

LEMMA FailureType ==
  ASSUME TypeInv, NEW u \in Users,
         LogoutAllFailed(u) \/ DeleteFailed(u) \/ LoadConsentStatus(u)
  PROVE  TypeInv'
  <1> DEFINE p == pages[u]
  <1>1. PagesOK /\ p \in Page
    BY DEF TypeInv, TypeOK, PagesOK
  <1>2. PICK q \in Page : pages' = [pages EXCEPT ![u] = q] /\ q.tok = p.tok
    <2>1. /\ [p EXCEPT !.all = FALSE] \in Page
          /\ [p EXCEPT !.all = FALSE].tok = p.tok
          /\ [p EXCEPT !.del = FALSE] \in Page
          /\ [p EXCEPT !.del = FALSE].tok = p.tok
          /\ [p EXCEPT !.shown = TRUE] \in Page
          /\ [p EXCEPT !.shown = TRUE].tok = p.tok
          /\ [p EXCEPT !.shown = FALSE] \in Page
          /\ [p EXCEPT !.shown = FALSE].tok = p.tok
      BY <1>1 DEF Page
    <2>2. \/ pages' = [pages EXCEPT ![u] = [p EXCEPT !.all = FALSE]]
          \/ pages' = [pages EXCEPT ![u] = [p EXCEPT !.del = FALSE]]
          \/ pages' = [pages EXCEPT ![u] = [p EXCEPT !.shown = TRUE]]
          \/ pages' = [pages EXCEPT ![u] = [p EXCEPT !.shown = FALSE]]
      BY <1>1 DEF LogoutAllFailed, DeleteFailed, LoadConsentStatus, PagesOK
    <2> QED BY <2>1, <2>2
  <1>3. p.tok # None
    BY <1>1 DEF LogoutAllFailed, DeleteFailed, LoadConsentStatus, Here,
                PagesOK, LoginPage
  <1>4. PagesOK'
    BY <1>1, <1>2, <1>3, PageStep
  <1>5. UNCHANGED <<rows, cutoff, granted, jobs, toggles, Clock, History>>
    BY DEF LogoutAllFailed, DeleteFailed, LoadConsentStatus
  <1>6. AnswersFindPage'
    BY <1>1, <1>2, <1>3, <1>5, PagesStayOpen DEF PagesOK
  <1> QED BY <1>4, <1>5, <1>6 DEF TypeInv, TypeOK, PagesOK, Clock, History

LEMMA RowType ==
  ASSUME TypeInv, NEW u \in Users,
         \/ ReadUser(u) \/ SaveUser(u)
         \/ \E v \in Users, r \in Roles : ChangeRole(v, u, r)
  PROVE  TypeInv'
  <1>1. rows' \in [Users -> Row] /\ jobs' \in [Users -> [on : BOOLEAN, row : Row]]
    <2>1. rows \in [Users -> Row] /\ jobs \in [Users -> [on : BOOLEAN, row : Row]]
      BY DEF TypeInv, TypeOK
    <2>2. NoJob \in [on : BOOLEAN, row : Row]
      BY DEF NoJob, NoRow, Row, Roles
    <2>3. CASE ReadUser(u)
      BY <2>1, <2>3 DEF ReadUser
    <2>4. CASE SaveUser(u)
      BY <2>1, <2>2, <2>4 DEF SaveUser
    <2>5. CASE \E v \in Users, r \in Roles : ChangeRole(v, u, r)
      BY <2>1, <2>5 DEF ChangeRole, Row
    <2> QED BY <2>3, <2>4, <2>5
  <1>2. /\ UNCHANGED <<cutoff, granted, pages, toggles, Clock, revoked, erased,
                       left, unsure>>
        /\ raced' \subseteq Users
    BY DEF ReadUser, SaveUser, ChangeRole, TypeInv, TypeOK, History
  <1>3. AnswersFindPage'
    BY <1>2 DEF TypeInv, AnswersFindPage
  <1> QED BY <1>1, <1>2, <1>3 DEF TypeInv, TypeOK, Clock

LEMMA ToggleType ==
  ASSUME TypeInv, NEW c \in Calls, NEW u \in Users, NEW ok \in BOOLEAN,
         Toggle(c, u, ok)
  PROVE  TypeInv'
  <1> DEFINE new == [user |-> u, on |-> ~pages[u].shown, ok |-> ok, here |-> TRUE]
  <1>1. pages[u].shown \in BOOLEAN /\ pages[u].tok # None
    BY DEF Toggle, TypeInv, TypeOK, Page, LoginPage
  <1>2. new \in Asked
    BY <1>1 DEF Asked
  <1>3. toggles' = [toggles EXCEPT ![c] = new]
        /\ toggles' \in [Calls -> Asked \cup {Idle}]
    BY <1>2 DEF Toggle, TypeInv, TypeOK
  <1>4. /\ UNCHANGED <<rows, cutoff, pages, jobs, Clock, revoked, erased, left,
                       raced>>
        /\ granted' \subseteq Users /\ unsure' \subseteq Users
    BY DEF Toggle, TypeInv, TypeOK
  <1>5. AnswersFindPage'
    BY <1>1, <1>3, <1>4 DEF TypeInv, TypeOK, AnswersFindPage
  <1> QED BY <1>3, <1>4, <1>5 DEF TypeInv, TypeOK, Clock

LEMMA AnswerType ==
  ASSUME TypeInv, NEW c \in Calls, ToggleAnswered(c) \/ ToggleLost(c)
  PROVE  TypeInv'
  <1>1. /\ toggles' = [toggles EXCEPT ![c] = Idle]
        /\ UNCHANGED <<rows, cutoff, granted, jobs, Clock, revoked, erased, left,
                       raced>>
    BY DEF ToggleAnswered, ToggleLost, History
  <1>2. toggles[c] \in Asked
    BY DEF ToggleAnswered, ToggleLost, TypeInv, TypeOK
  <1>3. Outcome(toggles[c]) \in BOOLEAN /\ toggles[c].user \in Users
    BY <1>2 DEF Outcome, Asked
  <1>4. /\ pages' \in [Users -> Page]
        /\ \A v \in Users : pages'[v].tok = pages[v].tok
        /\ \A v \in Users : pages[v].tok = None => pages'[v] = pages[v]
    <2>1. CASE ToggleAnswered(c)
      <3>1. pages[toggles[c].user].tok # None
        BY <1>2, <2>1 DEF ToggleAnswered, TypeInv, AnswersFindPage
      <3> QED BY <1>3, <2>1, <3>1 DEF ToggleAnswered, TypeInv, TypeOK, Page
    <2>2. CASE ToggleLost(c)
      BY <2>2 DEF ToggleLost, TypeInv, TypeOK
    <2> QED BY <2>1, <2>2
  <1>5. unsure' \subseteq Users
    BY <1>3 DEF ToggleAnswered, ToggleLost, TypeInv, TypeOK, History
  <1>6. AnswersFindPage'
    BY <1>1, <1>4 DEF TypeInv, TypeOK, AnswersFindPage, Asked
  <1> QED BY <1>1, <1>4, <1>5, <1>6 DEF TypeInv, TypeOK, Clock

LEMMA TickType ==
  ASSUME TypeInv, Tick \/ LookupTurns \/ UNCHANGED vars
  PROVE  TypeInv'
  <1>1. CASE Tick
    <2>1. now' \in 0 .. MaxSec /\ cutoff' \in [Users -> {Never} \cup 0 .. now']
      BY <1>1, AccountAssumption DEF Tick, TypeInv, TypeOK
    <2> QED BY <1>1, <2>1 DEF Tick, TypeInv, TypeOK, History, AnswersFindPage
  <1>2. CASE LookupTurns
    BY <1>2 DEF LookupTurns, TypeInv, TypeOK, History, AnswersFindPage
  <1>3. CASE UNCHANGED vars
    BY <1>3 DEF vars, TypeInv, TypeOK, AnswersFindPage
  <1> QED BY <1>1, <1>2, <1>3

LEMMA NextType ==
  ASSUME TypeInv, [Next]_vars
  PROVE  TypeInv'
  <1>1. ASSUME NEW u \in Users, LogoutAllAnswered(u) \/ DeleteAnswered(u)
        PROVE  TypeInv'
    BY <1>1, LeavePageType DEF LogoutAllAnswered, DeleteAnswered
  <1> QED BY <1>1, RequestType, FailureType, RowType, ToggleType, AnswerType,
             TickType DEF Next

(* The rows, pages, calls and histories keep their types.                  *)
THEOREM TypeCorrect == Spec => []TypeOK
  <1>1. Init => TypeInv
    BY InitType
  <1>2. TypeInv /\ [Next]_vars => TypeInv'
    BY NextType
  <1>3. TypeInv => TypeOK
    BY DEF TypeInv
  <1> QED BY <1>1, <1>2, <1>3, PTL DEF Spec
-----------------------------------------------------------------------------
(* Revocation and erasure.                                                 *)

\* What is on record of a logout of all devices, while the account is there.
RevokedOnRecord ==
  \A t \in revoked :
    t.user \notin raced /\ rows[t.user].there => t.iat <= cutoff[t.user]

Gone == \A u \in erased \ raced : ~rows[u].there

AccountInv == TypeInv /\ RevokedOnRecord /\ Gone

\* What a step does to the row of a user: only a password update brings back
\* one that is gone.
LEMMA RowsComeBackRaced ==
  ASSUME TypeInv, [Next]_vars, NEW u \in Users, u \notin raced', rows'[u].there
  PROVE  rows[u].there /\ u \notin raced
  <1>1. /\ rows \in [Users -> Row] /\ rows[u] \in Row
        /\ raced \subseteq Users
    BY DEF TypeInv, TypeOK
  <1>2. ASSUME NEW v \in Users, SaveUser(v)
        PROVE  rows[u].there /\ u \notin raced
    BY <1>1, <1>2 DEF SaveUser
  <1>3. ASSUME NEW v \in Users, NEW w \in Users, NEW r \in Roles,
               ChangeRole(w, v, r)
        PROVE  rows[u].there /\ u \notin raced
    BY <1>1, <1>3 DEF ChangeRole, MayChange, History
  <1>4. ASSUME NEW v \in Users, DeleteAccount(v)
        PROVE  rows[u].there /\ u \notin raced
    BY <1>1, <1>4 DEF DeleteAccount, Row
  <1>5. CASE rows' = rows /\ raced' = raced
    BY <1>5
  <1> QED BY <1>2, <1>3, <1>4, <1>5
       DEF Next, vars, Login, RevokeAll, LogoutAllAnswered, LogoutAllFailed,
           ReadUser, DeleteAnswered, DeleteFailed, LoadConsentStatus, Toggle,
           ToggleAnswered, ToggleLost, Tick, LookupTurns, Clock, History

\* What a step does to the record of a logout of all devices: it only rises,
\* unless it goes with the account.
LEMMA CutoffRises ==
  ASSUME TypeInv, [Next]_vars, NEW u \in Users, rows'[u].there
  PROVE  cutoff'[u] >= cutoff[u] /\ cutoff[u] \in Int /\ cutoff'[u] \in Int
  <1>1. /\ cutoff \in [Users -> {Never} \cup 0 .. now] /\ now \in 0 .. MaxSec
        /\ rows \in [Users -> Row]
    BY DEF TypeInv, TypeOK
  <1>2. ASSUME NEW v \in Users, RevokeAll(v)
        PROVE  cutoff'[u] >= cutoff[u] /\ cutoff[u] \in Int /\ cutoff'[u] \in Int
    BY <1>1, <1>2, AccountAssumption DEF RevokeAll, Cut, Never
  <1>3. ASSUME NEW v \in Users, DeleteAccount(v)
        PROVE  cutoff'[u] >= cutoff[u] /\ cutoff[u] \in Int /\ cutoff'[u] \in Int
    <2>1. u # v
      BY <1>1, <1>3 DEF DeleteAccount, Row
    <2> QED BY <1>1, <1>3, <2>1, AccountAssumption DEF DeleteAccount, Never
  <1>4. CASE cutoff' = cutoff
    BY <1>1, <1>4, AccountAssumption DEF Never
  <1> QED BY <1>2, <1>3, <1>4
       DEF Next, vars, Login, LogoutAllAnswered, LogoutAllFailed, ReadUser,
           SaveUser, ChangeRole, DeleteAnswered, DeleteFailed,
           LoadConsentStatus, Toggle, ToggleAnswered, ToggleLost, Tick,
           LookupTurns, Clock

LEMMA RevokedStep ==
  ASSUME AccountInv, [Next]_vars
  PROVE  RevokedOnRecord'
  <1> SUFFICES ASSUME NEW t \in revoked', t.user \notin raced',
                      rows'[t.user].there
               PROVE  t.iat <= cutoff'[t.user]
    BY DEF RevokedOnRecord
  <1>1. TypeInv /\ RevokedOnRecord /\ revoked \subseteq Token
    BY DEF AccountInv, TypeInv, TypeOK
  <1>2. CASE t \in revoked
    <2>1. t.user \in Users /\ t.iat \in Int
      BY <1>1, <1>2, AccountAssumption DEF Token
    <2>2. rows[t.user].there /\ t.user \notin raced
      BY <1>1, <2>1, RowsComeBackRaced
    <2>3. t.iat <= cutoff[t.user]
      BY <1>1, <1>2, <2>2 DEF RevokedOnRecord
    <2>4. cutoff'[t.user] >= cutoff[t.user] /\ cutoff[t.user] \in Int
          /\ cutoff'[t.user] \in Int
      BY <1>1, <2>1, CutoffRises
    <2> QED BY <2>1, <2>3, <2>4
  <1>3. CASE t \notin revoked
    <2>1. PICK v \in Users : RevokeAll(v)
      BY <1>3 DEF Next, vars, Login, LogoutAllAnswered, LogoutAllFailed,
           ReadUser, SaveUser, ChangeRole, DeleteAccount, DeleteAnswered,
           DeleteFailed, LoadConsentStatus, Toggle, ToggleAnswered, ToggleLost,
           Tick, LookupTurns, Clock, History
    <2>2. t.user = v /\ t.iat <= now /\ cutoff' = [cutoff EXCEPT ![v] = now]
      BY <1>3, <2>1 DEF RevokeAll, Cut
    <2>3. cutoff'[v] = now
      BY <2>2 DEF AccountInv, TypeInv, TypeOK
    <2> QED BY <2>2, <2>3
  <1> QED BY <1>2, <1>3

LEMMA GoneStep ==
  ASSUME AccountInv, [Next]_vars
  PROVE  Gone'
  <1> SUFFICES ASSUME NEW u \in erased', u \notin raced', rows'[u].there
               PROVE  FALSE
    BY DEF Gone
  <1>1. TypeInv /\ Gone /\ erased \subseteq Users
    BY DEF AccountInv, TypeInv, TypeOK
  <1>2. CASE u \in erased
    <2>1. u \in Users
      BY <1>1, <1>2
    <2>2. rows[u].there /\ u \notin raced
      BY <1>1, <2>1, RowsComeBackRaced
    <2> QED BY <1>1, <1>2, <2>2 DEF Gone
  <1>3. CASE u \notin erased
    <2>1. DeleteAccount(u) /\ u \in Users
      BY <1>3 DEF Next, vars, Login, RevokeAll, LogoutAllAnswered,
           LogoutAllFailed, ReadUser, SaveUser, ChangeRole, DeleteAccount,
           DeleteAnswered, DeleteFailed, LoadConsentStatus, Toggle,
           ToggleAnswered, ToggleLost, Tick, LookupTurns, Clock, History
    <2>2. rows \in [Users -> Row] /\ rows' = [rows EXCEPT ![u].there = FALSE]
      BY <1>1, <2>1 DEF DeleteAccount, TypeInv, TypeOK
    <2> QED BY <2>1, <2>2 DEF Row
  <1> QED BY <1>2, <1>3

LEMMA AccountInvariance == Spec => []AccountInv
  <1>1. Init => AccountInv
    BY InitType DEF Init, AccountInv, RevokedOnRecord, Gone
  <1>2. AccountInv /\ [Next]_vars => AccountInv'
    BY NextType, RevokedStep, GoneStep DEF AccountInv
  <1> QED BY <1>1, <1>2, PTL DEF Spec

(* Whatever the number of devices, users and admins, a token that a logout *)
(* of all devices was to end is not accepted while that can be read, not   *)
(* even after it was let through, unless a password update put the user    *)
(* row back.                                                               *)
THEOREM RevocationHolds == Spec => []RevokedStaysRevoked
  <1>1. ASSUME AccountInv, ~unread, NEW t \in revoked, t.user \notin raced
        PROVE  ~Accepts(t)
    <2>1. t \in Token /\ cutoff \in [Users -> {Never} \cup 0 .. now]
          /\ now \in 0 .. MaxSec
      BY <1>1 DEF AccountInv, TypeInv, TypeOK
    <2>2. t.iat \in Int /\ cutoff[t.user] \in Int
      BY <2>1, AccountAssumption DEF Token, Never
    <2>3. rows[t.user].there => t.iat <= cutoff[t.user]
      BY <1>1 DEF AccountInv, RevokedOnRecord
    <2> QED BY <1>1, <2>2, <2>3 DEF Accepts
  <1>2. AccountInv => RevokedStaysRevoked
    BY <1>1 DEF RevokedStaysRevoked
  <1> QED BY AccountInvariance, <1>2, PTL

(* An erased account stays erased, unless a password update had read its   *)
(* row before.                                                             *)
THEOREM ErasureHolds == Spec => []ErasedStaysErased
  <1>1. AccountInv => ErasedStaysErased
    BY DEF AccountInv, Gone, ErasedStaysErased
  <1> QED BY AccountInvariance, <1>1, PTL

-----------------------------------------------------------------------------
(* Admins.                                                                 *)

LEMMA AdminStep ==
  ASSUME TypeInv, AlwaysAnAdmin, [Next]_vars
  PROVE  AlwaysAnAdmin'
  <1>1. rows \in [Users -> Row] /\ raced \subseteq Users
    BY DEF TypeInv, TypeOK
  <1>2. ASSUME NEW u \in Users, SaveUser(u)
        PROVE  AlwaysAnAdmin'
    BY <1>1, <1>2 DEF SaveUser, AlwaysAnAdmin, Admins
  <1>3. ASSUME NEW v \in Users, NEW u \in Users, NEW r \in Roles,
               ChangeRole(v, u, r)
        PROVE  AlwaysAnAdmin'
    <2>1. /\ rows' = [rows EXCEPT ![u] = [there |-> TRUE, role |-> r]]
          /\ UNCHANGED <<left, raced>>
          /\ u \in Admins /\ r # "ADMIN" => Admins \ {u} # {}
      BY <1>3 DEF ChangeRole, MayChange, History
    <2>2. Admins \ {u} \subseteq Admins'
      BY <1>1, <2>1 DEF Admins
    <2>3. r = "ADMIN" => u \in Admins'
      BY <1>1, <2>1 DEF Admins
    <2> QED BY <2>1, <2>2, <2>3 DEF AlwaysAnAdmin
  <1>4. ASSUME NEW u \in Users, DeleteAccount(u)
        PROVE  AlwaysAnAdmin'
    <2>1. /\ rows' = [rows EXCEPT ![u].there = FALSE]
          /\ left' = (left \/ rows[u].role = "ADMIN") /\ raced' = raced
      BY <1>4 DEF DeleteAccount
    <2>2. rows[u].role # "ADMIN" => Admins \subseteq Admins'
      BY <1>1, <2>1 DEF Admins
    <2> QED BY <2>1, <2>2 DEF AlwaysAnAdmin
  <1>5. CASE UNCHANGED <<rows, left, raced>>
    BY <1>5 DEF AlwaysAnAdmin, Admins
  <1> QED BY <1>2, <1>3, <1>4, <1>5
       DEF Next, vars, Login, RevokeAll, LogoutAllAnswered, LogoutAllFailed,
           ReadUser, DeleteAnswered, DeleteFailed, LoadConsentStatus, Toggle,
           ToggleAnswered, ToggleLost, Tick, LookupTurns, Clock, History

(* Role changes never take the last admin, however many admins make them   *)
(* at once.                                                                *)
THEOREM AdminRemains == Spec => []AlwaysAnAdmin
  <1> DEFINE I == TypeInv /\ AlwaysAnAdmin
  <1>1. ASSUME Init PROVE I
    <2>1. FirstAdmin \in Admins
      BY <1>1, AccountAssumption DEF Init, Admins
    <2> QED BY <1>1, <2>1, InitType DEF AlwaysAnAdmin
  <1>2. I /\ [Next]_vars => I'
    BY NextType, AdminStep
  <1>3. I => AlwaysAnAdmin
    OBVIOUS
  <1> QED BY <1>1, <1>2, <1>3, PTL DEF Spec

-----------------------------------------------------------------------------
(* The analytics switch.                                                   *)

\* At most one call is under way for a user, and its answer puts the switch
\* where the record is.
SwitchFollows(u) ==
  /\ \A c, d \in Under(u) : c = d
  /\ \A c \in Under(u) : toggles[c].here =>
       (Outcome(toggles[c]) <=> u \in granted)
  /\ Under(u) = {} /\ pages[u].shown # None =>
       (pages[u].shown <=> u \in granted)

SwitchInv == TypeInv /\ \A u \in Users \ (unsure \cup erased) : SwitchFollows(u)
\* Steps that change neither calls nor records, and of u's page at most what is
\* not the switch -- or load it, or leave the page.
LEMMA SwitchQuiet ==
  ASSUME TypeInv, NEW u \in Users, SwitchFollows(u), toggles' = toggles,
         u \in granted' <=> u \in granted,
         \/ pages'[u].shown = pages[u].shown
         \/ pages'[u].shown = (u \in granted)
  PROVE  SwitchFollows(u)'
  <1>1. Under(u)' = Under(u)
    BY DEF Under
  <1>2. \A c : Outcome(toggles[c])' = Outcome(toggles[c])
    BY DEF Outcome
  <1> QED BY <1>1, <1>2 DEF SwitchFollows

LEMMA SwitchLeave ==
  ASSUME TypeInv, NEW u \in Users, SwitchFollows(u), NEW v \in Users,
         LeavePage(v), granted' = granted
  PROVE  SwitchFollows(u)'
  <1>1. /\ pages \in [Users -> Page] /\ toggles \in [Calls -> Asked \cup {Idle}]
        /\ pages' = [pages EXCEPT ![v] = LoginPage]
        /\ toggles' = [c \in Calls |->
             IF toggles[c] # Idle /\ toggles[c].user = v
               THEN [toggles[c] EXCEPT !.here = FALSE] ELSE toggles[c]]
    BY DEF LeavePage, TypeInv, TypeOK
  <1>2. ASSUME NEW c \in Calls
        PROVE  /\ c \in Under(u)' <=> c \in Under(u)
               /\ c \in Under(u) /\ toggles'[c].here =>
                    toggles[c].here /\ toggles'[c] = toggles[c]
    <2>1. CASE toggles[c] = Idle
      BY <1>1, <2>1 DEF Under
    <2>2. CASE toggles[c] \in Asked /\ toggles[c].user = v /\ toggles[c] # Idle
      <3>1. /\ toggles'[c] = [toggles[c] EXCEPT !.here = FALSE]
            /\ toggles'[c] \in Asked /\ toggles'[c].user = v
            /\ toggles'[c].here = FALSE
        BY <1>1, <2>2 DEF Asked
      <3> QED BY <2>2, <3>1, AccountAssumption DEF Under
    <2>3. CASE toggles[c] \in Asked /\ toggles[c].user # v
      BY <1>1, <2>3 DEF Under
    <2> QED BY <1>1, <2>1, <2>2, <2>3
  <1>3. Under(u)' = Under(u)
    BY <1>2 DEF Under
  <1>4. pages'[u].shown # None => pages'[u] = pages[u]
    BY <1>1 DEF LoginPage
  <1>5. \A c \in Under(u) : toggles'[c].here =>
           (Outcome(toggles[c])' <=> u \in granted')
    <2> TAKE c \in Under(u)
    <2> HAVE toggles'[c].here
    <2>1. c \in Calls /\ toggles[c].here /\ toggles'[c] = toggles[c]
      BY <1>2 DEF Under
    <2>2. Outcome(toggles[c]) <=> u \in granted
      BY <2>1 DEF SwitchFollows
    <2> QED BY <2>1, <2>2 DEF Outcome
  <1>6. /\ \A c, d \in Under(u) : c = d
        /\ Under(u) = {} /\ pages'[u].shown # None =>
             (pages'[u].shown <=> u \in granted')
    BY <1>4 DEF SwitchFollows
  <1> QED BY <1>3, <1>5, <1>6 DEF SwitchFollows

LEMMA SwitchToggle ==
  ASSUME TypeInv, NEW u \in Users, SwitchFollows(u), u \notin unsure',
         NEW c \in Calls, NEW v \in Users, NEW ok \in BOOLEAN, Toggle(c, v, ok)
  PROVE  SwitchFollows(u)'
  <1> DEFINE new == [user |-> v, on |-> ~pages[v].shown, ok |-> ok, here |-> TRUE]
  <1>1. /\ pages \in [Users -> Page] /\ toggles \in [Calls -> Asked \cup {Idle}]
        /\ pages' = pages /\ toggles' = [toggles EXCEPT ![c] = new]
        /\ pages[v].shown # None /\ toggles[c] = Idle
        /\ granted' = IF ~ok THEN granted
                      ELSE IF pages[v].shown THEN granted \ {v}
                      ELSE granted \cup {v}
        /\ unsure' = IF Under(v) # {} THEN unsure \cup {v} ELSE unsure
    BY DEF Toggle, TypeInv, TypeOK
  <1>2. pages[v].shown \in BOOLEAN
    BY <1>1 DEF Page
  <1>3. new \in Asked /\ new # Idle /\ new.user = v
    <2>1. new \in Asked
      BY <1>2 DEF Asked
    <2> QED BY <2>1, AccountAssumption
  <1>4. CASE u # v
    <2>1. u \in granted' <=> u \in granted
      BY <1>1, <1>4
    <2>2. Under(u)' = Under(u) /\ c \notin Under(u)
      BY <1>1, <1>3, <1>4 DEF Under
    <2>3. \A d \in Under(u) : toggles'[d] = toggles[d]
      BY <1>1, <2>2 DEF Under
    <2> QED BY <1>1, <2>1, <2>2, <2>3 DEF SwitchFollows, Outcome
  <1>5. CASE u = v
    <2>1. Under(u) = {}
      BY <1>1, <1>5
    <2>2. Under(u)' = {c}
      BY <1>1, <1>3, <1>5, <2>1 DEF Under
    <2>3. pages[u].shown <=> u \in granted
      BY <1>1, <1>5, <2>1 DEF SwitchFollows
    <2>4. toggles'[c] = new
      BY <1>1
    <2>5. Outcome(new) <=> u \in granted'
      <3>1. CASE ok
        BY <1>1, <1>5, <2>3, <3>1 DEF Outcome
      <3>2. CASE ~ok
        BY <1>1, <1>5, <2>3, <3>2 DEF Outcome
      <3> QED BY <3>1, <3>2
    <2> QED BY <2>2, <2>4, <2>5 DEF SwitchFollows, Outcome
  <1> QED BY <1>4, <1>5

LEMMA SwitchAnswer ==
  ASSUME TypeInv, NEW u \in Users, SwitchFollows(u), u \notin unsure',
         NEW c \in Calls, ToggleAnswered(c) \/ ToggleLost(c)
  PROVE  SwitchFollows(u)'
  <1> DEFINE v == toggles[c].user
  <1>1. /\ pages \in [Users -> Page] /\ toggles \in [Calls -> Asked \cup {Idle}]
        /\ toggles[c] # Idle /\ toggles' = [toggles EXCEPT ![c] = Idle]
        /\ granted' = granted /\ toggles[c] \in Asked /\ v \in Users
    BY DEF ToggleAnswered, ToggleLost, TypeInv, TypeOK, Asked
  <1>2. /\ Under(u)' = Under(u) \ {c} /\ c \in Under(v)
        /\ \A d \in Under(u) \ {c} : toggles'[d] = toggles[d]
    BY <1>1 DEF Under
  <1>3. CASE u # v
    <2>1. c \notin Under(u)
      BY <1>3 DEF Under
    <2>2. pages'[u] = pages[u]
      BY <1>1, <1>3 DEF ToggleAnswered, ToggleLost
    <2> QED BY <1>1, <1>2, <2>1, <2>2 DEF SwitchFollows, Outcome
  <1>4. CASE u = v
    <2>1. ToggleAnswered(c)
      BY <1>4 DEF ToggleLost
    <2>2. pages'[u].shown = Outcome(toggles[c]) /\ toggles[c].here
      BY <1>1, <1>4, <2>1 DEF ToggleAnswered, Page
    <2>3. Under(u)' = {}
      BY <1>2, <1>4 DEF SwitchFollows
    <2>4. Outcome(toggles[c]) <=> u \in granted
      BY <1>2, <1>4, <2>2 DEF SwitchFollows
    <2> QED BY <1>1, <2>2, <2>3, <2>4 DEF SwitchFollows
  <1> QED BY <1>3, <1>4

LEMMA SwitchStep ==
  ASSUME SwitchInv, [Next]_vars
  PROVE  SwitchInv'
  <1>1. TypeInv /\ TypeInv' /\ pages \in [Users -> Page]
        /\ unsure \subseteq Users /\ erased \subseteq Users
    BY NextType DEF SwitchInv, TypeInv, TypeOK
  <1> SUFFICES ASSUME NEW u \in Users \ (unsure' \cup erased')
               PROVE  SwitchFollows(u)'
    BY <1>1 DEF SwitchInv
  <1>2. unsure \subseteq unsure' /\ erased \subseteq erased'
    BY DEF Next, vars, Login, RevokeAll, LogoutAllAnswered, LogoutAllFailed,
           ReadUser, SaveUser, ChangeRole, DeleteAccount, DeleteAnswered,
           DeleteFailed, LoadConsentStatus, Toggle, ToggleAnswered, ToggleLost,
           Tick, LookupTurns, Clock, History
  <1>3. u \in Users /\ u \notin unsure' /\ SwitchFollows(u)
    BY <1>2 DEF SwitchInv
  <1>4. ASSUME NEW v \in Users, LogoutAllAnswered(v) \/ DeleteAnswered(v)
        PROVE  SwitchFollows(u)'
    BY <1>1, <1>3, <1>4, SwitchLeave DEF LogoutAllAnswered, DeleteAnswered
  <1>5. ASSUME NEW c \in Calls, NEW v \in Users, NEW ok \in BOOLEAN,
               Toggle(c, v, ok)
        PROVE  SwitchFollows(u)'
    BY <1>1, <1>3, <1>5, SwitchToggle
  <1>6. ASSUME NEW c \in Calls, ToggleAnswered(c) \/ ToggleLost(c)
        PROVE  SwitchFollows(u)'
    BY <1>1, <1>3, <1>6, SwitchAnswer
  <1>7. ASSUME NEW v \in Users,
               Login(v) \/ RevokeAll(v) \/ LogoutAllFailed(v) \/ DeleteFailed(v)
        PROVE  SwitchFollows(u)'
    <2>1. toggles' = toggles /\ granted' = granted
      BY <1>7 DEF Login, RevokeAll, LogoutAllFailed, DeleteFailed
    <2>2. pages'[u].shown = pages[u].shown
      BY <1>1, <1>7 DEF Login, RevokeAll, LogoutAllFailed, DeleteFailed, Page
    <2> QED BY <1>1, <1>3, <2>1, <2>2, SwitchQuiet
  <1>8. ASSUME NEW v \in Users, LoadConsentStatus(v)
        PROVE  SwitchFollows(u)'
    <2>1. toggles' = toggles /\ granted' = granted
      BY <1>8 DEF LoadConsentStatus
    <2>2. pages'[u].shown = pages[u].shown \/ pages'[u].shown = (u \in granted)
      BY <1>1, <1>8 DEF LoadConsentStatus, Page
    <2> QED BY <1>1, <1>3, <2>1, <2>2, SwitchQuiet
  <1>9. ASSUME NEW v \in Users, DeleteAccount(v)
        PROVE  SwitchFollows(u)'
    <2>1. /\ toggles' = toggles /\ granted' = granted \ {v} /\ u # v
          /\ pages' = [pages EXCEPT ![v].del = TRUE]
      BY <1>9 DEF DeleteAccount
    <2> QED BY <1>1, <1>3, <2>1, SwitchQuiet
  <1>10. CASE UNCHANGED <<toggles, granted, pages>>
    BY <1>1, <1>3, <1>10, SwitchQuiet
  <1> QED BY <1>4, <1>5, <1>6, <1>7, <1>8, <1>9, <1>10
       DEF Next, vars, ReadUser, SaveUser, ChangeRole, Tick, LookupTurns, Clock

(* The analytics switch shows what is on record, for all users at once,    *)
(* whatever else happens to their accounts.                                *)
THEOREM SwitchIsHonest == Spec => []SwitchShowsRecord
  <1>1. ASSUME Init PROVE SwitchInv
    <2>1. ASSUME NEW u \in Users PROVE Under(u) = {} /\ pages[u].shown = None
      BY <1>1 DEF Init, Under, LoginPage
    <2> QED BY <1>1, <2>1, InitType DEF SwitchInv, SwitchFollows
  <1>2. SwitchInv /\ [Next]_vars => SwitchInv'
    BY SwitchStep
  <1>3. ASSUME SwitchInv PROVE SwitchShowsRecord
    <2> SUFFICES ASSUME NEW u \in Users \ (unsure \cup erased), Under(u) = {},
                        pages[u].shown # None
                 PROVE  pages[u].shown = (u \in granted)
      BY DEF SwitchShowsRecord
    <2>1. pages[u].shown <=> u \in granted
      BY <1>3 DEF SwitchInv, SwitchFollows
    <2>2. pages[u].shown \in BOOLEAN
      BY <1>3 DEF SwitchInv, TypeInv, TypeOK, Page
    <2> QED BY <2>1, <2>2
  <1> QED BY <1>1, <1>2, <1>3, PTL DEF Spec
=============================================================================
