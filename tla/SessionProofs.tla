--------------------------- MODULE SessionProofs ---------------------------
(***************************************************************************)
(* Proofs about Session, for every set of tabs and users, every assignment *)
(* of roles and every number of tokens.                                    *)
(***************************************************************************)
EXTENDS Session, TLAPS

-----------------------------------------------------------------------------
(* Types.                                                                  *)

Stored == Issued \cup {None}

\* A tab that is logging out has no session to restore or to log out of.  What
\* it asks to be revoked was issued.
Sound(r) == /\ r.out # "no" => r.up /\ r.tok = None
            /\ r.revoke \in Stored

\* Types, and that what storage, cookie and logouts hold was issued.
TypeInv ==
  /\ TypeOK
  /\ store \in Stored /\ cookie \in Stored
  /\ \A i \in Tabs : Sound(tabs[i])

LEMMA LoadedType ==
  ASSUME NEW p \in Pages
  PROVE  Loaded(p) \in Tab /\ Sound(Loaded(p))
  BY DEF Loaded, Tab, NoGet, Sound, Stored

LEMMA RoutedType ==
  ASSUME NEW p \in Pages, NEW role
  PROVE  Routed(p, role) \in Pages
  BY DEF Routed, Pages

LEMMA LandingType ==
  ASSUME NEW u \in Users
  PROVE  Landing(u) \in Pages
  BY DEF Landing, Pages

LEMMA TabKinds ==
  ASSUME NEW r \in Tab
  PROVE  /\ \A p \in Pages : [r EXCEPT !.page = p] \in Tab
         /\ \A t \in Tokens \cup {None} : /\ [r EXCEPT !.up = TRUE, !.tok = t] \in Tab
                                          /\ [r EXCEPT !.get = GetWith(t)] \in Tab
         /\ \A u \in Users \cup {None} : [r EXCEPT !.sign = u] \in Tab
         /\ [r EXCEPT !.get = NoGet] \in Tab
  BY DEF Tab, GetWith, NoGet

LEMMA TabStep ==
  ASSUME TypeInv, NEW i \in Tabs, NEW r \in Tab, Sound(r),
         tabs' = [tabs EXCEPT ![i] = r]
  PROVE  /\ tabs' \in [Tabs -> Tab]
         /\ \A j \in Tabs : Sound(tabs'[j])
  BY DEF TypeInv, TypeOK

LEMMA InitType == ASSUME Init PROVE TypeInv
  <1>1. Loaded("/login") \in Tab /\ Sound(Loaded("/login"))
    BY LoadedType DEF Pages
  <1> QED BY <1>1 DEF Init, TypeInv, TypeOK, Sound, Stored, Issued
\* Steps that change one tab and nothing else.
TabOnly ==
  /\ \E i \in Tabs : \E r \in Tab :
       tabs' = [tabs EXCEPT ![i] = r] /\ r.out = tabs[i].out /\ Sound(r)
  /\ UNCHANGED <<store, cookie, cache, Server>>

LEMMA TabOnlySteps ==
  ASSUME TypeInv, NEW i \in Tabs,
         \/ \E p \in Pages : Follow(i, p)
         \/ \E u \in Users : Submit(i, u)
         \/ SignInFailed(i) \/ Get(i) \/ GetFromCache(i)
  PROVE  TabOnly
  <1> DEFINE r == tabs[i]
  <1>1. /\ r \in Tab /\ Sound(r) /\ store \in Tokens \cup {None}
        /\ tabs \in [Tabs -> Tab]
    BY DEF TypeInv, TypeOK
  <1>3. ASSUME NEW p \in Pages, Follow(i, p) PROVE TabOnly
    <2> DEFINE n == Routed(p, RoleOf(cookie))
               q == [r EXCEPT !.page = n]
    <2>1. n \in Pages
      BY RoutedType
    <2>2. /\ tabs' = [tabs EXCEPT ![i] = q]
          /\ UNCHANGED <<store, cookie, cache, Server>>
      BY <1>1, <1>3 DEF Follow
    <2> HIDE DEF n
    <2>3. q \in Tab /\ Sound(q) /\ q.out = r.out
      BY <1>1, <2>1, TabKinds DEF Tab, Sound
    <2> QED BY <2>2, <2>3 DEF TabOnly
  <1>4. ASSUME NEW u \in Users \cup {None},
               tabs' = [tabs EXCEPT ![i] = [r EXCEPT !.sign = u]],
               UNCHANGED <<store, cookie, cache, Server>>
        PROVE  TabOnly
    <2>1. /\ [r EXCEPT !.sign = u] \in Tab
          /\ Sound([r EXCEPT !.sign = u])
          /\ [r EXCEPT !.sign = u].out = r.out
      BY <1>1, TabKinds DEF Tab, Sound
    <2> QED BY <1>4, <2>1 DEF TabOnly
  <1>5. ASSUME NEW u \in Users, Submit(i, u) PROVE TabOnly
    BY <1>1, <1>4, <1>5 DEF Submit
  <1>6. CASE SignInFailed(i)
    BY <1>1, <1>4, <1>6 DEF SignInFailed
  <1>7. CASE Get(i)
    <2> DEFINE q == [r EXCEPT !.get = GetWith(store)]
    <2>1. q \in Tab /\ Sound(q) /\ q.out = r.out
      BY <1>1, TabKinds DEF Tab, Sound
    <2>2. tabs' = [tabs EXCEPT ![i] = q] /\ UNCHANGED <<store, cookie, cache, Server>>
      BY <1>1, <1>7 DEF Get
    <2> QED BY <2>1, <2>2 DEF TabOnly
  <1>8. CASE GetFromCache(i)
    <2> DEFINE q == [r EXCEPT !.get = NoGet]
    <2>1. q \in Tab /\ Sound(q) /\ q.out = r.out
      BY <1>1, TabKinds DEF Tab, Sound
    <2>2. tabs' = [tabs EXCEPT ![i] = q] /\ UNCHANGED <<store, cookie, cache, Server>>
      BY <1>1, <1>8 DEF GetFromCache
    <2> QED BY <2>1, <2>2 DEF TabOnly
  <1> QED BY <1>3, <1>5, <1>6, <1>7, <1>8

LEMMA TabOnlyType == ASSUME TypeInv, TabOnly PROVE TypeInv'
  <1>1. PICK i \in Tabs, r \in Tab :
          tabs' = [tabs EXCEPT ![i] = r] /\ Sound(r)
    BY DEF TabOnly
  <1>3. tabs' \in [Tabs -> Tab] /\ \A j \in Tabs : Sound(tabs'[j])
    BY <1>1, TabStep
  <1> QED BY <1>3 DEF TabOnly, TypeInv, TypeOK, Sound, Stored, Issued, Server, Tokened

LEMMA VisitType ==
  ASSUME TypeInv, NEW i \in Tabs, NEW p \in Pages, Visit(i, p)
  PROVE  TypeInv'
  <1> DEFINE q == Loaded(Routed(p, RoleOf(cookie)))
  <1>1. q \in Tab /\ Sound(q)
    BY LoadedType, RoutedType
  <1>2. /\ tabs' = [tabs EXCEPT ![i] = q] /\ strays' \in BOOLEAN
        /\ UNCHANGED <<store, cookie, cache, owner, late, revoked, ended>>
    BY DEF Visit, Tokened, Keeps, TypeInv, TypeOK
  <1>3. tabs' \in [Tabs -> Tab] /\ \A j \in Tabs : Sound(tabs'[j])
    BY <1>1, <1>2, TabStep
  <1> QED BY <1>2, <1>3 DEF TypeInv, TypeOK, Sound, Stored, Issued

LEMMA LogOutType ==
  ASSUME TypeInv, NEW i \in Tabs, LogOut(i)
  PROVE  TypeInv'
  <1> DEFINE r == LoggingOut(i)
  <1>1. tabs[i] \in Tab /\ tabs \in [Tabs -> Tab] /\ store \in Tokens \cup {None}
    BY DEF TypeInv, TypeOK
  <1>4. store \in Stored
    BY DEF TypeInv
  <1>2. r \in Tab /\ Sound(r)
    BY <1>1, <1>4 DEF Tab, LoggingOut, Sound
  <1>3. tabs' = [tabs EXCEPT ![i] = r]
    BY DEF LogOut
  <1>5. tabs' \in [Tabs -> Tab] /\ \A j \in Tabs : Sound(tabs'[j])
    BY <1>2, <1>3, TabStep
  <1> QED BY <1>5 DEF LogOut, TypeInv, TypeOK, Sound, Stored, Issued, Tokened

LEMMA RestoreType ==
  ASSUME TypeInv, NEW i \in Tabs, Restore(i)
  PROVE  TypeInv'
  <1> DEFINE r == [tabs[i] EXCEPT !.up = TRUE, !.tok = store]
  <1>1. tabs[i] \in Tab /\ tabs \in [Tabs -> Tab] /\ store \in Tokens \cup {None}
    BY DEF TypeInv, TypeOK
  <1>4. Sound(tabs[i]) /\ ~tabs[i].up
    BY DEF TypeInv, Restore
  <1>2. r \in Tab /\ Sound(r)
    BY <1>1, <1>4 DEF Tab, Sound
  <1>3. tabs' = [tabs EXCEPT ![i] = r]
    BY <1>1 DEF Restore
  <1>5. tabs' \in [Tabs -> Tab] /\ \A j \in Tabs : Sound(tabs'[j])
    BY <1>2, <1>3, <1>4, TabStep
  <1>6. cookie' \in Tokens \cup {None} /\ cookie' \in Stored
    BY <1>1 DEF Restore, TypeInv, TypeOK
  <1> QED BY <1>5, <1>6 DEF Restore, TypeInv, TypeOK, Sound, Stored, Issued, Server, Tokened

LEMMA RevokeType ==
  ASSUME TypeInv, NEW i \in Tabs, Revoke(i)
  PROVE  TypeInv'
  <1> DEFINE r == [tabs[i] EXCEPT !.revoke = None]
  <1>1. tabs[i] \in Tab /\ tabs \in [Tabs -> Tab] /\ Sound(tabs[i])
    BY DEF TypeInv, TypeOK
  <1>2. r \in Tab /\ Sound(r)
    BY <1>1 DEF Tab, Sound, Stored, Revoke
  <1>3. tabs' = [tabs EXCEPT ![i] = r]
    BY <1>1 DEF Revoke
  <1>4. tabs' \in [Tabs -> Tab] /\ \A j \in Tabs : Sound(tabs'[j])
    BY <1>2, <1>3, TabStep
  <1>5. revoked' \subseteq Issued
    BY <1>1 DEF Revoke, Sound, TypeInv, TypeOK, Stored
  <1> QED BY <1>4, <1>5 DEF Revoke, TypeInv, TypeOK, Sound, Stored, Issued

LEMMA LogoutAnsweredType ==
  ASSUME TypeInv, NEW i \in Tabs, LogoutAnswered(i)
  PROVE  TypeInv'
  <1> DEFINE r == [tabs[i] EXCEPT !.out = "wiping", !.revoke = None]
  <1>1. tabs[i] \in Tab /\ tabs \in [Tabs -> Tab] /\ Sound(tabs[i])
    BY DEF TypeInv, TypeOK
  <1>2. r \in Tab /\ Sound(r)
    BY <1>1 DEF Tab, Sound, Stored, LogoutAnswered
  <1>3. tabs' = [tabs EXCEPT ![i] = r]
    BY <1>1 DEF LogoutAnswered
  <1>4. tabs' \in [Tabs -> Tab] /\ \A j \in Tabs : Sound(tabs'[j])
    BY <1>2, <1>3, TabStep
  <1>5. ended' \subseteq Issued
    BY DEF LogoutAnswered, TypeInv, TypeOK, Stored
  <1>6. /\ UNCHANGED <<cache, owner, late, revoked, strays>>
        /\ store' = None /\ cookie' = None
    BY DEF LogoutAnswered, Cleared, Tokened
  <1> QED BY <1>4, <1>5, <1>6 DEF TypeInv, TypeOK, Sound, Stored, Issued

LEMMA FinishLogoutType ==
  ASSUME TypeInv, NEW i \in Tabs, FinishLogout(i)
  PROVE  TypeInv'
  <1>1. Loaded("/login") \in Tab /\ Sound(Loaded("/login"))
    BY LoadedType DEF Pages
  <1>2. tabs' = [tabs EXCEPT ![i] = Loaded("/login")]
    BY DEF FinishLogout
  <1>3. tabs' \in [Tabs -> Tab] /\ \A j \in Tabs : Sound(tabs'[j])
    BY <1>1, <1>2, TabStep
  <1>4. /\ UNCHANGED <<store, cookie, owner, late, revoked, ended>>
        /\ cache' \in {cache, None} /\ strays' \in BOOLEAN
    BY DEF FinishLogout, Wiped, Keeps, Tokened, TypeInv, TypeOK
  <1> QED BY <1>3, <1>4 DEF TypeInv, TypeOK, Sound, Stored, Issued

LEMMA DroppedType ==
  ASSUME TypeInv, NEW i \in Tabs, Dropped(i)
  PROVE  TypeInv'
  <1> DEFINE r == IF tabs[i].page = "/login" THEN [tabs[i] EXCEPT !.sign = None]
                  ELSE Loaded("/login")
  <1>1. tabs[i] \in Tab /\ tabs \in [Tabs -> Tab] /\ Sound(tabs[i])
    BY DEF TypeInv, TypeOK
  <1>2. r \in Tab /\ Sound(r)
    <2>1. Loaded("/login") \in Tab /\ Sound(Loaded("/login"))
      BY LoadedType DEF Pages
    <2>2. /\ [tabs[i] EXCEPT !.sign = None] \in Tab
          /\ Sound([tabs[i] EXCEPT !.sign = None])
      BY <1>1, TabKinds DEF Tab, Sound, Sound
    <2> QED BY <1>1, <2>1, <2>2
  <1>3. tabs' = [tabs EXCEPT ![i] = r]
    BY <1>1 DEF Dropped
  <1>4. tabs' \in [Tabs -> Tab] /\ \A j \in Tabs : Sound(tabs'[j])
    BY <1>2, <1>3, TabStep
  <1> QED BY <1>4 DEF Dropped, Tokened, TypeInv, TypeOK, Sound, Stored, Issued

LEMMA SignedInType ==
  ASSUME TypeInv, NEW i \in Tabs, NEW t \in Tokens, SignedIn(i, t)
  PROVE  TypeInv' /\ t \notin Issued
  <1> DEFINE u == tabs[i].sign
             r == Loaded(Routed(Landing(u), Role[u]))
  <1>1. tabs[i] \in Tab /\ owner \in [Tokens -> Users \cup {None}]
    BY DEF TypeInv, TypeOK
  <1>2. u \in Users /\ u # None
    BY <1>1 DEF SignedIn, Tab
  <1>3. r \in Tab /\ Sound(r)
    BY <1>2, LandingType, RoutedType, LoadedType
  <1>4. tabs' = [tabs EXCEPT ![i] = r]
    BY DEF SignedIn
  <1>5. owner' = [owner EXCEPT ![t] = u] /\ owner[t] = None
    BY SessionAssumption DEF SignedIn, Tokens
  <1>6. /\ owner' \in [Tokens -> Users \cup {None}]
        /\ Issued' = Issued \cup {t} /\ t \notin Issued
    BY <1>1, <1>2, <1>5 DEF Issued
  <1>7. tabs' \in [Tabs -> Tab] /\ \A j \in Tabs : Sound(tabs'[j])
    BY <1>3, <1>4, TabStep
  <1>8. store' = t /\ cookie' = t /\ strays' \in BOOLEAN
        /\ UNCHANGED <<cache, late, revoked, ended>>
    BY DEF SignedIn, Keeps, TypeInv, TypeOK
  <1> QED BY <1>6, <1>7, <1>8 DEF TypeInv, TypeOK, Sound, Stored

LEMMA GetAnsweredType ==
  ASSUME TypeInv, NEW i \in Tabs, GetAnswered(i)
  PROVE  TypeInv'
  <1> DEFINE r == [tabs[i] EXCEPT !.get = NoGet]
  <1>1. tabs[i] \in Tab /\ tabs \in [Tabs -> Tab] /\ Sound(tabs[i])
        /\ owner \in [Tokens -> Users \cup {None}]
    BY DEF TypeInv, TypeOK
  <1>2. r \in Tab /\ Sound(r)
    BY <1>1, TabKinds DEF Tab, Sound
  <1>3. tabs' = [tabs EXCEPT ![i] = r]
    BY <1>1 DEF GetAnswered
  <1>4. tabs' \in [Tabs -> Tab] /\ \A j \in Tabs : Sound(tabs'[j])
    BY <1>2, <1>3, TabStep
  <1>5. tabs[i].get.tok \in Tokens /\ cache' \in Users \cup {None}
    BY <1>1 DEF GetAnswered, Tab
  <1> QED BY <1>4, <1>5 DEF GetAnswered, Tokened, TypeInv, TypeOK, Sound, Stored, Issued

LEMMA NextType ==
  ASSUME TypeInv, [Next]_vars
  PROVE  TypeInv'
  <1>1. CASE UNCHANGED vars
    BY <1>1 DEF vars, TypeInv, TypeOK, Sound, Stored, Issued
  <1>2. ASSUME NEW t \in Tokens, GrowLate(t) PROVE TypeInv'
    <2>1. late' \subseteq Issued
      BY <1>2 DEF GrowLate, TypeInv, TypeOK, Issued
    <2> QED BY <1>2, <2>1 DEF GrowLate, TypeInv, TypeOK, Sound, Stored, Issued
  <1>3. ASSUME NEW i \in Tabs,
               RestoreExpired(i) \/ ExpiryCheck(i) \/ ClickLogout(i)
        PROVE  TypeInv'
    BY <1>3, LogOutType DEF RestoreExpired, ExpiryCheck, ClickLogout
  <1>4. ASSUME NEW i \in Tabs, SignInRefused(i) \/ FindsOver(i) \/ GetRefused(i)
        PROVE  TypeInv'
    BY <1>4, DroppedType DEF SignInRefused, FindsOver, GetRefused
  <1>5. Opened \subseteq Pages
    BY SessionAssumption
  <1> QED BY <1>1, <1>2, <1>3, <1>4, <1>5, TabOnlySteps, TabOnlyType, VisitType,
             RestoreType, RevokeType, LogoutAnsweredType, FinishLogoutType,
             SignedInType, GetAnsweredType DEF Next

(* Tabs, storage, cookie and the server's tokens keep their types.         *)
THEOREM TypeCorrect == Spec => []TypeOK
  <1>1. Init => TypeInv
    BY InitType
  <1>2. TypeInv /\ [Next]_vars => TypeInv'
    BY NextType
  <1>3. TypeInv => TypeOK
    BY DEF TypeInv
  <1> QED BY <1>1, <1>2, <1>3, PTL DEF Spec

-----------------------------------------------------------------------------
(* One session in storage, cookie and cache.                               *)

SessionInv == TypeInv /\ CookieIsStored /\ LoggedOutStaysOut /\ OneUserCache

Wiping == \E i \in Tabs : tabs[i].out = "wiping"

\* A tab that was not wiping leaves the others as they are; so does one that
\* goes on with it.
LEMMA WipingStays ==
  ASSUME TypeInv, NEW i \in Tabs, NEW r, tabs' = [tabs EXCEPT ![i] = r],
         tabs[i].out # "wiping" \/ r.out = "wiping", Wiping
  PROVE  Wiping'
  <1>1. PICK j \in Tabs : tabs[j].out = "wiping"
    BY DEF Wiping
  <1>2. tabs'[j].out = "wiping"
    BY <1>1 DEF TypeInv, TypeOK
  <1> QED BY <1>2 DEF Wiping

LEMMA SessionStep ==
  ASSUME SessionInv, [Next]_vars
  PROVE  SessionInv'
  <1> USE DEF SessionInv
  <1>1. /\ TypeInv /\ TypeInv' /\ CookieIsStored /\ LoggedOutStaysOut
        /\ OneUserCache
    BY NextType
  <1>2. /\ store \in Tokens \cup {None} /\ None \notin Tokens
        /\ ended \subseteq Issued /\ None \notin ended
        /\ tabs \in [Tabs -> Tab] /\ \A i \in Tabs : Sound(tabs[i])
        /\ OneUserCache = (~strays /\ cache # None =>
                             (store # None /\ cache = owner[store]) \/ Wiping)
        /\ OneUserCache' = (~strays' /\ cache' # None =>
                 (store' # None /\ cache' = owner'[store']) \/ Wiping')
    BY <1>1, SessionAssumption DEF TypeInv, TypeOK, Issued, OneUserCache, Wiping
  <1> SUFFICES CookieIsStored' /\ LoggedOutStaysOut' /\ OneUserCache'
    BY <1>1
  <1>3. CASE UNCHANGED <<store, cookie, cache, owner, ended, strays>>
             /\ (Wiping => Wiping')
    BY <1>1, <1>2, <1>3 DEF CookieIsStored, LoggedOutStaysOut
  <1>4. ASSUME NEW i \in Tabs, NEW r, tabs' = [tabs EXCEPT ![i] = r],
               tabs[i].out # "wiping" \/ r.out = "wiping"
        PROVE  Wiping => Wiping'
    BY <1>1, <1>4, WipingStays
  <1>5. ASSUME NEW i \in Tabs, Restore(i)
        PROVE  CookieIsStored' /\ LoggedOutStaysOut' /\ OneUserCache'
    <2>1. /\ UNCHANGED <<store, cache, owner, ended, strays>>
          /\ cookie' \in {store, cookie} /\ ~tabs[i].up
          /\ tabs' = [tabs EXCEPT ![i] = [@ EXCEPT !.up = TRUE, !.tok = store]]
      BY <1>2, <1>5 DEF Restore, Server, Tokened
    <2>2. tabs[i].out # "wiping"
      BY <1>2, <2>1 DEF Sound
    <2>3. Wiping => Wiping'
      BY <1>4, <2>1, <2>2
    <2> QED BY <1>1, <1>2, <2>1, <2>3 DEF CookieIsStored, LoggedOutStaysOut
  <1>6. ASSUME NEW i \in Tabs, RestoreExpired(i) \/ ExpiryCheck(i) \/ ClickLogout(i)
        PROVE  CookieIsStored' /\ LoggedOutStaysOut' /\ OneUserCache'
    <2>1. /\ UNCHANGED <<store, cache, owner, ended, strays>> /\ cookie' = None
          /\ tabs' = [tabs EXCEPT ![i] = LoggingOut(i)]
          /\ ~tabs[i].up \/ tabs[i].tok # None
      BY <1>6 DEF RestoreExpired, ExpiryCheck, ClickLogout, LogOut, Tokened
    <2>2. tabs[i].out # "wiping"
      BY <1>2, <2>1 DEF Sound
    <2>3. Wiping => Wiping'
      BY <1>4, <2>1, <2>2
    <2> QED BY <1>1, <1>2, <2>1, <2>3 DEF CookieIsStored, LoggedOutStaysOut
  <1>7. ASSUME NEW i \in Tabs, LogoutAnswered(i)
        PROVE  CookieIsStored' /\ LoggedOutStaysOut' /\ OneUserCache'
    <2>1. /\ store' = None /\ cookie' = None /\ None \notin ended'
          /\ tabs' = [tabs EXCEPT ![i] = [@ EXCEPT !.out = "wiping", !.revoke = None]]
      BY <1>2, <1>7 DEF LogoutAnswered, Cleared
    <2>2. tabs'[i].out = "wiping"
      BY <1>2, <2>1 DEF Tab
    <2>3. Wiping'
      BY <2>2 DEF Wiping
    <2> QED BY <1>2, <2>1, <2>3 DEF CookieIsStored, LoggedOutStaysOut
  <1>8. ASSUME NEW i \in Tabs, FinishLogout(i)
        PROVE  CookieIsStored' /\ LoggedOutStaysOut' /\ OneUserCache'
    <2>1. /\ UNCHANGED <<store, cookie, owner, ended>>
          /\ cache' # None => strays'
      BY <1>8 DEF FinishLogout, Wiped, Keeps, Tokened
    <2> QED BY <1>1, <1>2, <2>1 DEF CookieIsStored, LoggedOutStaysOut
  <1>9. ASSUME NEW i \in Tabs, NEW p \in Pages, Visit(i, p)
        PROVE  CookieIsStored' /\ LoggedOutStaysOut' /\ OneUserCache'
    <2>1. /\ UNCHANGED <<store, cookie, cache, owner, ended>>
          /\ strays' = (strays \/ Keeps(i))
          /\ tabs' = [tabs EXCEPT ![i] = Loaded(Routed(p, RoleOf(cookie)))]
      BY <1>9 DEF Visit, Tokened
    <2>2. CASE Keeps(i)
      BY <1>1, <1>2, <2>1, <2>2 DEF CookieIsStored, LoggedOutStaysOut
    <2>3. CASE cache = None
      BY <1>1, <1>2, <2>1, <2>3 DEF CookieIsStored, LoggedOutStaysOut
    <2>4. CASE tabs[i].out # "wiping"
      <3>1. Wiping => Wiping'
        BY <1>4, <2>1, <2>4
      <3> QED BY <1>1, <1>2, <2>1, <3>1 DEF CookieIsStored, LoggedOutStaysOut
    <2> QED BY <2>2, <2>3, <2>4 DEF Keeps
  <1>10. ASSUME NEW i \in Tabs, SignInRefused(i) \/ FindsOver(i) \/ GetRefused(i)
         PROVE  CookieIsStored' /\ LoggedOutStaysOut' /\ OneUserCache'
    <2>1. /\ store' = None /\ cookie' = None /\ ended' = ended
          /\ cache' = cache /\ strays' = (cache # None)
      BY <1>10 DEF SignInRefused, FindsOver, GetRefused, Dropped
    <2> QED BY <1>2, <2>1 DEF CookieIsStored, LoggedOutStaysOut
  <1>11. ASSUME NEW i \in Tabs, NEW t \in Tokens, SignedIn(i, t)
         PROVE  CookieIsStored' /\ LoggedOutStaysOut' /\ OneUserCache'
    <2> DEFINE u == tabs[i].sign
    <2>1. /\ owner' = [owner EXCEPT ![t] = u] /\ store' = t /\ cookie' = t
          /\ strays' = (strays \/ Keeps(i)
                          \/ (cache # None /\ store # None /\ owner[store] # u))
          /\ cache' = cache /\ ended' = ended
          /\ tabs' = [tabs EXCEPT ![i] = Loaded(Routed(Landing(u), Role[u]))]
      BY <1>11 DEF SignedIn
    <2>2. t \notin ended /\ t # None
      BY <1>1, <1>2, <1>11, SignedInType
    <2>3. owner'[t] = u
      BY <1>1, <2>1 DEF TypeInv, TypeOK
    <2>4. OneUserCache'
      <3> SUFFICES ASSUME ~strays', cache' # None
                   PROVE  cache' = u \/ Wiping'
        BY <1>2, <2>1, <2>2, <2>3
      <3>1. ~strays /\ cache # None /\ tabs[i].out # "wiping"
        BY <2>1 DEF Keeps
      <3>2. Wiping => Wiping'
        BY <1>4, <2>1, <3>1
      <3> QED BY <1>1, <1>2, <2>1, <3>1, <3>2
    <2> QED BY <2>1, <2>2, <2>4 DEF CookieIsStored, LoggedOutStaysOut
  <1>12. ASSUME NEW i \in Tabs, GetAnswered(i)
         PROVE  CookieIsStored' /\ LoggedOutStaysOut' /\ OneUserCache'
    <2>1. /\ UNCHANGED <<store, cookie, owner, ended>>
          /\ ~strays' => store # None /\ cache' = owner[store]
      BY <1>12 DEF GetAnswered, Tokened
    <2> QED BY <1>1, <1>2, <2>1 DEF CookieIsStored, LoggedOutStaysOut
  <1>13. ASSUME NEW i \in Tabs, TabOnly
         PROVE  CookieIsStored' /\ LoggedOutStaysOut' /\ OneUserCache'
    <2>1. PICK j \in Tabs, r \in Tab :
            tabs' = [tabs EXCEPT ![j] = r] /\ r.out = tabs[j].out
      BY <1>13 DEF TabOnly
    <2>2. Wiping => Wiping'
      BY <1>4, <2>1
    <2> QED BY <1>3, <1>13, <2>2 DEF TabOnly, Server, Tokened
  <1>14. ASSUME NEW i \in Tabs, Revoke(i)
         PROVE  CookieIsStored' /\ LoggedOutStaysOut' /\ OneUserCache'
    <2> DEFINE r == [tabs[i] EXCEPT !.revoke = None]
    <2>1. tabs' = [tabs EXCEPT ![i] = r] /\ r.out = tabs[i].out
      BY <1>2, <1>14 DEF Revoke, Tab
    <2> HIDE DEF r
    <2>2. Wiping => Wiping'
      BY <1>4, <2>1
    <2> QED BY <1>3, <1>14, <2>2 DEF Revoke
  <1>15. ASSUME UNCHANGED vars \/ \E t \in Tokens : GrowLate(t)
         PROVE  CookieIsStored' /\ LoggedOutStaysOut' /\ OneUserCache'
    <2>1. UNCHANGED <<tabs, store, cookie, cache, owner, ended, strays>>
      BY <1>15 DEF vars, GrowLate
    <2> QED BY <1>3, <2>1 DEF Wiping
  <1>16. Opened \subseteq Pages
    BY SessionAssumption
  <1> QED BY <1>1, <1>5, <1>6, <1>7, <1>8, <1>9, <1>10, <1>11, <1>12, <1>13,
             <1>14, <1>15, <1>16, TabOnlySteps DEF Next

LEMMA SessionInvariance == Spec => []SessionInv
  <1>1. Init => SessionInv
    BY InitType DEF Init, SessionInv, CookieIsStored, LoggedOutStaysOut,
                    OneUserCache
  <1>2. SessionInv /\ [Next]_vars => SessionInv'
    BY SessionStep
  <1> QED BY <1>1, <1>2, PTL DEF Spec

(* However many tabs log in and out at once, the cookie is that of the     *)
(* stored session or there is none.                                        *)
THEOREM CookieFollowsStorage == Spec => []CookieIsStored
  <1>1. SessionInv => CookieIsStored
    BY DEF SessionInv
  <1> QED BY SessionInvariance, <1>1, PTL

(* No tab brings a session back that was logged out of.                    *)
THEOREM LogoutIsFinal == Spec => []LoggedOutStaysOut
  <1>1. SessionInv => LoggedOutStaysOut
    BY DEF SessionInv
  <1> QED BY SessionInvariance, <1>1, PTL

(* What is cached is the stored session's or about to be wiped, however     *)
(* the clean-ups of several tabs interleave, but for the named strays.      *)
THEOREM CacheIsOneUsers == Spec => []OneUserCache
  <1>1. SessionInv => OneUserCache
    BY DEF SessionInv
  <1> QED BY SessionInvariance, <1>1, PTL
=============================================================================
