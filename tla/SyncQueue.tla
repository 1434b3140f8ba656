----------------------------- MODULE SyncQueue -----------------------------
(***************************************************************************)
(* The offline mutation queue of the browser client                        *)
(* (frontend/src/lib/api.ts, crypto.ts, syncExport.ts) and the part of the *)
(* server it talks to.  JavaScript runs one task at a time but suspends at *)
(* every await, so each action below is the code between two awaits: an    *)
(* enqueue is a read of the store followed later by a write, and a flush   *)
(* works through the snapshot of the store it took when it began.  Nothing *)
(* in the code keeps two flushes, or a flush and an enqueue, apart.        *)
(***************************************************************************)
EXTENDS Naturals, FiniteSets

CONSTANTS
  Callers,       \* concurrent invocations of fetchWithCache for a mutation
  Flushers,      \* concurrent invocations of syncQueue
  Nobody,        \* sender of a request whose page is gone
  Users,         \* learners that log in on this device
  NoUser,        \* no token: nobody is logged in, or the header was dropped
  Completions,   \* endpoints /activities/:id/complete
  Submissions,   \* endpoints whose newest body wins (/assignments/:id/submit)
  Consents,      \* endpoint /me/consent, not behind the server's consent gate
  Credentials,   \* endpoints /auth/..., whose bodies are never to be queued
  Bodies,        \* request bodies
  NoBody,        \* a record stored without its body
  Accuracy,      \* correct_count/total_count of a completion body, on a scale
  Imports,       \* what a .logsync file may hold: [ep, body, auth] records
  SubtleAvailable, \* crypto.subtle exists (secure context)
  MaxRetries,    \* MAX_RETRIES
  MaxActs,       \* bound: mutations attempted or imported
  MaxTrouble     \* bound: lost answers, expiries, reloads, logouts, outages

Endpoints == Completions \cup Submissions \cup Consents \cup Credentials
Procs == Callers \cup Flushers

ASSUME ConstantsAssumption ==
  /\ Callers \cap Flushers = {} /\ Nobody \notin Callers \cup Flushers
  /\ NoUser \notin Users
  /\ NoBody \notin Bodies
  /\ Credentials \cap (Completions \cup Submissions \cup Consents) = {}
  /\ Accuracy \in [Bodies -> Nat]
  /\ Imports \subseteq [ep : Endpoints, body : Bodies, auth : Users]
  /\ SubtleAvailable \in BOOLEAN
  /\ MaxRetries \in Nat /\ MaxActs \in Nat /\ MaxTrouble \in Nat

VARIABLES
  queue,     \* IndexedDB store sync-queue: a set of records, keyed by id
  nextId,    \* its autoIncrement counter
  user,      \* whose log_token is in localStorage
  online,    \* isAppOnline
  cpc,       \* where each call is, or the answer it has received
  creq,      \* what each call is about
  fpc,       \* where each flush is, or the answer it has received
  todo,      \* the snapshot records a flush has not settled yet
  attempt,   \* retries already spent on the flush's current record
  tally,     \* syncedCount and failedCount of a flush
  wire,      \* requests sent and not yet handled by the server
  up,        \* the server can be reached and is not answering 5xx
  consent,   \* the server holds an active guardian consent
  done,      \* requests the server has accepted
  refused,   \* requests the server has answered with a final 4xx
  promised,  \* history: work the learner was told is saved, by record
  exposed,   \* history: records written from a stale or unreadable copy
  erased,    \* history: records removed with the account, or with credentials
  acts,      \* bounded by MaxActs
  trouble    \* bounded by MaxTrouble

store == <<queue, nextId>>
server == <<up, consent, done, refused>>
calls == <<cpc, creq>>
flushes == <<fpc, todo, attempt, tally>>
history == <<promised, exposed, erased>>
vars == <<store, server, calls, flushes, history, user, online, wire, acts,
          trouble>>

-----------------------------------------------------------------------------
Record == [id : Nat, ep : Endpoints, body : Bodies \cup {NoBody},
           auth : Users \cup {NoUser}, sealed : BOOLEAN,
           imported : BOOLEAN]    \* its headers are also there in the clear
NoRecord == [id |-> 0]      \* the lookup of a duplicate found none
Request == [from : Procs \cup {Nobody}, id : Nat, ep : Endpoints,
            body : Bodies \cup {NoBody}, auth : Users \cup {NoUser}]
Handled == [id : Nat, ep : Endpoints, body : Bodies \cup {NoBody},
            auth : Users \cup {NoUser}]
Answer == {"ok", "refused", "consent", "unauthorized", "failed"}
CallRequest == [ep : Endpoints, body : Bodies, auth : Users,
                dup : Record \cup {NoRecord}, kept : Bodies \cup {NoBody}]
Call(ep, body, auth, dup, kept) ==
  [ep |-> ep, body |-> body, auth |-> auth, dup |-> dup, kept |-> kept]
Ask(from, id, ep, body, auth) ==
  [from |-> from, id |-> id, ep |-> ep, body |-> body, auth |-> auth]

TypeOK ==
  /\ queue \subseteq Record /\ nextId \in Nat \ {0}
  /\ user \in Users \cup {NoUser} /\ online \in BOOLEAN
  /\ cpc \in [Callers -> {"idle", "sent", "queueing", "adding", "putting",
                          "importing"} \cup Answer]
  /\ creq \in [Callers -> CallRequest \cup {NoRecord}]
  /\ \A c \in Callers : cpc[c] # "idle" => creq[c] \in CallRequest
  /\ \A c \in Callers : cpc[c] = "putting" => creq[c].dup \in Record
  /\ fpc \in [Flushers -> {"idle", "ready", "sent"} \cup Answer]
  /\ todo \in [Flushers -> SUBSET Record]
  /\ attempt \in [Flushers -> Nat]
  /\ tally \in [Flushers -> [synced : Nat, failed : Nat]]
  /\ wire \subseteq Request
  /\ up \in BOOLEAN /\ consent \in BOOLEAN
  /\ done \subseteq Handled /\ refused \subseteq Handled
  /\ promised \subseteq [id : Nat, ep : Endpoints, body : Bodies, author : Users]
  /\ exposed \subseteq Nat /\ erased \subseteq Nat
  /\ acts \in Nat /\ trouble \in Nat

Init ==
  /\ queue = {} /\ nextId = 1
  /\ user \in Users \cup {NoUser} /\ online \in BOOLEAN
  /\ cpc = [c \in Callers |-> "idle"] /\ creq = [c \in Callers |-> NoRecord]
  /\ fpc = [f \in Flushers |-> "idle"] /\ todo = [f \in Flushers |-> {}]
  /\ attempt = [f \in Flushers |-> 0]
  /\ tally = [f \in Flushers |-> [synced |-> 0, failed |-> 0]]
  /\ wire = {} /\ up \in BOOLEAN /\ consent \in BOOLEAN
  /\ done = {} /\ refused = {}
  /\ promised = {} /\ exposed = {} /\ erased = {}
  /\ acts = 0 /\ trouble = 0

Disturb == trouble < MaxTrouble /\ trouble' = trouble + 1

-----------------------------------------------------------------------------
(* fetchWithCache: a mutation goes out live, or straight to the queue.     *)

Act(c, ep, body) ==
  /\ cpc[c] = "idle" /\ user # NoUser /\ acts < MaxActs
  /\ acts' = acts + 1
  /\ creq' = [creq EXCEPT ![c] = Call(ep, body, user, NoRecord, NoBody)]
  /\ IF online
       THEN /\ cpc' = [cpc EXCEPT ![c] = "sent"]
            /\ wire' = wire \cup {Ask(c, 0, ep, body, user)}
       ELSE cpc' = [cpc EXCEPT ![c] = "queueing"] /\ UNCHANGED wire
  /\ UNCHANGED <<store, server, flushes, promised, exposed, erased, user,
                 online, trouble>>

\* Requests of a page that goes away stay on the wire with nobody waiting.
Orphan(m) == Ask(Nobody, m.id, m.ep, m.body, m.auth)

\* The page is torn down: a crash, a closed tab, a redirect to /login.
Halt ==
  /\ cpc' = [c \in Callers |-> "idle"] /\ creq' = [c \in Callers |-> NoRecord]
  /\ fpc' = [f \in Flushers |-> "idle"] /\ todo' = [f \in Flushers |-> {}]
  /\ attempt' = [f \in Flushers |-> 0]
  /\ tally' = [f \in Flushers |-> [synced |-> 0, failed |-> 0]]
  /\ wire' = {Orphan(m) : m \in wire}

\* 2xx and 4xx end the call; a 4xx is an error the learner sees.
CallEnds(c) ==
  /\ cpc[c] \in {"ok", "refused", "consent"}
  /\ cpc' = [cpc EXCEPT ![c] = "idle"]
  /\ creq' = [creq EXCEPT ![c] = NoRecord]
  /\ UNCHANGED <<store, server, flushes, promised, exposed, erased, user,
                 online, wire, acts, trouble>>

\* 401 on a live call: clearCredentialsAndRedirect.
CallExpired(c) ==
  /\ cpc[c] = "unauthorized"
  /\ user' = NoUser
  /\ Halt
  /\ UNCHANGED <<store, server, history, online, acts, trouble>>

\* 5xx or no answer: the mutation is queued instead.
CallFallsBack(c) ==
  /\ cpc[c] = "failed"
  /\ cpc' = [cpc EXCEPT ![c] = "queueing"]
  /\ UNCHANGED <<store, server, flushes, history, creq, user, online, wire,
                 acts, trouble>>

-----------------------------------------------------------------------------
(* queueRequest: look for a duplicate, then write what that look showed.   *)

BodyAccuracy(b) == IF b = NoBody THEN 0 ELSE Accuracy[b] + 1

\* Mutant: the last write wins for completions too.
Merge_NewestWins(ep, old, new) == new

\* mergeQueuedBody: completions keep the better attempt, ties the newer one.
Merge(ep, old, new) ==
  IF ep \in Completions /\ BodyAccuracy(new) < BodyAccuracy(old)
    THEN old ELSE new

\* What getAll().find returns: the first record for the endpoint, by id.
Duplicate(ep, r) ==
  /\ r \in queue /\ r.ep = ep
  /\ \A s \in queue : s.ep = ep => r.id <= s.id

Promise(id, ep, body, author) ==
  [id |-> id, ep |-> ep, body |-> body, author |-> author]

Idle(c) ==
  /\ cpc' = [cpc EXCEPT ![c] = "idle"]
  /\ creq' = [creq EXCEPT ![c] = NoRecord]

\* Credentials are not queued: the call fails and says so.
NotQueued(c) ==
  /\ cpc[c] = "queueing" /\ creq[c].ep \in Credentials
  /\ Idle(c)
  /\ UNCHANGED <<store, server, flushes, history, user, online, wire, acts,
                 trouble>>

\* A call that goes on to look for a duplicate.
Looking(c) == cpc[c] = "queueing" /\ creq[c].ep \notin Credentials

\* Mutant: writes back over a duplicate that was not found.
LookFindsNone_Puts(c) ==
  /\ Looking(c)
  /\ \A r \in queue : r.ep # creq[c].ep
  /\ cpc' = [cpc EXCEPT ![c] = "putting"]
  /\ UNCHANGED <<store, server, flushes, history, creq, user, online, wire,
                 acts, trouble>>

\* Mutant: does not look.
LookFindsNone_Blind(c) ==
  /\ Looking(c)
  /\ cpc' = [cpc EXCEPT ![c] = "adding"]
  /\ UNCHANGED <<store, server, flushes, history, creq, user, online, wire,
                 acts, trouble>>

LookFindsNone(c) ==
  /\ Looking(c)
  /\ \A r \in queue : r.ep # creq[c].ep
  /\ cpc' = [cpc EXCEPT ![c] = "adding"]
  /\ UNCHANGED <<store, server, flushes, history, creq, user, online, wire,
                 acts, trouble>>

\* The same body is queued already: nothing is written.
LookFindsSame(c) ==
  /\ Looking(c)
  /\ \E r \in queue :
       /\ Duplicate(creq[c].ep, r) /\ r.body = creq[c].body
       /\ promised' = promised \cup
            {Promise(r.id, r.ep, r.body, creq[c].auth)}
  /\ Idle(c)
  /\ UNCHANGED <<store, server, flushes, exposed, erased, user, online,
                 wire, acts, trouble>>

\* old is the queued body as decrypted, or NoBody when decryption failed.
LookFindsOther(c) ==
  /\ Looking(c)
  /\ \E r \in queue : \E old \in {r.body, NoBody} :
       /\ Duplicate(creq[c].ep, r) /\ old # creq[c].body
       /\ IF old = r.body
            THEN UNCHANGED <<exposed, trouble>>
            ELSE r.sealed /\ Disturb /\ exposed' = exposed \cup {r.id}
       /\ creq' = [creq EXCEPT ![c] =
                    Call(creq[c].ep, creq[c].body, creq[c].auth, r,
                         Merge(creq[c].ep, old, creq[c].body))]
  /\ cpc' = [cpc EXCEPT ![c] = "putting"]
  /\ UNCHANGED <<store, server, flushes, promised, erased, user,
                 online, wire, acts>>

\* The record db.add stores: an import keeps its plaintext; without
\* crypto.subtle an enqueue stores neither body nor headers.
NewRecord(q, imported) ==
  LET whole == SubtleAvailable \/ imported IN
  [id |-> nextId, ep |-> q.ep, body |-> IF whole THEN q.body ELSE NoBody,
   auth |-> IF whole THEN q.auth ELSE NoUser,
   sealed |-> SubtleAvailable /\ ~imported, imported |-> imported]

Add(c) ==
  /\ cpc[c] \in {"adding", "importing"}
  /\ queue' = queue \cup {NewRecord(creq[c], cpc[c] = "importing")}
  /\ nextId' = nextId + 1
  /\ promised' = promised \cup
       {Promise(nextId, creq[c].ep, creq[c].body, creq[c].auth)}
  /\ Idle(c)
  /\ UNCHANGED <<server, flushes, exposed, erased, user, online, wire,
                 acts, trouble>>

\* The record written back over duplicate d.  What is encrypted again are d's
\* plaintext headers: only a record that was imported has them, and keeps them.
Rewritten(d, kept) ==
  [id |-> d.id, ep |-> d.ep,
   body |-> IF SubtleAvailable THEN kept ELSE d.body,
   auth |-> IF d.imported THEN d.auth ELSE NoUser,
   sealed |-> SubtleAvailable, imported |-> d.imported]

\* A write to record d.id from a copy that may not be current any more.
Stale(d) ==
  \/ \E s \in queue : s.id = d.id /\ s # d
  \/ \E f \in Flushers : \E s \in todo[f] : s.id = d.id

\* db.put over the id found earlier, whatever has become of it since.
Put(c) ==
  /\ cpc[c] = "putting"
  /\ LET d == creq[c].dup IN
     /\ queue' = {s \in queue : s.id # d.id} \cup {Rewritten(d, creq[c].kept)}
     /\ exposed' = IF Stale(d) THEN exposed \cup {d.id} ELSE exposed
     /\ promised' =
          {p \in promised : p.id # d.id \/ creq[c].ep \in Completions}
          \cup {Promise(d.id, creq[c].ep, creq[c].body, creq[c].auth)}
  /\ Idle(c)
  /\ UNCHANGED <<nextId, server, flushes, erased, user, online, wire,
                 acts, trouble>>

\* importSyncFile: a record is skipped when one with the same endpoint and
\* body is queued, as far as what is queued can be decrypted.
Import(c, entry) ==
  /\ cpc[c] = "idle" /\ user # NoUser /\ acts < MaxActs
  /\ LET same == {r \in queue : r.ep = entry.ep /\ r.body = entry.body} IN
     IF same = {} THEN UNCHANGED trouble
                  ELSE Disturb /\ \A r \in same : r.sealed
  /\ acts' = acts + 1
  /\ cpc' = [cpc EXCEPT ![c] = "importing"]
  /\ creq' = [creq EXCEPT ![c] =
               Call(entry.ep, entry.body, entry.auth, NoRecord, NoBody)]
  /\ UNCHANGED <<store, server, flushes, history, user, online, wire>>

-----------------------------------------------------------------------------
(* syncQueue: replay a snapshot of the queue, oldest record first.         *)

\* Any trigger: boot, the online event, leaving offline mode, Sync now, login.
StartFlush(f) ==
  /\ fpc[f] = "idle" /\ queue # {}
  /\ fpc' = [fpc EXCEPT ![f] = "ready"]
  /\ todo' = [todo EXCEPT ![f] = queue]
  /\ UNCHANGED <<store, server, calls, attempt, tally, history, user, online,
                 wire, acts, trouble>>

Current(f, r) == r \in todo[f] /\ \A s \in todo[f] : r.id <= s.id

\* The flush moves on to its next record.
Advance(f, r, field) ==
  /\ fpc' = [fpc EXCEPT ![f] = "ready"]
  /\ todo' = [todo EXCEPT ![f] = @ \ {r}]
  /\ attempt' = [attempt EXCEPT ![f] = 0]
  /\ tally' = [tally EXCEPT ![f][field] = @ + 1]

\* A record with credentials (of an older build, by way of a file) is dropped.
DropCredentials(f) ==
  /\ fpc[f] = "ready"
  /\ \E r \in todo[f] :
       /\ Current(f, r) /\ r.ep \in Credentials
       /\ queue' = {s \in queue : s.id # r.id}
       /\ erased' = erased \cup {r.id}
       /\ Advance(f, r, "failed")
  /\ UNCHANGED <<nextId, server, calls, promised, exposed, user, online, wire,
                 acts, trouble>>

\* The token of whoever is logged in now replaces the one in the record.
Send(f) ==
  /\ fpc[f] = "ready"
  /\ \E r \in todo[f] :
       /\ Current(f, r) /\ r.ep \notin Credentials
       /\ wire' = wire \cup
            {Ask(f, r.id, r.ep, r.body,
                 IF user # NoUser THEN user ELSE r.auth)}
  /\ fpc' = [fpc EXCEPT ![f] = "sent"]
  /\ UNCHANGED <<store, server, calls, todo, attempt, tally, history, user,
                 online, acts, trouble>>

Undecryptable(f) ==
  /\ fpc[f] = "ready" /\ Disturb
  /\ \E r \in todo[f] : /\ Current(f, r) /\ r.ep \notin Credentials
                        /\ r.sealed /\ Advance(f, r, "failed")
  /\ UNCHANGED <<store, server, calls, history, user, online, wire, acts>>

\* Mutant: a 401 or 403 is a client error like any other.
Settle_AnyClientError(f) ==
  /\ fpc[f] \in {"ok", "refused", "unauthorized", "consent"}
  /\ \E r \in todo[f] :
       /\ Current(f, r)
       /\ queue' = {s \in queue : s.id # r.id}
       /\ Advance(f, r, IF fpc[f] = "ok" THEN "synced" ELSE "failed")
  /\ UNCHANGED <<nextId, server, calls, history, user, online, wire, acts,
                 trouble>>

\* Mutant: an accepted record is not deleted.
Settle_Keeps(f) ==
  /\ fpc[f] \in {"ok", "refused"}
  /\ \E r \in todo[f] :
       /\ Current(f, r)
       /\ Advance(f, r, IF fpc[f] = "ok" THEN "synced" ELSE "failed")
  /\ UNCHANGED <<store, server, calls, history, user, online, wire, acts,
                 trouble>>

\* 2xx, 409, and any other 4xx than the two below: the id is deleted.
Settle(f) ==
  /\ fpc[f] \in {"ok", "refused"}
  /\ \E r \in todo[f] :
       /\ Current(f, r)
       /\ queue' = {s \in queue : s.id # r.id}
       /\ Advance(f, r, IF fpc[f] = "ok" THEN "synced" ELSE "failed")
  /\ UNCHANGED <<nextId, server, calls, history, user, online, wire, acts,
                 trouble>>

\* The invocation returns and its locals are gone.
Return(f) ==
  /\ fpc' = [fpc EXCEPT ![f] = "idle"]
  /\ todo' = [todo EXCEPT ![f] = {}]
  /\ attempt' = [attempt EXCEPT ![f] = 0]
  /\ tally' = [tally EXCEPT ![f] = [synced |-> 0, failed |-> 0]]

\* 401 and 403 consent_required: return at once, nothing is deleted.
Stop(f) ==
  /\ fpc[f] \in {"unauthorized", "consent"}
  /\ Return(f)
  /\ UNCHANGED <<store, server, calls, history, user, online, wire, acts,
                 trouble>>

\* Mutant: the attempt is not counted.
Retry_Uncounted(f) ==
  /\ fpc[f] = "failed" /\ attempt[f] < MaxRetries
  /\ fpc' = [fpc EXCEPT ![f] = "ready"]
  /\ UNCHANGED <<store, server, calls, todo, attempt, tally, history, user,
                 online, wire, acts, trouble>>

Retry(f) ==
  /\ fpc[f] = "failed" /\ attempt[f] < MaxRetries
  /\ attempt' = [attempt EXCEPT ![f] = @ + 1]
  /\ fpc' = [fpc EXCEPT ![f] = "ready"]
  /\ UNCHANGED <<store, server, calls, todo, tally, history, user, online,
                 wire, acts, trouble>>

\* After the last retry the snapshot's record is written back.
GiveUp(f) ==
  /\ fpc[f] = "failed" /\ attempt[f] >= MaxRetries
  /\ \E r \in todo[f] :
       /\ Current(f, r)
       /\ queue' = {s \in queue : s.id # r.id} \cup {r}
       /\ Advance(f, r, "failed")
  /\ UNCHANGED <<nextId, server, calls, history, user, online, wire, acts,
                 trouble>>

\* The end of the loop; the digest tells the learner the final tally.
EndFlush(f) ==
  /\ fpc[f] = "ready" /\ todo[f] = {}
  /\ Return(f)
  /\ UNCHANGED <<store, server, calls, history, user, online, wire, acts,
                 trouble>>

-----------------------------------------------------------------------------
(* The server, and the network between.                                    *)

Deliver(m, answer) ==
  /\ cpc' = [c \in Callers |-> IF c = m.from THEN answer ELSE cpc[c]]
  /\ fpc' = [f \in Flushers |-> IF f = m.from THEN answer ELSE fpc[f]]

Gated(ep) == ep \notin Consents
Entry(m) == [id |-> m.id, ep |-> m.ep, body |-> m.body, auth |-> m.auth]

Accept(m) ==
  /\ up /\ m.auth # NoUser /\ (Gated(m.ep) => consent)
  /\ done' = done \cup {Entry(m)}
  /\ consent' = (consent \/ m.ep \in Consents)
  /\ Deliver(m, "ok")
  /\ UNCHANGED <<up, refused, trouble>>

Refuse(m) ==
  /\ up /\ m.auth # NoUser /\ (Gated(m.ep) => consent) /\ Disturb
  /\ refused' = refused \cup {Entry(m)}
  /\ Deliver(m, "refused")
  /\ UNCHANGED <<up, consent, done>>

RefuseForConsent(m) ==
  /\ up /\ m.auth # NoUser /\ Gated(m.ep) /\ ~consent
  /\ Deliver(m, "consent")
  /\ UNCHANGED <<server, trouble>>

\* No token, or one that has expired or was revoked.
RefuseToken(m) ==
  /\ up
  /\ IF m.auth = NoUser THEN UNCHANGED trouble ELSE Disturb
  /\ Deliver(m, "unauthorized")
  /\ UNCHANGED server

Fail(m) == ~up /\ Deliver(m, "failed") /\ UNCHANGED <<server, trouble>>

Handle(m) ==
  /\ wire' = wire \ {m}
  /\ Accept(m) \/ Refuse(m) \/ RefuseForConsent(m) \/ RefuseToken(m) \/ Fail(m)
  /\ UNCHANGED <<store, creq, todo, attempt, tally, history, user, online,
                 acts>>

\* The sender sees a network error while the request may still get through.
LoseAnswer(m) ==
  /\ m.from # Nobody /\ Disturb
  /\ wire' \in {wire \ {m}, (wire \ {m}) \cup {Orphan(m)}}
  /\ Deliver(m, "failed")
  /\ UNCHANGED <<store, server, creq, todo, attempt, tally, history, user,
                 online, acts>>

Outage ==
  /\ up /\ Disturb /\ up' = FALSE
  /\ UNCHANGED <<store, consent, done, refused, calls, flushes, history,
                 user, online, wire, acts>>

Recover ==
  /\ ~up /\ up' = TRUE
  /\ UNCHANGED <<store, consent, done, refused, calls, flushes, history,
                 user, online, wire, acts, trouble>>

-----------------------------------------------------------------------------
(* The browser and its user.                                               *)

\* The online and offline events, and setManualOffline.
SetOnline ==
  /\ online' = ~online
  /\ UNCHANGED <<store, server, calls, flushes, history, user, wire, acts,
                 trouble>>

Login(u) ==
  /\ user = NoUser /\ user' = u
  /\ UNCHANGED <<store, server, calls, flushes, history, online, wire, acts,
                 trouble>>

\* logout clears the token and the cache, never the queue, and redirects.
Logout ==
  /\ user # NoUser /\ Disturb
  /\ user' = NoUser
  /\ Halt
  /\ UNCHANGED <<store, server, history, online, acts>>

Reload ==
  /\ Disturb /\ Halt
  /\ UNCHANGED <<store, server, history, user, online, acts>>

\* Account deletion: wipeLocalData clears the queue of this device.
EraseDevice ==
  /\ user # NoUser /\ Disturb
  /\ erased' = erased \cup {r.id : r \in queue}
  /\ queue' = {} /\ user' = NoUser
  /\ Halt
  /\ UNCHANGED <<nextId, server, promised, exposed, online, acts>>

-----------------------------------------------------------------------------
CallStep(c) ==
  \/ CallEnds(c) \/ CallExpired(c) \/ CallFallsBack(c)
  \/ NotQueued(c) \/ LookFindsNone(c) \/ LookFindsSame(c) \/ LookFindsOther(c)
  \/ Add(c) \/ Put(c)

FlushStep(f) ==
  \/ DropCredentials(f) \/ Send(f) \/ Undecryptable(f) \/ Settle(f)
  \/ Stop(f) \/ Retry(f) \/ GiveUp(f) \/ EndFlush(f)

Next ==
  \/ \E c \in Callers, ep \in Endpoints, body \in Bodies : Act(c, ep, body)
  \/ \E c \in Callers, entry \in Imports : Import(c, entry)
  \/ \E c \in Callers : CallStep(c)
  \/ \E f \in Flushers : StartFlush(f) \/ FlushStep(f)
  \/ \E m \in wire : Handle(m) \/ LoseAnswer(m)
  \/ Outage \/ Recover \/ SetOnline \/ Logout \/ Reload \/ EraseDevice
  \/ \E u \in Users : Login(u)

Spec == Init /\ [][Next]_vars

(* The event loop resumes every task whose await has settled, and every    *)
(* fetch settles.  Nothing makes the learner act, log in or flush.         *)
Fairness ==
  /\ \A c \in Callers : WF_vars(CallStep(c))
  /\ \A f \in Flushers : WF_vars(FlushStep(f))
  /\ \A p \in Procs : WF_vars(\E m \in wire : m.from = p /\ Handle(m))

(* The learner comes back: someone logs in, and flushes keep being         *)
(* triggered (every boot, online event and login triggers one).            *)
UserFairness ==
  /\ WF_vars(\E u \in Users : Login(u))
  /\ \A f \in Flushers : WF_vars(StartFlush(f))

FairSpec == Spec /\ Fairness
LiveSpec == FairSpec /\ UserFairness

-----------------------------------------------------------------------------
(* Properties.                                                             *)

(* A record leaves the queue only with an answer of the server to that     *)
(* record, with the account, or because it holds credentials: a 401, a     *)
(* consent refusal, an outage, a lost answer, a reload or a logout at any  *)
(* point of any flush keeps it (api.ts syncQueue, the branches that return *)
(* or retry).                                                              *)
LeftWithAnswer ==
  \A i \in 1 .. nextId - 1 :
    \/ \E r \in queue : r.id = i
    \/ \E m \in done \cup refused : m.id = i
    \/ i \in erased

Supersedes(x, p) ==
  /\ x.id = p.id
  /\ IF p.ep \in Completions
       THEN BodyAccuracy(x.body) >= BodyAccuracy(p.body)
       ELSE x.body = p.body

(* Work the learner was told is saved is still queued, or the server has   *)
(* answered it, in at least as good a version -- unless its record was     *)
(* rewritten from a stale copy, while a flush held its snapshot, or        *)
(* without being readable: the three races of queueRequest and syncQueue.  *)
SavedUnlessRaced ==
  \A p \in promised :
    \/ \E x \in queue \cup done \cup refused : Supersedes(x, p)
    \/ p.id \in exposed \cup erased

(* What the comments promise: learner work is never silently lost.         *)
NeverLosesWork ==
  \A p \in promised :
    \/ \E x \in queue \cup done \cup refused : Supersedes(x, p)
    \/ p.id \in erased

(* "The queue never holds two entries for one action" (queueRequest).      *)
OneEntryPerAction ==
  \A r, s \in queue : r.ep = s.ep => r.id = s.id

(* A replay reaches the server under the account that queued it.           *)
ReplayedForAuthor ==
  \A m \in done : m.id # 0 =>
    \E p \in promised : p.id = m.id /\ p.author = m.auth

(* Every flush ends, however the server behaves: retries are bounded and   *)
(* no answer leaves the loop waiting.                                      *)
FlushTerminates ==
  \A f \in Flushers : fpc[f] # "idle" ~> fpc[f] = "idle"

(* Once the server stays up and consent stands, the queue drains.          *)
QueueDrains == <>[](up /\ consent) => <>[](queue = {})
=============================================================================
