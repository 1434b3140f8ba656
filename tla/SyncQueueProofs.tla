-------------------------- MODULE SyncQueueProofs --------------------------
(***************************************************************************)
(* Proofs about SyncQueue for every set of calls, flushes, learners,       *)
(* endpoints and bodies, and without the bounds the model checker needs.   *)
(***************************************************************************)
EXTENDS SyncQueue, TLAPS

(* Everything on the wire has a sender that waits for it, or nobody; a     *)
(* flush waits for the record it is at.                                    *)
InFlight ==
  /\ \A m \in wire :
       /\ m.from \in Callers => cpc[m.from] = "sent"
       /\ m.from \in Flushers =>
            /\ fpc[m.from] = "sent"
            /\ \E r \in todo[m.from] :
                 Current(m.from, r) /\ m.id = r.id /\ m.ep = r.ep
                                    /\ m.body = r.body
  /\ \A m, n \in wire : m.from = n.from /\ m.from # Nobody => m = n

(* A flush that has a final answer has it for the record it is at.         *)
Answered ==
  \A f \in Flushers : fpc[f] \in {"ok", "refused"} =>
    \E r \in todo[f], m \in done \cup refused :
      Current(f, r) /\ m.id = r.id /\ m.ep = r.ep /\ m.body = r.body

Inv == TypeOK /\ InFlight /\ Answered /\ LeftWithAnswer

-----------------------------------------------------------------------------
LEMMA InitInv == Init => Inv
  BY ConstantsAssumption
     DEF Init, Inv, TypeOK, InFlight, Answered, LeftWithAnswer, Endpoints,
         Procs, Record, NoRecord

(* The groups of variables that one action and the next have in common.    *)
LEMMA ActStep ==
  ASSUME Inv, NEW c \in Callers, NEW ep \in Endpoints, NEW body \in Bodies,
         Act(c, ep, body)
  PROVE  Inv'
  <1> USE ConstantsAssumption DEF Act, store, server, flushes, Procs, Inv
  <1>1. TypeOK'
    BY DEF TypeOK, CallRequest, NoRecord, Request, Call, Ask
  <1>2. InFlight'
    BY DEF InFlight, TypeOK, Current, Ask
  <1>3. Answered' /\ LeftWithAnswer'
    BY DEF Answered, LeftWithAnswer, Current
  <1> QED BY <1>1, <1>2, <1>3

LEMMA HaltStep ==
  ASSUME Inv, Halt, UNCHANGED <<nextId, done, refused>>
  PROVE  /\ cpc' = [c \in Callers |-> "idle"]
         /\ creq' = [c \in Callers |-> NoRecord]
         /\ fpc' \in [Flushers -> {"idle"}]
         /\ todo' \in [Flushers -> SUBSET Record]
         /\ attempt' \in [Flushers -> Nat]
         /\ tally' \in [Flushers -> [synced : Nat, failed : Nat]]
         /\ wire' \subseteq Request
         /\ InFlight' /\ Answered'
  <1> USE ConstantsAssumption DEF Halt, Orphan, Ask, Inv, TypeOK, Procs
  <1>1. wire' \subseteq Request /\ \A m \in wire' : m.from = Nobody
    BY DEF Request
  <1>2. InFlight' /\ Answered'
    BY <1>1 DEF InFlight, Answered
  <1> QED BY <1>1, <1>2

LEMMA CallStepInv ==
  ASSUME Inv, NEW c \in Callers, CallStep(c)
  PROVE  Inv'
  <1> USE ConstantsAssumption
      DEF store, server, calls, flushes, history, Procs, Idle, Inv
  <1>1. CASE CallEnds(c)
    <2>1. TypeOK'
      BY <1>1 DEF CallEnds, TypeOK
    <2>2. InFlight'
      BY <1>1 DEF CallEnds, InFlight, TypeOK, Current
    <2>3. Answered' /\ LeftWithAnswer'
      BY <1>1 DEF CallEnds, Answered, LeftWithAnswer, Current
    <2> QED BY <2>1, <2>2, <2>3
  <1>2. CASE CallExpired(c)
    BY <1>2, HaltStep DEF CallExpired, TypeOK, LeftWithAnswer
  <1>3. CASE CallFallsBack(c)
    <2>1. TypeOK'
      BY <1>3 DEF CallFallsBack, TypeOK
    <2>2. InFlight'
      BY <1>3 DEF CallFallsBack, InFlight, TypeOK, Current
    <2>3. Answered' /\ LeftWithAnswer'
      BY <1>3 DEF CallFallsBack, Answered, LeftWithAnswer, Current
    <2> QED BY <2>1, <2>2, <2>3
  <1>4. CASE LookFindsNone(c)
    <2>1. TypeOK'
      BY <1>4 DEF LookFindsNone, Looking, TypeOK
    <2>2. InFlight'
      BY <1>4 DEF LookFindsNone, Looking, InFlight, TypeOK, Current
    <2>3. Answered' /\ LeftWithAnswer'
      BY <1>4 DEF LookFindsNone, Looking, Answered, LeftWithAnswer, Current
    <2> QED BY <2>1, <2>2, <2>3
  <1>5. CASE LookFindsSame(c)
    <2>1. TypeOK'
      BY <1>5 DEF LookFindsSame, Looking, TypeOK, Promise, Record, CallRequest, NoRecord
    <2>2. InFlight'
      BY <1>5 DEF LookFindsSame, Looking, InFlight, TypeOK, Current
    <2>3. Answered' /\ LeftWithAnswer'
      BY <1>5 DEF LookFindsSame, Looking, Answered, LeftWithAnswer, Current
    <2> QED BY <2>1, <2>2, <2>3
  <1>6. CASE LookFindsOther(c)
    <2>1. TypeOK'
      <3> PICK r \in queue, old \in Bodies \cup {NoBody} :
            /\ exposed' \in {exposed, exposed \cup {r.id}}
            /\ trouble' \in {trouble, trouble + 1}
            /\ creq' = [creq EXCEPT ![c] =
                         Call(creq[c].ep, creq[c].body, creq[c].auth, r,
                              Merge(creq[c].ep, old, creq[c].body))]
        BY <1>6 DEF LookFindsOther, Looking, Disturb, TypeOK, Record
      <3>1. creq[c] \in CallRequest /\ r \in Record
        BY <1>6 DEF LookFindsOther, Looking, TypeOK
      <3>2. creq'[c].dup \in Record /\ creq'[c] \in CallRequest
        BY <3>1 DEF TypeOK, Record, CallRequest, Merge, Call
      <3>3. exposed' \subseteq Nat /\ trouble' \in Nat
        BY <3>1 DEF TypeOK, Record
      <3> QED BY <1>6, <3>1, <3>2, <3>3 DEF LookFindsOther, Looking, TypeOK
    <2>2. InFlight'
      BY <1>6 DEF LookFindsOther, Looking, InFlight, TypeOK, Current
    <2>3. Answered' /\ LeftWithAnswer'
      BY <1>6 DEF LookFindsOther, Looking, Answered, LeftWithAnswer, Current
    <2> QED BY <2>1, <2>2, <2>3
  <1>7. CASE Add(c)
    <2>1. TypeOK'
      <3>1. creq[c] \in CallRequest
        BY <1>7 DEF Add, TypeOK
      <3>2. NewRecord(creq[c], cpc[c] = "importing") \in Record
        BY <3>1 DEF NewRecord, Record, CallRequest, TypeOK
      <3>3. promised' \subseteq
              [id : Nat, ep : Endpoints, body : Bodies, author : Users]
        BY <1>7, <3>1 DEF Add, TypeOK, CallRequest, Promise
      <3> QED BY <1>7, <3>2, <3>3 DEF Add, TypeOK
    <2>2. InFlight'
      BY <1>7 DEF Add, InFlight, TypeOK, Current
    <2>3. Answered'
      BY <1>7 DEF Add, Answered, Current
    <2>4. LeftWithAnswer'
      <3> SUFFICES ASSUME NEW i \in 1 .. nextId' - 1
                   PROVE  \/ \E r \in queue' : r.id = i
                          \/ \E m \in done' \cup refused' : m.id = i
                          \/ i \in erased'
        BY DEF LeftWithAnswer
      <3>1. CASE i = nextId
        <4>1. NewRecord(creq[c], cpc[c] = "importing").id = nextId
          BY DEF NewRecord
        <4> QED BY <1>7, <3>1, <4>1 DEF Add
      <3>2. CASE i \in 1 .. nextId - 1
        <4>1. queue \subseteq queue' /\ UNCHANGED <<done, refused, erased>>
          BY <1>7 DEF Add
        <4> QED BY <3>2, <4>1 DEF LeftWithAnswer
      <3>3. nextId \in Nat /\ nextId' = nextId + 1
        BY <1>7 DEF Add, TypeOK
      <3>4. i = nextId \/ i \in 1 .. nextId - 1
        BY <3>3
      <3> QED BY ONLY <3>1, <3>2, <3>4
    <2> QED BY <2>1, <2>2, <2>3, <2>4
  <1>8. CASE Put(c)
    <2>1. TypeOK'
      <3>1. creq[c].dup \in Record /\ creq[c] \in CallRequest
        BY <1>8 DEF Put, TypeOK
      <3>2. Rewritten(creq[c].dup, creq[c].kept) \in Record
        BY <3>1 DEF Rewritten, Record, CallRequest
      <3>3. queue' \subseteq Record
        BY <1>8, <3>2 DEF Put, TypeOK
      <3>4. exposed' \subseteq Nat
        BY <1>8, <3>1 DEF Put, TypeOK, Record
      <3>5. promised' \subseteq
              [id : Nat, ep : Endpoints, body : Bodies, author : Users]
        BY <1>8, <3>1 DEF Put, TypeOK, Record, CallRequest, Promise
      <3> QED BY <1>8, <3>3, <3>4, <3>5 DEF Put, TypeOK
    <2>2. InFlight'
      BY <1>8 DEF Put, InFlight, TypeOK, Current
    <2>3. Answered'
      BY <1>8 DEF Put, Answered, Current
    <2>4. LeftWithAnswer'
      <3>1. Rewritten(creq[c].dup, creq[c].kept).id = creq[c].dup.id
        BY DEF Rewritten
      <3>2. \A r \in queue : \E s \in queue' : s.id = r.id
        BY <1>8, <3>1 DEF Put
      <3> QED BY <1>8, <3>2 DEF Put, LeftWithAnswer
    <2> QED BY <2>1, <2>2, <2>3, <2>4
  <1>9. CASE NotQueued(c)
    <2>1. TypeOK'
      BY <1>9 DEF NotQueued, TypeOK
    <2>2. InFlight'
      BY <1>9 DEF NotQueued, InFlight, TypeOK, Current
    <2>3. Answered' /\ LeftWithAnswer'
      BY <1>9 DEF NotQueued, Answered, LeftWithAnswer, Current
    <2> QED BY <2>1, <2>2, <2>3
  <1> QED BY <1>1, <1>2, <1>3, <1>4, <1>5, <1>6, <1>7, <1>8, <1>9 DEF CallStep

LEMMA ImportStep ==
  ASSUME Inv, NEW c \in Callers, NEW entry \in Imports, Import(c, entry)
  PROVE  Inv'
  <1> USE ConstantsAssumption
      DEF Import, store, server, flushes, history, Procs, Inv
  <1>0. trouble' \in Nat
    <2> DEFINE same == {r \in queue : r.ep = entry.ep /\ r.body = entry.body}
    <2>1. CASE same = {}
      BY <2>1 DEF TypeOK
    <2>2. CASE same # {}
      BY <2>2 DEF TypeOK, Disturb
    <2> QED BY <2>1, <2>2
  <1>1. TypeOK'
    BY <1>0 DEF TypeOK, CallRequest, NoRecord, Call
  <1>2. InFlight'
    BY DEF InFlight, TypeOK, Current, Ask
  <1>3. Answered' /\ LeftWithAnswer'
    BY DEF Answered, LeftWithAnswer, Current
  <1> QED BY <1>1, <1>2, <1>3

(* Two records a flush could be at have the same id.                       *)
LEMMA CurrentId ==
  ASSUME TypeOK, NEW f \in Flushers, NEW r, NEW s, Current(f, r), Current(f, s)
  PROVE  r.id = s.id
  <1>1. r \in Record /\ s \in Record
    BY DEF Current, TypeOK
  <1>2. r.id \in Nat /\ s.id \in Nat /\ r.id <= s.id /\ s.id <= r.id
    BY <1>1 DEF Current, Record
  <1> QED BY <1>2

LEMMA FlushStepInv ==
  ASSUME Inv, NEW f \in Flushers, StartFlush(f) \/ FlushStep(f)
  PROVE  Inv'
  <1> USE ConstantsAssumption
      DEF store, server, calls, flushes, history, Procs, Inv, Answer
  <1>1. CASE StartFlush(f)
    <2>1. TypeOK'
      BY <1>1 DEF StartFlush, TypeOK
    <2>2. InFlight'
      BY <1>1 DEF StartFlush, InFlight, TypeOK, Current
    <2>3. Answered' /\ LeftWithAnswer'
      BY <1>1 DEF StartFlush, Answered, LeftWithAnswer, Current, TypeOK
    <2> QED BY <2>1, <2>2, <2>3
  <1>2. CASE Send(f)
    <2> PICK r \in todo[f] :
          /\ Current(f, r)
          /\ wire' = wire \cup
               {Ask(f, r.id, r.ep, r.body,
                    IF user # NoUser THEN user ELSE r.auth)}
      BY <1>2 DEF Send
    <2>1. TypeOK'
      BY <1>2 DEF Send, TypeOK, Record, Request, Ask
    <2>2. InFlight'
      BY <1>2 DEF Send, InFlight, TypeOK, Current, Ask
    <2>3. Answered'
      BY <1>2 DEF Send, Answered, Current, TypeOK
    <2>4. LeftWithAnswer'
      BY <1>2 DEF Send, LeftWithAnswer
    <2> QED BY <2>1, <2>2, <2>3, <2>4
  <1>3. CASE Undecryptable(f)
    <2> PICK r \in todo[f] : Current(f, r) /\ Advance(f, r, "failed")
      BY <1>3 DEF Undecryptable
    <2>1. TypeOK'
      BY <1>3 DEF Undecryptable, Disturb, Advance, TypeOK
    <2>2. InFlight'
      BY <1>3 DEF Undecryptable, Advance, InFlight, TypeOK, Current
    <2>3. Answered' /\ LeftWithAnswer'
      BY <1>3 DEF Undecryptable, Advance, Answered, LeftWithAnswer, Current,
                  TypeOK
    <2> QED BY <2>1, <2>2, <2>3
  <1>4. CASE Settle(f)
    <2> PICK r \in todo[f] :
          /\ Current(f, r)
          /\ queue' = {s \in queue : s.id # r.id}
          /\ \/ Advance(f, r, "synced")
             \/ Advance(f, r, "failed")
      BY <1>4 DEF Settle
    <2>1. TypeOK'
      BY <1>4 DEF Settle, Advance, TypeOK
    <2>2. InFlight'
      BY <1>4 DEF Settle, Advance, InFlight, TypeOK, Current
    <2>3. Answered'
      BY <1>4 DEF Settle, Advance, Answered, Current, TypeOK
    <2>4. \E m \in done \cup refused : m.id = r.id
      BY <1>4, CurrentId DEF Settle, Answered
    <2>5. LeftWithAnswer'
      BY <1>4, <2>4 DEF Settle, LeftWithAnswer
    <2> QED BY <2>1, <2>2, <2>3, <2>5
  <1>5. CASE Stop(f)
    <2>1. TypeOK'
      BY <1>5 DEF Stop, Return, TypeOK
    <2>2. InFlight'
      BY <1>5 DEF Stop, Return, InFlight, TypeOK, Current
    <2>3. Answered' /\ LeftWithAnswer'
      BY <1>5 DEF Stop, Return, Answered, LeftWithAnswer, Current, TypeOK
    <2> QED BY <2>1, <2>2, <2>3
  <1>6. CASE Retry(f)
    <2>1. TypeOK'
      BY <1>6 DEF Retry, TypeOK
    <2>2. InFlight'
      BY <1>6 DEF Retry, InFlight, TypeOK, Current
    <2>3. Answered' /\ LeftWithAnswer'
      BY <1>6 DEF Retry, Answered, LeftWithAnswer, Current, TypeOK
    <2> QED BY <2>1, <2>2, <2>3
  <1>7. CASE GiveUp(f)
    <2> PICK r \in todo[f] :
          /\ Current(f, r)
          /\ queue' = {s \in queue : s.id # r.id} \cup {r}
          /\ Advance(f, r, "failed")
      BY <1>7 DEF GiveUp
    <2>1. TypeOK'
      BY <1>7 DEF GiveUp, Advance, TypeOK
    <2>2. InFlight'
      BY <1>7 DEF GiveUp, Advance, InFlight, TypeOK, Current
    <2>3. Answered'
      BY <1>7 DEF GiveUp, Advance, Answered, Current, TypeOK
    <2>4. LeftWithAnswer'
      BY <1>7 DEF GiveUp, LeftWithAnswer
    <2> QED BY <2>1, <2>2, <2>3, <2>4
  <1>8. CASE EndFlush(f)
    <2>1. TypeOK'
      BY <1>8 DEF EndFlush, Return, TypeOK
    <2>2. InFlight'
      BY <1>8 DEF EndFlush, Return, InFlight, TypeOK, Current
    <2>3. Answered' /\ LeftWithAnswer'
      BY <1>8 DEF EndFlush, Return, Answered, LeftWithAnswer, Current, TypeOK
    <2> QED BY <2>1, <2>2, <2>3
  <1>9. CASE DropCredentials(f)
    <2> PICK r \in todo[f] :
          /\ Current(f, r)
          /\ queue' = {s \in queue : s.id # r.id}
          /\ erased' = erased \cup {r.id}
          /\ Advance(f, r, "failed")
      BY <1>9 DEF DropCredentials
    <2>1. TypeOK'
      <3>1. r.id \in Nat
        BY DEF TypeOK, Record
      <3>2. erased' \subseteq Nat /\ queue' \subseteq Record
        BY <3>1 DEF TypeOK
      <3>3. /\ UNCHANGED <<nextId, up, consent, done, refused, cpc, creq,
                          promised, exposed, user, online, wire, acts, trouble>>
            /\ fpc' = [fpc EXCEPT ![f] = "ready"]
            /\ todo' = [todo EXCEPT ![f] = @ \ {r}]
            /\ attempt' = [attempt EXCEPT ![f] = 0]
            /\ tally' = [tally EXCEPT ![f]["failed"] = @ + 1]
        BY <1>9 DEF DropCredentials, Advance
      <3> QED BY <3>2, <3>3 DEF TypeOK
    <2>2. InFlight'
      BY <1>9 DEF DropCredentials, Advance, InFlight, TypeOK, Current
    <2>3. Answered'
      BY <1>9 DEF DropCredentials, Advance, Answered, Current, TypeOK
    <2>4. LeftWithAnswer'
      BY <1>9 DEF DropCredentials, LeftWithAnswer
    <2> QED BY <2>1, <2>2, <2>3, <2>4
  <1> QED BY <1>1, <1>2, <1>3, <1>4, <1>5, <1>6, <1>7, <1>8, <1>9 DEF FlushStep

(* A request on the wire and the answer handed to whoever sent it.         *)
LEMMA DeliverStep ==
  ASSUME Inv, NEW m \in wire, NEW answer \in Answer, Deliver(m, answer),
         wire' \in {wire \ {m}, (wire \ {m}) \cup {Orphan(m)}},
         UNCHANGED <<todo, creq>>,
         answer \in {"ok", "refused"} => Entry(m) \in done' \cup refused',
         done \subseteq done', refused \subseteq refused'
  PROVE  /\ cpc' \in [Callers -> {"idle", "sent", "queueing", "adding",
                                  "putting", "importing"} \cup Answer]
         /\ fpc' \in [Flushers -> {"idle", "ready", "sent"} \cup Answer]
         /\ \A c \in Callers : cpc'[c] # "idle" => creq'[c] \in CallRequest
         /\ \A c \in Callers : cpc'[c] = "putting" => creq'[c].dup \in Record
         /\ wire' \subseteq Request
         /\ InFlight' /\ Answered'
  <1> USE ConstantsAssumption DEF Deliver, Inv, Procs
  <1>1. Orphan(m) \in Request /\ Orphan(m).from = Nobody
    BY DEF TypeOK, Request, Orphan, Ask
  <1>2. /\ cpc' \in [Callers -> {"idle", "sent", "queueing", "adding",
                                 "putting", "importing"} \cup Answer]
        /\ fpc' \in [Flushers -> {"idle", "ready", "sent"} \cup Answer]
        /\ wire' \subseteq Request
    BY <1>1 DEF TypeOK
  <1>3. /\ \A c \in Callers : cpc'[c] # "idle" => creq'[c] \in CallRequest
        /\ \A c \in Callers : cpc'[c] = "putting" => creq'[c].dup \in Record
    BY DEF TypeOK, InFlight, Answer
  <1>4. InFlight'
    <2>1. \A n \in wire' : n.from # Nobody => n \in wire /\ n.from # m.from
      BY <1>1 DEF InFlight
    <2>2. \A n \in wire' : n.from \in Callers => cpc'[n.from] = "sent"
      BY <2>1 DEF InFlight
    <2>3. \A n \in wire' : n.from \in Flushers =>
            /\ fpc'[n.from] = "sent"
            /\ \E r \in todo'[n.from] :
                 Current(n.from, r)' /\ n.id = r.id /\ n.ep = r.ep
                                     /\ n.body = r.body
      BY <2>1 DEF InFlight, Current
    <2>4. \A n, k \in wire' : n.from = k.from /\ n.from # Nobody => n = k
      BY <2>1 DEF InFlight
    <2> QED BY <2>2, <2>3, <2>4 DEF InFlight
  <1>5. Answered'
    <2> SUFFICES ASSUME NEW f \in Flushers, fpc'[f] \in {"ok", "refused"}
                 PROVE  \E r \in todo[f], n \in done' \cup refused' :
                          Current(f, r) /\ n.id = r.id /\ n.ep = r.ep
                                        /\ n.body = r.body
      BY DEF Answered, Current
    <2>1. CASE f = m.from
      BY <2>1 DEF InFlight, Entry, TypeOK
    <2>2. CASE f # m.from
      BY <2>2 DEF Answered, TypeOK
    <2> QED BY <2>1, <2>2
  <1> QED BY <1>2, <1>3, <1>4, <1>5

LEMMA WireStepInv ==
  ASSUME Inv, NEW m \in wire, Handle(m) \/ LoseAnswer(m)
  PROVE  Inv'
  <1> USE ConstantsAssumption
      DEF store, server, history, Inv, Answer, Disturb
  <1>1. CASE Handle(m)
    <2>1. PICK answer \in Answer :
            /\ Deliver(m, answer)
            /\ answer \in {"ok", "refused"} =>
                 Entry(m) \in done' \cup refused'
            /\ done' \in {done, done \cup {Entry(m)}}
            /\ refused' \in {refused, refused \cup {Entry(m)}}
            /\ consent' \in BOOLEAN /\ up' = up
            /\ trouble' \in {trouble, trouble + 1}
      BY <1>1 DEF Handle, Accept, Refuse, RefuseForConsent, RefuseToken, Fail,
                  TypeOK
    <2>2. /\ m \in Request /\ Entry(m) \in Handled
      BY DEF TypeOK, Request, Handled, Entry
    <2>3. TypeOK'
      BY <1>1, <2>1, <2>2, DeliverStep DEF Handle, TypeOK, Request
    <2>4. InFlight' /\ Answered'
      BY <1>1, <2>1, DeliverStep DEF Handle
    <2>5. LeftWithAnswer'
      BY <1>1, <2>1 DEF Handle, LeftWithAnswer
    <2> QED BY <2>3, <2>4, <2>5
  <1>2. CASE LoseAnswer(m)
    <2>1. TypeOK'
      BY <1>2, DeliverStep DEF LoseAnswer, TypeOK
    <2>2. InFlight' /\ Answered'
      BY <1>2, DeliverStep DEF LoseAnswer
    <2>3. LeftWithAnswer'
      BY <1>2 DEF LoseAnswer, LeftWithAnswer
    <2> QED BY <2>1, <2>2, <2>3
  <1> QED BY <1>1, <1>2

LEMMA EnvironmentStep ==
  ASSUME Inv,
         \/ Outage \/ Recover \/ SetOnline \/ Logout \/ Reload \/ EraseDevice
         \/ \E u \in Users : Login(u)
  PROVE  Inv'
  <1> USE ConstantsAssumption DEF store, server, calls, flushes, history, Inv,
                                  Disturb
  <1>1. CASE Outage \/ Recover \/ SetOnline \/ \E u \in Users : Login(u)
    <2> USE <1>1 DEF Outage, Recover, SetOnline, Login
    <2>1. TypeOK'
      <3>1. up' \in BOOLEAN /\ online' \in BOOLEAN
        BY DEF TypeOK
      <3>2. user' \in Users \cup {NoUser} /\ trouble' \in Nat
        BY DEF TypeOK
      <3> QED BY <3>1, <3>2 DEF TypeOK
    <2>2. InFlight'
      BY DEF InFlight, Current
    <2>3. Answered'
      BY DEF Answered, Current
    <2>4. LeftWithAnswer'
      BY DEF LeftWithAnswer
    <2> QED BY <2>1, <2>2, <2>3, <2>4
  <1>2. CASE Logout \/ Reload
    <2>1. TypeOK' /\ InFlight' /\ Answered'
      <3>1. user' \in Users \cup {NoUser} /\ trouble' \in Nat
        BY <1>2 DEF Logout, Reload, TypeOK
      <3> QED BY <1>2, <3>1, HaltStep DEF Logout, Reload, TypeOK
    <2>2. LeftWithAnswer'
      BY <1>2 DEF Logout, Reload, LeftWithAnswer
    <2> QED BY <2>1, <2>2
  <1>3. CASE EraseDevice
    <2>1. erased' \subseteq Nat
      <3>1. erased' = erased \cup {r.id : r \in queue} /\ erased \subseteq Nat
        BY <1>3 DEF EraseDevice, TypeOK
      <3>2. \A r \in queue : r.id \in Nat
        BY DEF TypeOK, Record
      <3> QED BY <3>1, <3>2
    <2>2. TypeOK' /\ InFlight' /\ Answered'
      BY <1>3, <2>1, HaltStep DEF EraseDevice, TypeOK
    <2>3. LeftWithAnswer'
      BY <1>3 DEF EraseDevice, LeftWithAnswer
    <2> QED BY <2>2, <2>3
  <1> QED BY <1>1, <1>2, <1>3

-----------------------------------------------------------------------------
LEMMA StutterStep ==
  ASSUME Inv, UNCHANGED vars
  PROVE  Inv'
  <1> USE DEF vars, store, server, calls, flushes, history, Inv
  <1>1. TypeOK'
    BY DEF TypeOK
  <1>2. InFlight' /\ Answered' /\ LeftWithAnswer'
    BY DEF InFlight, Answered, LeftWithAnswer, Current
  <1> QED BY <1>1, <1>2

LEMMA InvInductive == Spec => []Inv
  <1>1. Inv /\ [Next]_vars => Inv'
    BY ActStep, ImportStep, CallStepInv, FlushStepInv, WireStepInv,
       EnvironmentStep, StutterStep DEF Next
  <1> QED BY InitInv, <1>1, PTL DEF Spec

(* Every variable of the client and the server keeps its type, for every   *)
(* set of calls, flushes, learners and bodies.                             *)
THEOREM TypeCorrect == Spec => []TypeOK
  <1>1. Inv => TypeOK
    BY DEF Inv
  <1> QED BY InvInductive, <1>1, PTL

(* No interleaving of calls, flushes, reloads, logouts and failures makes  *)
(* a record leave the queue before the server has given a final answer to  *)
(* it (syncQueue, api.ts), unless the account is erased or it holds         *)
(* credentials.                                                            *)
THEOREM NoRecordLeavesUnanswered == Spec => []LeftWithAnswer
  <1>1. Inv => LeftWithAnswer
    BY DEF Inv
  <1> QED BY InvInductive, <1>1, PTL

-----------------------------------------------------------------------------
(* Saved work.  What a record of an id is about is said in many places at  *)
(* once: the store, the snapshots, the duplicates that calls are about to  *)
(* write over, and what the learner was told.                              *)
Putting == {c \in Callers : cpc[c] = "putting"}

Named(i, ep) ==
  \/ \E r \in queue : r.id = i /\ r.ep = ep
  \/ \E f \in Flushers : \E r \in todo[f] : r.id = i /\ r.ep = ep
  \/ \E c \in Putting : creq[c].dup.id = i /\ creq[c].ep = ep
  \/ \E p \in promised : p.id = i /\ p.ep = ep

(* All of them name ids that were given out, and agree on the endpoint.    *)
NamesAgree ==
  \A i \in Nat, ep \in Endpoints : Named(i, ep) =>
    /\ i < nextId
    /\ \A eq \in Endpoints : Named(i, eq) => eq = ep

(* The store holds an id once, and a snapshot the version that the store   *)
(* and other snapshots hold, unless the id was exposed.                    *)
OneVersion ==
  /\ \A r, s \in queue : r.id = s.id => r = s
  /\ \A f \in Flushers : \A r \in todo[f], s \in queue :
       r.id = s.id => r = s \/ r.id \in exposed
  /\ \A f, g \in Flushers : \A r \in todo[f], s \in todo[g] :
       r.id = s.id => r = s \/ r.id \in exposed

(* What a call is about to write over a duplicate is as good as what it    *)
(* was asked to save, and as the duplicate, if that could be read.         *)
Improving(c) ==
  LET q == creq[c] IN
  /\ q.dup.ep = q.ep
  /\ q.ep \notin Completions => q.kept = q.body
  /\ q.ep \in Completions =>
       /\ BodyAccuracy(q.kept) >= BodyAccuracy(q.body)
       /\ \/ BodyAccuracy(q.kept) >= BodyAccuracy(q.dup.body)
          \/ q.dup.id \in exposed

SavedInv ==
  /\ NamesAgree /\ OneVersion
  /\ \A c \in Putting : Improving(c)
  /\ SavedUnlessRaced

LEMMA SavedInit == Init => SavedInv
  BY DEF Init, SavedInv, NamesAgree, Named, Putting, OneVersion, SavedUnlessRaced

(* No id gets another endpoint as long as no name is given anew.           *)
LEMMA NoNewName ==
  ASSUME Inv, NamesAgree, nextId' = nextId,
         \A i \in Nat, ep \in Endpoints : Named(i, ep)' => Named(i, ep)
  PROVE  NamesAgree'
  BY DEF NamesAgree

(* Steps that write no record, promise nothing and begin no snapshot.      *)
LEMMA QuietStep ==
  ASSUME Inv, SavedInv, UNCHANGED <<queue, nextId, promised, exposed, erased>>,
         \A f \in Flushers : todo'[f] \subseteq todo[f],
         \A c \in Putting' : c \in Putting /\ creq'[c] = creq[c],
         done \subseteq done', refused \subseteq refused'
  PROVE  SavedInv'
  <1>1. NamesAgree'
    <2>1. ASSUME NEW i \in Nat, NEW ep \in Endpoints, Named(i, ep)'
          PROVE  Named(i, ep)
      BY <2>1 DEF Named
    <2> QED BY <2>1, NoNewName DEF SavedInv
  <1>2. OneVersion'
    <2>1. OneVersion
      BY DEF SavedInv
    <2> QED BY <2>1 DEF OneVersion
  <1>3. \A c \in Putting' : Improving(c)'
    BY DEF SavedInv, Improving
  <1>4. SavedUnlessRaced'
    <2>1. SavedUnlessRaced
      BY DEF SavedInv
    <2> QED BY <2>1 DEF SavedUnlessRaced
  <1> QED BY <1>1, <1>2, <1>3, <1>4 DEF SavedInv

(* The page goes away, with its calls and snapshots.                       *)
LEMMA HaltIsQuiet ==
  ASSUME Halt
  PROVE  Putting' = {} /\ \A f \in Flushers : todo'[f] = {}
  BY DEF Halt, Putting

LEMMA QuietCall ==
  ASSUME Inv, SavedInv, NEW c \in Callers,
         \/ \E ep \in Endpoints, body \in Bodies : Act(c, ep, body)
         \/ \E entry \in Imports : Import(c, entry)
         \/ CallEnds(c) \/ CallFallsBack(c) \/ LookFindsNone(c) \/ NotQueued(c)
  PROVE  SavedInv'
  <1>1. UNCHANGED <<queue, nextId, promised, exposed, erased, todo, done, refused>>
    BY DEF Act, Import, CallEnds, CallFallsBack, LookFindsNone, NotQueued, store,
           server, flushes, history
  <1>2. cpc'[c] # "putting"
        /\ \A k \in Callers \ {c} : cpc'[k] = cpc[k] /\ creq'[k] = creq[k]
    BY DEF Act, Import, CallEnds, CallFallsBack, LookFindsNone, NotQueued, Idle,
           Inv, TypeOK
  <1>3. \A k \in Putting' : k \in Putting /\ creq'[k] = creq[k]
    BY <1>2 DEF Putting
  <1> QED BY <1>1, <1>3, QuietStep

LEMMA QuietFlush ==
  ASSUME Inv, SavedInv, NEW f \in Flushers,
         Send(f) \/ Undecryptable(f) \/ Stop(f) \/ Retry(f) \/ EndFlush(f)
  PROVE  SavedInv'
  <1>1. UNCHANGED <<queue, nextId, promised, exposed, erased, cpc, creq, done,
                    refused>>
    BY DEF Send, Undecryptable, Stop, Retry, EndFlush, store, server, calls,
           history
  <1>2. \A g \in Flushers : todo'[g] \subseteq todo[g]
    BY DEF Send, Undecryptable, Advance, Stop, Return, Retry, EndFlush, Inv,
           TypeOK
  <1>3. \A k \in Putting' : k \in Putting /\ creq'[k] = creq[k]
    BY <1>1 DEF Putting
  <1> QED BY <1>1, <1>2, <1>3, QuietStep

LEMMA QuietWire ==
  ASSUME Inv, SavedInv, NEW m \in wire, Handle(m) \/ LoseAnswer(m)
  PROVE  SavedInv'
  <1>1. UNCHANGED <<queue, nextId, promised, exposed, erased, creq, todo>>
    BY DEF Handle, LoseAnswer, store, history
  <1>2. done \subseteq done' /\ refused \subseteq refused'
    BY DEF Handle, Accept, Refuse, RefuseForConsent, RefuseToken, Fail,
           LoseAnswer, server
  <1>3. \E answer \in Answer : Deliver(m, answer)
    BY DEF Handle, Accept, Refuse, RefuseForConsent, RefuseToken, Fail,
           LoseAnswer, Answer
  <1>4. \A k \in Putting' : k \in Putting
    BY <1>3 DEF Putting, Deliver, Answer
  <1> QED BY <1>1, <1>2, <1>4, QuietStep

LEMMA QuietElse ==
  ASSUME Inv, SavedInv,
         \/ Outage \/ Recover \/ SetOnline \/ Logout \/ Reload
         \/ \E u \in Users : Login(u)
         \/ \E c \in Callers : CallExpired(c)
         \/ UNCHANGED vars
  PROVE  SavedInv'
  <1>1. UNCHANGED <<queue, nextId, promised, exposed, erased, done, refused>>
    BY DEF Outage, Recover, SetOnline, Logout, Reload, Login, CallExpired, vars,
           store, server, history
  <1>2. Halt \/ UNCHANGED <<cpc, creq, todo>>
    BY DEF Outage, Recover, SetOnline, Logout, Reload, Login, CallExpired, vars,
           calls, flushes
  <1>3. /\ \A k \in Putting' : k \in Putting /\ creq'[k] = creq[k]
        /\ \A g \in Flushers : todo'[g] \subseteq todo[g]
    BY <1>2, HaltIsQuiet DEF Putting
  <1> QED BY <1>1, <1>3, QuietStep

LEMMA EraseStep ==
  ASSUME Inv, SavedInv, EraseDevice
  PROVE  SavedInv'
  <1>1. /\ queue' = {} /\ erased' = erased \cup {r.id : r \in queue}
        /\ UNCHANGED <<nextId, promised, exposed, done, refused>>
        /\ Putting' = {} /\ \A f \in Flushers : todo'[f] = {}
    BY HaltIsQuiet DEF EraseDevice, server
  <1>2. NamesAgree'
    <2>1. ASSUME NEW i \in Nat, NEW ep \in Endpoints, Named(i, ep)'
          PROVE  Named(i, ep)
      BY <1>1, <2>1 DEF Named
    <2> QED BY <1>1, <2>1, NoNewName DEF SavedInv
  <1>3. OneVersion' /\ \A c \in Putting' : Improving(c)'
    BY <1>1 DEF OneVersion
  <1>4. SavedUnlessRaced'
    <2> SUFFICES ASSUME NEW p \in promised
                 PROVE  \/ \E x \in done \cup refused : Supersedes(x, p)
                        \/ p.id \in exposed \cup erased'
      BY <1>1 DEF SavedUnlessRaced
    <2>1. \/ \E x \in queue \cup done \cup refused : Supersedes(x, p)
          \/ p.id \in exposed \cup erased
      BY DEF SavedInv, SavedUnlessRaced
    <2>2. \A x \in queue : Supersedes(x, p) => p.id \in erased'
      BY <1>1 DEF Supersedes
    <2> QED BY <1>1, <2>1, <2>2
  <1> QED BY <1>2, <1>3, <1>4 DEF SavedInv

-----------------------------------------------------------------------------
(* The steps that write a record, make a promise or begin a snapshot.      *)
LEMMA AccuracyType ==
  ASSUME NEW b \in Bodies \cup {NoBody}
  PROVE  BodyAccuracy(b) \in Nat
  BY ConstantsAssumption DEF BodyAccuracy

(* mergeQueuedBody is as good as the new body, and as the old one if the   *)
(* endpoint is a completion.                                               *)
LEMMA MergeImproves ==
  ASSUME NEW ep \in Endpoints, NEW old \in Bodies \cup {NoBody},
         NEW new \in Bodies
  PROVE  /\ ep \notin Completions => Merge(ep, old, new) = new
         /\ ep \in Completions =>
              /\ BodyAccuracy(Merge(ep, old, new)) >= BodyAccuracy(new)
              /\ BodyAccuracy(Merge(ep, old, new)) >= BodyAccuracy(old)
  <1>1. BodyAccuracy(old) \in Nat /\ BodyAccuracy(new) \in Nat
    BY AccuracyType
  <1> QED BY <1>1 DEF Merge

LEMMA SameStep ==
  ASSUME Inv, SavedInv, NEW c \in Callers, LookFindsSame(c)
  PROVE  SavedInv'
  <1> PICK r \in queue :
        promised' = promised \cup {Promise(r.id, r.ep, r.body, creq[c].auth)}
    BY DEF LookFindsSame
  <1> DEFINE new == Promise(r.id, r.ep, r.body, creq[c].auth)
  <1>1. new.id = r.id /\ new.ep = r.ep /\ new.body = r.body
    BY DEF Promise
  <1>2. r \in Record
    BY DEF Inv, TypeOK
  <1>3. promised' = promised \cup {new}
    OBVIOUS
  <1> HIDE DEF new
  <1>4. UNCHANGED <<queue, nextId, todo, exposed, erased, done, refused>>
    BY DEF LookFindsSame, store, flushes, server
  <1>5. \A k \in Putting' : k \in Putting /\ creq'[k] = creq[k]
    BY DEF LookFindsSame, Idle, Putting, Inv, TypeOK
  <1>6. NamesAgree'
    <2>1. ASSUME NEW i \in Nat, NEW ep \in Endpoints, Named(i, ep)'
          PROVE  Named(i, ep)
      BY <1>1, <1>3, <1>4, <1>5, <2>1 DEF Named
    <2> QED BY <1>4, <2>1, NoNewName DEF SavedInv
  <1>7. OneVersion'
    BY <1>4 DEF SavedInv, OneVersion
  <1>8. \A k \in Putting' : Improving(k)'
    BY <1>4, <1>5 DEF SavedInv, Improving
  <1>9. SavedUnlessRaced'
    <2>1. Supersedes(r, new)
      BY <1>1, <1>2, AccuracyType DEF Supersedes, Record
    <2> QED BY <1>3, <1>4, <2>1 DEF SavedInv, SavedUnlessRaced
  <1> QED BY <1>6, <1>7, <1>8, <1>9 DEF SavedInv

LEMMA OtherStep ==
  ASSUME Inv, SavedInv, NEW c \in Callers, LookFindsOther(c)
  PROVE  SavedInv'
  <1> DEFINE Shown(r, old) ==
        /\ r.ep = creq[c].ep
        /\ IF old = r.body THEN exposed' = exposed
                           ELSE exposed' = exposed \cup {r.id}
        /\ creq' = [creq EXCEPT ![c] =
                     Call(creq[c].ep, creq[c].body, creq[c].auth, r,
                          Merge(creq[c].ep, old, creq[c].body))]
  <1> PICK r \in queue : \E old \in {r.body, NoBody} : Shown(r, old)
    BY DEF LookFindsOther, Duplicate
  <1> PICK old \in {r.body, NoBody} : Shown(r, old)
    OBVIOUS
  <1>1. creq[c] \in CallRequest /\ r \in Record
        /\ creq \in [Callers -> CallRequest \cup {NoRecord}]
    BY DEF LookFindsOther, Looking, Inv, TypeOK
  <1>2. creq[c].ep \in Endpoints /\ creq[c].body \in Bodies
        /\ r.body \in Bodies \cup {NoBody} /\ old \in Bodies \cup {NoBody}
    BY <1>1 DEF CallRequest, Record
  <1>3. /\ creq'[c].ep = creq[c].ep /\ creq'[c].body = creq[c].body
        /\ creq'[c].dup = r
        /\ creq'[c].kept = Merge(creq[c].ep, old, creq[c].body)
        /\ \A k \in Callers \ {c} : creq'[k] = creq[k]
    BY <1>1 DEF Call
  <1>4. UNCHANGED <<queue, nextId, todo, promised, erased, done, refused>>
    BY DEF LookFindsOther, store, flushes, server
  <1>5. \A k \in Putting' : k = c \/ k \in Putting
    BY DEF LookFindsOther, Putting
  <1>6. NamesAgree'
    <2>1. ASSUME NEW i \in Nat, NEW ep \in Endpoints, Named(i, ep)'
          PROVE  Named(i, ep)
      BY <1>3, <1>4, <1>5, <2>1 DEF Named, Putting
    <2> QED BY <1>4, <2>1, NoNewName DEF SavedInv
  <1>7. OneVersion'
    BY <1>4 DEF SavedInv, OneVersion
  <1>8. ASSUME NEW k \in Putting'
        PROVE  Improving(k)'
    <2>1. CASE k = c
      <3> DEFINE q == creq[c]
      <3>1. /\ q.ep \notin Completions => Merge(q.ep, old, q.body) = q.body
            /\ q.ep \in Completions =>
                 /\ BodyAccuracy(Merge(q.ep, old, q.body)) >= BodyAccuracy(q.body)
                 /\ BodyAccuracy(Merge(q.ep, old, q.body)) >= BodyAccuracy(old)
        BY <1>2, MergeImproves
      <3> HIDE DEF q
      <3>2. /\ creq'[c].ep = q.ep /\ creq'[c].body = q.body
            /\ creq'[c].kept = Merge(q.ep, old, q.body)
        BY <1>3 DEF q
      <3>3. old = r.body \/ creq'[c].dup.id \in exposed'
        BY <1>3
      <3>4. creq'[c].dup.ep = creq'[c].ep
        BY <1>3
      <3> QED BY <1>3, <2>1, <3>1, <3>2, <3>3, <3>4 DEF Improving
    <2>2. CASE k # c
      BY <1>3, <1>5, <2>2 DEF SavedInv, Improving, Putting
    <2> QED BY <2>1, <2>2
  <1>9. SavedUnlessRaced'
    BY <1>4 DEF SavedInv, SavedUnlessRaced
  <1> QED BY <1>6, <1>7, <1>8, <1>9 DEF SavedInv

LEMMA StartStep ==
  ASSUME Inv, SavedInv, NEW f \in Flushers, StartFlush(f)
  PROVE  SavedInv'
  <1>1. /\ UNCHANGED <<queue, nextId, promised, exposed, erased, cpc, creq, done,
                       refused>>
        /\ todo'[f] = queue /\ \A g \in Flushers \ {f} : todo'[g] = todo[g]
    BY DEF StartFlush, store, server, calls, history, Inv, TypeOK
  <1>2. NamesAgree'
    <2>1. ASSUME NEW i \in Nat, NEW ep \in Endpoints, Named(i, ep)'
          PROVE  Named(i, ep)
      BY <1>1, <2>1 DEF Named, Putting
    <2> QED BY <1>1, <2>1, NoNewName DEF SavedInv
  <1>3. OneVersion'
    <2>1. OneVersion
      BY DEF SavedInv
    <2>2. \A g \in Flushers : \A r \in todo'[g], s \in queue :
            r.id = s.id => r = s \/ r.id \in exposed
      BY <1>1, <2>1 DEF OneVersion
    <2>3. ASSUME NEW g \in Flushers, NEW h \in Flushers, NEW r \in todo'[g],
                 NEW s \in todo'[h], r.id = s.id
          PROVE  r = s \/ r.id \in exposed
      <3>1. CASE g = f
        BY <1>1, <2>2, <2>3, <3>1
      <3>2. CASE h = f
        BY <1>1, <2>2, <2>3, <3>2
      <3>3. CASE g # f /\ h # f
        BY <1>1, <2>1, <2>3, <3>3 DEF OneVersion
      <3> QED BY <3>1, <3>2, <3>3
    <2> QED BY <1>1, <2>1, <2>2, <2>3 DEF OneVersion
  <1>4. \A k \in Putting' : Improving(k)'
    BY <1>1 DEF SavedInv, Improving, Putting
  <1>5. SavedUnlessRaced'
    BY <1>1 DEF SavedInv, SavedUnlessRaced
  <1> QED BY <1>2, <1>3, <1>4, <1>5 DEF SavedInv

LEMMA SettleStep ==
  ASSUME Inv, SavedInv, NEW f \in Flushers, Settle(f)
  PROVE  SavedInv'
  <1> PICK r \in todo[f] :
        /\ Current(f, r)
        /\ queue' = {s \in queue : s.id # r.id}
        /\ todo' = [todo EXCEPT ![f] = @ \ {r}]
    BY DEF Settle, Advance
  <1>1. UNCHANGED <<nextId, promised, exposed, erased, cpc, creq, done, refused>>
    BY DEF Settle, server, calls, history
  <1>2. \A g \in Flushers : todo'[g] \subseteq todo[g]
    BY DEF Inv, TypeOK
  <1>3. NamesAgree'
    <2>1. ASSUME NEW i \in Nat, NEW ep \in Endpoints, Named(i, ep)'
          PROVE  Named(i, ep)
      BY <1>1, <1>2, <2>1 DEF Named, Putting
    <2> QED BY <1>1, <2>1, NoNewName DEF SavedInv
  <1>4. OneVersion'
    <2>1. OneVersion /\ queue' \subseteq queue
      BY DEF SavedInv
    <2> QED BY <1>1, <1>2, <2>1 DEF OneVersion
  <1>5. \A k \in Putting' : Improving(k)'
    BY <1>1 DEF SavedInv, Improving, Putting
  <1>6. SavedUnlessRaced'
    <2> SUFFICES ASSUME NEW p \in promised
                 PROVE  \/ \E x \in queue' \cup done \cup refused :
                             Supersedes(x, p)
                        \/ p.id \in exposed \cup erased
      BY <1>1 DEF SavedUnlessRaced
    <2>1. \/ \E x \in queue \cup done \cup refused : Supersedes(x, p)
          \/ p.id \in exposed \cup erased
      BY DEF SavedInv, SavedUnlessRaced
    <2>2. ASSUME NEW x \in queue, x \notin queue', Supersedes(x, p),
                 p.id \notin exposed
          PROVE  \E m \in done \cup refused : Supersedes(m, p)
      <3>1. PICK t \in todo[f], m \in done \cup refused :
              Current(f, t) /\ m.id = t.id /\ m.body = t.body
        BY DEF Settle, Inv, Answered
      <3>2. t.id = r.id
        BY <3>1, CurrentId DEF Inv
      <3>3. x.id = r.id /\ x.id = p.id
        BY <2>2 DEF Supersedes
      <3>4. t = x
        BY <2>2, <3>2, <3>3 DEF SavedInv, OneVersion
      <3> QED BY <2>2, <3>1, <3>4 DEF Supersedes
    <2> QED BY <2>1, <2>2
  <1> QED BY <1>3, <1>4, <1>5, <1>6 DEF SavedInv

(* Credentials that leave the queue are counted as erased.                 *)
LEMMA DropStep ==
  ASSUME Inv, SavedInv, NEW f \in Flushers, DropCredentials(f)
  PROVE  SavedInv'
  <1> PICK r \in todo[f] :
        /\ queue' = {s \in queue : s.id # r.id}
        /\ erased' = erased \cup {r.id}
        /\ todo' = [todo EXCEPT ![f] = @ \ {r}]
    BY DEF DropCredentials, Advance
  <1>1. UNCHANGED <<nextId, promised, exposed, cpc, creq, done, refused>>
    BY DEF DropCredentials, server, calls
  <1>2. \A g \in Flushers : todo'[g] \subseteq todo[g]
    BY DEF Inv, TypeOK
  <1>3. NamesAgree'
    <2>1. ASSUME NEW i \in Nat, NEW ep \in Endpoints, Named(i, ep)'
          PROVE  Named(i, ep)
      BY <1>1, <1>2, <2>1 DEF Named, Putting
    <2> QED BY <1>1, <2>1, NoNewName DEF SavedInv
  <1>4. OneVersion'
    <2>1. OneVersion /\ queue' \subseteq queue
      BY DEF SavedInv
    <2> QED BY <1>1, <1>2, <2>1 DEF OneVersion
  <1>5. \A k \in Putting' : Improving(k)'
    BY <1>1 DEF SavedInv, Improving, Putting
  <1>6. SavedUnlessRaced'
    <2> SUFFICES ASSUME NEW p \in promised
                 PROVE  \/ \E x \in queue' \cup done \cup refused :
                             Supersedes(x, p)
                        \/ p.id \in exposed \cup erased'
      BY <1>1 DEF SavedUnlessRaced
    <2>1. \/ \E x \in queue \cup done \cup refused : Supersedes(x, p)
          \/ p.id \in exposed \cup erased
      BY DEF SavedInv, SavedUnlessRaced
    <2>2. \A x \in queue \ queue' : Supersedes(x, p) => p.id \in erased'
      BY DEF Supersedes
    <2> QED BY <2>1, <2>2
  <1> QED BY <1>3, <1>4, <1>5, <1>6 DEF SavedInv

LEMMA GiveUpStep ==
  ASSUME Inv, SavedInv, NEW f \in Flushers, GiveUp(f)
  PROVE  SavedInv'
  <1> PICK r \in todo[f] :
        /\ queue' = {s \in queue : s.id # r.id} \cup {r}
        /\ todo' = [todo EXCEPT ![f] = @ \ {r}]
    BY DEF GiveUp, Advance
  <1>1. UNCHANGED <<nextId, promised, exposed, erased, cpc, creq, done, refused>>
    BY DEF GiveUp, server, calls, history
  <1>2. \A g \in Flushers : todo'[g] \subseteq todo[g]
    BY DEF Inv, TypeOK
  <1>3. NamesAgree'
    <2>1. ASSUME NEW i \in Nat, NEW ep \in Endpoints, Named(i, ep)'
          PROVE  Named(i, ep)
      BY <1>1, <1>2, <2>1 DEF Named, Putting
    <2> QED BY <1>1, <2>1, NoNewName DEF SavedInv
  <1>4. OneVersion'
    <2>1. OneVersion
      BY DEF SavedInv
    <2>2. \A s, t \in queue' : s.id = t.id => s = t
      BY <2>1 DEF OneVersion
    <2>3. \A g \in Flushers : \A t \in todo'[g], s \in queue' :
            t.id = s.id => t = s \/ t.id \in exposed
      BY <1>2, <2>1 DEF OneVersion
    <2>4. \A g, h \in Flushers : \A t \in todo'[g], s \in todo'[h] :
            t.id = s.id => t = s \/ t.id \in exposed
      BY <1>2, <2>1 DEF OneVersion
    <2> QED BY <1>1, <2>2, <2>3, <2>4 DEF OneVersion
  <1>5. \A k \in Putting' : Improving(k)'
    BY <1>1 DEF SavedInv, Improving, Putting
  <1>6. SavedUnlessRaced'
    <2> SUFFICES ASSUME NEW p \in promised
                 PROVE  \/ \E x \in queue' \cup done \cup refused :
                             Supersedes(x, p)
                        \/ p.id \in exposed \cup erased
      BY <1>1 DEF SavedUnlessRaced
    <2>1. \/ \E x \in queue \cup done \cup refused : Supersedes(x, p)
          \/ p.id \in exposed \cup erased
      BY DEF SavedInv, SavedUnlessRaced
    <2>2. ASSUME NEW x \in queue, Supersedes(x, p), p.id \notin exposed
          PROVE  x \in queue'
      <3>1. x.id = p.id
        BY <2>2 DEF Supersedes
      <3>2. x.id = r.id => x = r
        BY <2>2, <3>1 DEF SavedInv, OneVersion
      <3> QED BY <3>2
    <2> QED BY <2>1, <2>2
  <1> QED BY <1>3, <1>4, <1>5, <1>6 DEF SavedInv

(* A new record has an id that nothing names yet.                          *)
LEMMA AddStep ==
  ASSUME Inv, SavedInv, SubtleAvailable, NEW c \in Callers, Add(c)
  PROVE  SavedInv'
  <1> DEFINE q == creq[c]
             new == NewRecord(q, cpc[c] = "importing")
             told == Promise(nextId, q.ep, q.body, q.auth)
  <1>1. q \in CallRequest
    BY DEF Add, Inv, TypeOK
  <1>2. q.ep \in Endpoints /\ q.body \in Bodies
    BY <1>1 DEF CallRequest
  <1>3. new.id = nextId /\ new.ep = q.ep /\ new.body = q.body
    BY DEF NewRecord
  <1>4. told.id = nextId /\ told.ep = q.ep /\ told.body = q.body
    BY DEF Promise
  <1>5. /\ queue' = queue \cup {new} /\ nextId' = nextId + 1
        /\ promised' = promised \cup {told}
        /\ UNCHANGED <<todo, exposed, erased, done, refused>>
    BY DEF Add, flushes, server
  <1>6. \A k \in Putting' : k \in Putting /\ creq'[k] = creq[k]
    BY DEF Add, Idle, Putting, Inv, TypeOK
  <1>7. nextId \in Nat
    BY DEF Inv, TypeOK
  <1> HIDE DEF q, new, told
  <1>8. \A i \in Nat, ep \in Endpoints :
          Named(i, ep) => i < nextId /\ \A eq \in Endpoints : Named(i, eq) => eq = ep
    BY DEF SavedInv, NamesAgree
  <1>9. ASSUME NEW i \in Nat, NEW ep \in Endpoints, Named(i, ep)'
        PROVE  Named(i, ep) \/ (i = nextId /\ ep = q.ep)
    BY <1>3, <1>4, <1>5, <1>6, <1>9 DEF Named
  <1>10. NamesAgree'
    <2> SUFFICES ASSUME NEW i \in Nat, NEW ep \in Endpoints, Named(i, ep)'
                 PROVE  /\ i < nextId'
                        /\ \A eq \in Endpoints : Named(i, eq)' => eq = ep
      BY DEF NamesAgree
    <2>1. CASE i = nextId
      <3>1. \A eq \in Endpoints : ~Named(i, eq)
        BY <1>7, <1>8, <2>1
      <3> QED BY <1>5, <1>7, <1>9, <2>1, <3>1
    <2>2. CASE i # nextId
      BY <1>5, <1>7, <1>8, <1>9, <2>2
    <2> QED BY <2>1, <2>2
  <1>11. /\ \A r \in queue : r.id # nextId
         /\ \A f \in Flushers : \A r \in todo[f] : r.id # nextId
    <2>1. \A ep \in Endpoints : ~Named(nextId, ep)
      BY <1>7, <1>8
    <2>2. /\ \A r \in queue : r.ep \in Endpoints
          /\ \A f \in Flushers : \A r \in todo[f] : r.ep \in Endpoints
      BY DEF Inv, TypeOK, Record
    <2> QED BY <2>1, <2>2 DEF Named
  <1>12. OneVersion'
    <2>1. OneVersion
      BY DEF SavedInv
    <2>2. \A s, t \in queue' : s.id = t.id => s = t
      BY <1>3, <1>5, <1>11, <2>1 DEF OneVersion
    <2>3. \A g \in Flushers : \A t \in todo[g], s \in queue' :
            t.id = s.id => t = s \/ t.id \in exposed
      BY <1>3, <1>5, <1>11, <2>1 DEF OneVersion
    <2> QED BY <1>5, <2>1, <2>2, <2>3 DEF OneVersion
  <1>13. \A k \in Putting' : Improving(k)'
    BY <1>5, <1>6 DEF SavedInv, Improving
  <1>14. SavedUnlessRaced'
    <2>1. Supersedes(new, told)
      BY <1>2, <1>3, <1>4, AccuracyType DEF Supersedes
    <2> QED BY <1>5, <2>1 DEF SavedInv, SavedUnlessRaced
  <1> QED BY <1>10, <1>12, <1>13, <1>14 DEF SavedInv

(* A write over a duplicate from a copy that is still current leaves what   *)
(* is at least as good; from any other copy it exposes the id.              *)
LEMMA PutStep ==
  ASSUME Inv, SavedInv, SubtleAvailable, NEW c \in Callers, Put(c)
  PROVE  SavedInv'
  <1> DEFINE q == creq[c]
             d == q.dup
             new == Rewritten(d, q.kept)
             told == Promise(d.id, q.ep, q.body, q.auth)
  <1>1. c \in Putting /\ q \in CallRequest /\ d \in Record
    BY DEF Put, Putting, Inv, TypeOK
  <1>2. q.ep \in Endpoints /\ q.body \in Bodies
        /\ q.kept \in Bodies \cup {NoBody}
        /\ d.id \in Nat /\ d.body \in Bodies \cup {NoBody}
    BY <1>1 DEF CallRequest, Record
  <1>3. /\ d.ep = q.ep
        /\ q.ep \notin Completions => q.kept = q.body
        /\ q.ep \in Completions =>
             /\ BodyAccuracy(q.kept) >= BodyAccuracy(q.body)
             /\ \/ BodyAccuracy(q.kept) >= BodyAccuracy(d.body)
                \/ d.id \in exposed
    BY <1>1 DEF SavedInv, Improving
  <1>4. new.id = d.id /\ new.ep = q.ep /\ new.body = q.kept
    BY <1>3 DEF Rewritten
  <1>5. told.id = d.id /\ told.ep = q.ep /\ told.body = q.body
    BY DEF Promise
  <1>6. /\ queue' = {s \in queue : s.id # d.id} \cup {new}
        /\ exposed' = IF Stale(d) THEN exposed \cup {d.id} ELSE exposed
        /\ promised' = {p \in promised : p.id # d.id \/ q.ep \in Completions}
                         \cup {told}
        /\ UNCHANGED <<nextId, todo, erased, done, refused>>
    BY DEF Put, flushes, server
  <1>7. \A k \in Putting' : k \in Putting /\ creq'[k] = creq[k]
    BY DEF Put, Idle, Putting, Inv, TypeOK
  <1>8. \A ep \in Endpoints : Named(d.id, ep) => ep = q.ep
    <2>1. Named(d.id, q.ep)
      BY <1>1 DEF Named
    <2> QED BY <1>2, <2>1 DEF SavedInv, NamesAgree
  <1>9. Named(d.id, q.ep)
    BY <1>1 DEF Named
  <1> HIDE DEF q, d, new, told
  <1>10. NamesAgree'
    <2>1. ASSUME NEW i \in Nat, NEW ep \in Endpoints, Named(i, ep)'
          PROVE  Named(i, ep)
      <3>1. CASE i = d.id /\ ep = q.ep
        BY <1>9, <3>1
      <3>2. CASE ~(i = d.id /\ ep = q.ep)
        BY <1>4, <1>5, <1>6, <1>7, <2>1, <3>2 DEF Named
      <3> QED BY <3>1, <3>2
    <2> QED BY <1>6, <2>1, NoNewName DEF SavedInv
  <1>11. exposed \subseteq exposed'
    BY <1>6
  <1>12. d.id \notin exposed' =>
           /\ \A s \in queue : s.id = d.id => s = d
           /\ \A f \in Flushers : \A s \in todo[f] : s.id # d.id
    BY <1>6 DEF Stale
  <1>13. OneVersion'
    <2>1. OneVersion
      BY DEF SavedInv
    <2>2. \A s, t \in queue' : s.id = t.id => s = t
      BY <1>4, <1>6, <2>1 DEF OneVersion
    <2>3. \A g \in Flushers : \A t \in todo[g], s \in queue' :
            t.id = s.id => t = s \/ t.id \in exposed'
      <3> SUFFICES ASSUME NEW g \in Flushers, NEW t \in todo[g],
                          NEW s \in queue', t.id = s.id
                   PROVE  t = s \/ t.id \in exposed'
        OBVIOUS
      <3>1. CASE s = new
        BY <1>4, <1>12, <3>1
      <3>2. CASE s # new
        BY <1>6, <1>11, <2>1, <3>2 DEF OneVersion
      <3> QED BY <3>1, <3>2
    <2>4. \A g, h \in Flushers : \A t \in todo[g], s \in todo[h] :
            t.id = s.id => t = s \/ t.id \in exposed'
      BY <1>11, <2>1 DEF OneVersion
    <2> QED BY <1>6, <2>2, <2>3, <2>4 DEF OneVersion
  <1>14. \A k \in Putting' : Improving(k)'
    BY <1>7, <1>11 DEF SavedInv, Improving
  <1>15. SavedUnlessRaced'
    <2> SUFFICES ASSUME NEW p \in promised', p.id \notin exposed' \cup erased
                 PROVE  \E x \in queue' \cup done \cup refused : Supersedes(x, p)
      BY <1>6 DEF SavedUnlessRaced
    <2>1. CASE p = told
      BY <1>2, <1>3, <1>4, <1>5, <1>6, <2>1, AccuracyType DEF Supersedes
    <2>2. CASE p # told
      <3>1. p \in promised /\ (p.id # d.id \/ q.ep \in Completions)
        BY <1>6, <2>2
      <3>2. PICK x \in queue \cup done \cup refused : Supersedes(x, p)
        BY <1>11, <3>1 DEF SavedInv, SavedUnlessRaced
      <3>3. CASE x \notin queue \/ x.id # d.id
        BY <1>6, <3>2, <3>3
      <3>4. CASE x \in queue /\ x.id = d.id
        <4>1. p.id = d.id /\ x = d
          BY <1>12, <3>2, <3>4 DEF Supersedes
        <4>2. p.ep = q.ep /\ p.body \in Bodies
          <5>1. p.ep \in Endpoints /\ p.body \in Bodies
            BY <3>1 DEF Inv, TypeOK
          <5>2. Named(d.id, p.ep)
            BY <3>1, <4>1 DEF Named
          <5> QED BY <1>8, <5>1, <5>2
        <4>3. q.ep \in Completions
          BY <3>1, <4>1
        <4>4. BodyAccuracy(q.kept) >= BodyAccuracy(d.body)
          BY <1>3, <1>11, <4>1, <4>3
        <4>5. BodyAccuracy(d.body) >= BodyAccuracy(p.body)
          BY <3>2, <4>1, <4>2, <4>3 DEF Supersedes
        <4>6. BodyAccuracy(q.kept) >= BodyAccuracy(p.body)
          <5>1. /\ BodyAccuracy(q.kept) \in Nat /\ BodyAccuracy(d.body) \in Nat
                /\ BodyAccuracy(p.body) \in Nat
            BY <1>2, <4>2, AccuracyType
          <5> QED BY <4>4, <4>5, <5>1
        <4>7. Supersedes(new, p)
          BY <1>4, <4>1, <4>2, <4>3, <4>6 DEF Supersedes
        <4> QED BY <1>6, <4>7
      <3> QED BY <3>3, <3>4
    <2> QED BY <2>1, <2>2
  <1> QED BY <1>10, <1>13, <1>14, <1>15 DEF SavedInv

LEMMA SavedStep ==
  ASSUME Inv, SavedInv, SubtleAvailable, [Next]_vars
  PROVE  SavedInv'
  <1>1. CASE \E c \in Callers, ep \in Endpoints, body \in Bodies : Act(c, ep, body)
    BY <1>1, QuietCall
  <1>2. CASE \E c \in Callers, entry \in Imports : Import(c, entry)
    BY <1>2, QuietCall
  <1>3. ASSUME NEW c \in Callers, CallStep(c)
        PROVE  SavedInv'
    BY <1>3, QuietCall, QuietElse, SameStep, OtherStep, AddStep, PutStep
       DEF CallStep
  <1>4. ASSUME NEW f \in Flushers, StartFlush(f) \/ FlushStep(f)
        PROVE  SavedInv'
    BY <1>4, QuietFlush, StartStep, SettleStep, DropStep, GiveUpStep DEF FlushStep
  <1>5. CASE \E m \in wire : Handle(m) \/ LoseAnswer(m)
    BY <1>5, QuietWire
  <1>6. CASE EraseDevice
    BY <1>6, EraseStep
  <1>7. CASE \/ Outage \/ Recover \/ SetOnline \/ Logout \/ Reload
             \/ \E u \in Users : Login(u)
             \/ UNCHANGED vars
    BY <1>7, QuietElse
  <1> QED BY <1>1, <1>2, <1>3, <1>4, <1>5, <1>6, <1>7 DEF Next

(* Where the client can encrypt, work reported as saved is queued or       *)
(* answered in at least as good a version, whatever calls, flushes, logins *)
(* and failures overlap, but for records written from a stale copy, under  *)
(* a flush or without having been readable (queueRequest, syncQueue).      *)
(* Without crypto.subtle a record is stored without its body.              *)
THEOREM SavedWorkIsKept ==
  ASSUME SubtleAvailable
  PROVE  Spec => []SavedUnlessRaced
  <1>1. Inv /\ SavedInv /\ [Next]_vars => SavedInv'
    BY SavedStep
  <1>2. SavedInv => SavedUnlessRaced
    BY DEF SavedInv
  <1> QED BY InvInductive, SavedInit, <1>1, <1>2, PTL DEF Spec
=============================================================================
