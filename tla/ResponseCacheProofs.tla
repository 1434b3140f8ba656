------------------------ MODULE ResponseCacheProofs ------------------------
(***************************************************************************)
(* Proofs about ResponseCache, for every set of mutations and of GETs and  *)
(* every choice of reads and kinds that fit each other.                    *)
(***************************************************************************)
EXTENDS ResponseCache, TLAPS

-----------------------------------------------------------------------------
(* The invariant.                                                          *)

\* Where a mutation is, by the step of its call.
Placed(m) ==
  LET s == calls[m].step IN
  /\ s # "new" => m \in DOMAIN kind
  /\ s \in {"new", "sent"} => m \notin done
  /\ s = "handled" => m \in done
  /\ s \in {"new", "sent", "handled", "queueing"} =>
       m \notin queue /\ replay.of # m
  /\ s = "page" => m \in done \cup queue \cup dropped

\* Where the record of a replay is.
Replayed ==
  /\ queue \subseteq DOMAIN kind
  /\ IF replay.step = "none" THEN replay.of = None
     ELSE replay.of \in DOMAIN kind
  /\ replay.step \in {"sent", "handled"} => replay.of \in queue
  /\ replay.step \in {"handled", "removed"} => replay.of \in done

\* An answer takes account of nothing that is not done.
Gots == \A g \in Gets : gets[g] # Idle => gets[g].got \subseteq done

\* A page that shows the read, or is closed.
Shown == [on : BOOLEAN, loading : BOOLEAN, shows : SUBSET Muts]

EnvOK == (\E e \in Explored : read = e.read /\ kind = e.kind) /\ online \in BOOLEAN

\* The page waits for a GET that finds it.
PageOK ==
  /\ page \in Shown /\ gets \in [Gets -> Get \cup {Idle}]
  /\ page.loading => \E g \in Busy : gets[g].here

CacheOK ==
  /\ cache = None \/ cache \subseteq done
  /\ aged \in BOOLEAN /\ gaps \subseteq Muts

HistoryOK == live \cup dropped \subseteq Muts /\ blurred \in BOOLEAN

\* Calls, queue and replay, and where each mutation is in them.
ServerOK ==
  /\ done \subseteq Muts /\ queue \subseteq Muts
  /\ calls \in [Muts -> Call]
  /\ replay \in [of : Muts \cup {None},
                 step : {"none", "sent", "handled", "removed"}]
  /\ Replayed /\ \A m \in Muts : Placed(m)

FlowInv == EnvOK /\ PageOK /\ CacheOK /\ HistoryOK /\ ServerOK /\ Gots

\* GETs whose answer the open page will show.
HereGets == {g \in Busy : gets[g].here}

\* Nothing finds a page that is not open.
OffPage == ~page.on => HereGets = {} /\ \A m \in Muts : ~calls[m].here

\* A page that changes its read in place loads it once, when it opens.
EditedHere == \E m \in DOMAIN kind : read \in Edits(kind[m])

LoadedOnce ==
  EditedHere => /\ \A g, h \in HereGets : g = h
                /\ page.on /\ ~page.loading => HereGets = {}

\* Calls whose answer the open page will follow.
CallsHere ==
  \A m \in Muts : calls[m].here =>
    /\ calls[m].step # "new"
    /\ read \in Reloads(kind[m]) \cup Edits(kind[m])
    /\ read \in Edits(kind[m]) => ~page.loading

LiveCalls ==
  /\ live \subseteq done
  /\ \A m \in live :
       /\ calls[m].step \in {"page", "over"}
       /\ page.on => /\ calls[m].step = "page" => calls[m].here
                     /\ read \in Edits(kind[m]) => ~page.loading

\* What was answered live on the open page has been shown, or will be by the
\* one GET of the page that is under way.
LiveShown ==
  page.on /\ ~blurred =>
    /\ \A g, h \in HereGets : g = h
    /\ \A m \in live : calls[m].step = "over" =>
         IF HereGets = {} THEN m \in page.shows
         ELSE \A g \in HereGets : gets[g].step = "answered" => m \in gets[g].got

OwnWork == OffPage /\ LoadedOnce /\ CallsHere /\ LiveCalls /\ LiveShown

-----------------------------------------------------------------------------
(* Types and flow.                                                         *)

LEMMA FlowTypes ==
  ASSUME FlowInv
  PROVE  TypeOK
  BY DEF FlowInv, TypeOK, EnvOK, PageOK, CacheOK, HistoryOK, ServerOK, Shown

LEMMA KindFits ==
  ASSUME EnvOK
  PROVE  /\ read \in Reads /\ DOMAIN kind \subseteq Muts
         /\ \A m \in DOMAIN kind : kind[m] \in Kinds /\ read \in Changes(kind[m])
  <1>1. PICK e \in Explored : e.read = read /\ e.kind = kind
    BY DEF EnvOK
  <1> QED BY <1>1, CacheAssumption

LEMMA AskType ==
  ASSUME PageOK, EnvOK, NEW g \in Gets, NEW here \in BOOLEAN, Ask(g, here)
  PROVE  /\ gets' \in [Gets -> Get \cup {Idle}]
         /\ gets[g] = Idle /\ gets'[g] # Idle /\ gets'[g].here = here
         /\ gets'[g].got = {} /\ gets'[g].step # "answered"
         /\ \A h \in Gets \ {g} : gets'[h] = gets[h]
  <1> DEFINE new == [step |-> IF online THEN "sent" ELSE "failed",
                     got |-> {}, here |-> here]
  <1>1. new \in Get /\ new # Idle
    <2>1. new \in Get
      BY DEF Get
    <2> QED BY <2>1, CacheAssumption
  <1>2. gets[g] = Idle /\ gets' = [gets EXCEPT ![g] = new]
    BY DEF Ask
  <1>3. new.here = here /\ new.got = {} /\ new.step # "answered"
    OBVIOUS
  <1> HIDE DEF new
  <1> QED BY <1>1, <1>2, <1>3 DEF PageOK

LEMMA EndsType ==
  ASSUME PageOK, NEW g \in Gets, gets[g] # Idle, NEW v \in SUBSET Muts, Ends(g, v)
  PROVE  PageOK'
  <1>1. gets' = [gets EXCEPT ![g] = Idle] /\ gets' \in [Gets -> Get \cup {Idle}]
        /\ gets[g] \in Get
    BY DEF Ends, PageOK
  <1>2. CASE gets[g].here
    <2>1. page' = [page EXCEPT !.loading = FALSE, !.shows = v]
      BY <1>2 DEF Ends
    <2> QED BY <1>1, <2>1 DEF PageOK, Shown
  <1>3. CASE ~gets[g].here
    <2>1. page' = page
      BY <1>3 DEF Ends
    <2>2. ASSUME page.loading PROVE \E h \in Busy' : gets'[h].here
      <3>1. PICK h \in Busy : gets[h].here
        BY <2>2 DEF PageOK
      <3>2. h # g /\ h \in Gets /\ gets[h] # Idle
        BY <3>1, <1>3 DEF Busy
      <3>3. gets'[h] = gets[h]
        BY <1>1, <3>2 DEF PageOK
      <3> QED BY <3>1, <3>2, <3>3 DEF Busy
    <2> QED BY <1>1, <2>1, <2>2 DEF PageOK
  <1> QED BY <1>2, <1>3

\* A GET goes on, for the same page.
LEMMA GoesOn ==
  ASSUME PageOK, NEW g \in Gets, gets[g] # Idle, NEW r \in Get,
         r.here = gets[g].here, gets' = [gets EXCEPT ![g] = r], page' = page
  PROVE  PageOK' /\ Busy' = Busy /\ \A h \in Busy : gets'[h].here = gets[h].here
  <1>1. r # Idle
    BY CacheAssumption
  <1>2. \A h \in Gets : gets'[h] = IF h = g THEN r ELSE gets[h]
    BY DEF PageOK
  <1>3. Busy' = Busy
    BY <1>1, <1>2 DEF Busy
  <1>4. \A h \in Busy : gets'[h].here = gets[h].here
    BY <1>2 DEF Busy
  <1> QED BY <1>3, <1>4 DEF PageOK

\* Steps that leave the server, the calls and the queue alone, but for where the
\* answers of calls go.
LEMMA ServerQuiet ==
  ASSUME ServerOK, UNCHANGED <<Fixed, done, Queue>>, calls' \in [Muts -> Call],
         \A m \in Muts : calls'[m].step = calls[m].step
  PROVE  ServerOK'
  <1>1. ASSUME NEW m \in Muts PROVE Placed(m)'
    <2>1. Placed(m)
      BY DEF ServerOK
    <2> QED BY <2>1 DEF Placed, Fixed, Queue
  <1> QED BY <1>1 DEF ServerOK, Replayed, Fixed, Queue

LEMMA MountFlow ==
  ASSUME FlowInv, NEW g \in Gets, Mount(g)
  PROVE  FlowInv'
  <1>1. EnvOK /\ PageOK /\ CacheOK /\ HistoryOK /\ ServerOK /\ Gots
    BY DEF FlowInv
  <1>2. /\ Ask(g, TRUE) /\ page' = [on |-> TRUE, loading |-> TRUE, shows |-> {}]
        /\ live' = {} /\ blurred' = FALSE /\ dropped' = dropped
        /\ UNCHANGED <<read, kind, online, done, calls, queue, replay, cache,
                       aged, gaps>>
    BY DEF Mount, Env, Fixed, Server, Queue, Cache
  <1>3. /\ gets' \in [Gets -> Get \cup {Idle}] /\ gets'[g] # Idle
        /\ gets'[g].here /\ gets'[g].got = {}
        /\ \A h \in Gets \ {g} : gets'[h] = gets[h]
    BY <1>1, <1>2, AskType
  <1>4. PageOK'
    <2>1. page' \in Shown
      BY <1>2 DEF Shown
    <2> QED BY <1>3, <2>1 DEF PageOK, Busy
  <1>5. Gots'
    BY <1>1, <1>2, <1>3 DEF Gots
  <1>6. ServerOK'
    BY <1>1, <1>2, ServerQuiet DEF ServerOK, Fixed, Queue
  <1>7. EnvOK' /\ CacheOK' /\ HistoryOK'
    BY <1>1, <1>2 DEF EnvOK, CacheOK, HistoryOK
  <1> QED BY <1>4, <1>5, <1>6, <1>7 DEF FlowInv

LEMMA LeaveFlow ==
  ASSUME FlowInv, Leave
  PROVE  FlowInv'
  <1>1. EnvOK /\ PageOK /\ CacheOK /\ HistoryOK /\ ServerOK /\ Gots
    BY DEF FlowInv
  <1>2. /\ page' = Closed
        /\ gets' = [g \in Gets |-> IF gets[g] = Idle THEN Idle
                                   ELSE [gets[g] EXCEPT !.here = FALSE]]
        /\ calls' = [m \in Muts |-> [calls[m] EXCEPT !.here = FALSE]]
        /\ UNCHANGED <<read, kind, online, done, queue, replay, dropped, cache,
                       aged, gaps, live, blurred>>
    BY DEF Leave, Env, Fixed, Queue, Cache
  <1>3. ASSUME NEW g \in Gets
        PROVE  /\ gets'[g] \in Get \cup {Idle}
               /\ gets'[g] # Idle => gets[g] # Idle /\ gets'[g].got = gets[g].got
    <2>1. gets[g] \in Get \cup {Idle}
      BY <1>1 DEF PageOK
    <2> QED BY <1>2, <2>1 DEF Get
  <1>4. ASSUME NEW m \in Muts
        PROVE  calls'[m] \in Call /\ calls'[m].step = calls[m].step
    <2>1. calls[m] \in Call
      BY <1>1 DEF ServerOK
    <2> QED BY <1>2, <2>1 DEF Call
  <1>5. PageOK'
    BY <1>2, <1>3 DEF PageOK, Closed, Shown
  <1>6. Gots'
    BY <1>1, <1>2, <1>3 DEF Gots
  <1>7. ServerOK'
    BY <1>1, <1>2, <1>4, ServerQuiet DEF Fixed, Queue
  <1>8. EnvOK' /\ CacheOK' /\ HistoryOK'
    BY <1>1, <1>2 DEF EnvOK, CacheOK, HistoryOK
  <1> QED BY <1>5, <1>6, <1>7, <1>8 DEF FlowInv

LEMMA GetFlow ==
  ASSUME FlowInv, NEW g \in Gets, Answered(g) \/ Unanswered(g)
  PROVE  FlowInv'
  <1>1. EnvOK /\ PageOK /\ CacheOK /\ HistoryOK /\ ServerOK /\ Gots
    BY DEF FlowInv
  <1>2. PICK r \in Get : /\ r.here = gets[g].here /\ r.got \subseteq done
                         /\ gets' = [gets EXCEPT ![g] = r]
    <2>1. gets[g] \in Get /\ done \subseteq Muts
      BY <1>1 DEF Answered, Unanswered, PageOK, ServerOK
    <2>2. CASE Answered(g)
      <3> DEFINE r == [gets[g] EXCEPT !.step = "answered", !.got = done]
      <3>1. r \in Get /\ r.here = gets[g].here /\ r.got = done
        BY <2>1 DEF Get
      <3>2. gets' = [gets EXCEPT ![g] = r]
        BY <1>1, <2>2 DEF Answered, PageOK
      <3> QED BY <3>1, <3>2
    <2>3. CASE Unanswered(g)
      <3> DEFINE r == [gets[g] EXCEPT !.step = "failed", !.got = {}]
      <3>1. r \in Get /\ r.here = gets[g].here /\ r.got = {}
        BY <2>1 DEF Get
      <3>2. gets' = [gets EXCEPT ![g] = r]
        BY <1>1, <2>3 DEF Unanswered, PageOK
      <3> QED BY <3>1, <3>2
    <2> QED BY <2>2, <2>3
  <1>3. /\ gets[g] # Idle
        /\ UNCHANGED <<read, kind, online, done, calls, queue, replay, dropped,
                       cache, aged, gaps, page, live, blurred>>
    BY DEF Answered, Unanswered, Env, Fixed, Server, Queue, Cache
  <1>4. PageOK'
    BY <1>1, <1>2, <1>3, GoesOn
  <1>5. Gots'
    BY <1>1, <1>2, <1>3 DEF Gots, PageOK
  <1>6. ServerOK'
    BY <1>1, <1>3, ServerQuiet DEF ServerOK, Fixed, Queue
  <1>7. EnvOK' /\ CacheOK' /\ HistoryOK'
    BY <1>1, <1>3 DEF EnvOK, CacheOK, HistoryOK
  <1> QED BY <1>4, <1>5, <1>6, <1>7 DEF FlowInv

LEMMA AfterErrorType ==
  ASSUME PageOK
  PROVE  AfterError \in SUBSET Muts
  BY DEF PageOK, Shown, AfterError

LEMMA EndFlow ==
  ASSUME FlowInv, NEW g \in Gets, Cached(g) \/ FromCache(g) \/ GetRefused(g)
  PROVE  FlowInv'
  <1>1. EnvOK /\ PageOK /\ CacheOK /\ HistoryOK /\ ServerOK /\ Gots
    BY DEF FlowInv
  <1>2. /\ gets[g] # Idle /\ gets[g] \in Get
        /\ blurred' \in BOOLEAN
        /\ UNCHANGED <<read, kind, online, done, calls, queue, replay, dropped, live>>
    BY <1>1 DEF Cached, FromCache, GetRefused, Env, Fixed, Server, Queue, PageOK
  <1>3. gets[g].got \in SUBSET Muts /\ gets[g].got \subseteq done
    BY <1>1, <1>2 DEF Get, Gots
  <1>4. PICK v \in SUBSET Muts : Ends(g, v)
    <2>1. AfterError \in SUBSET Muts /\ (cache # None => cache \in SUBSET Muts)
      BY <1>1, AfterErrorType DEF CacheOK, ServerOK
    <2> QED BY <1>3, <2>1 DEF Cached, FromCache, GetRefused
  <1>5. PageOK'
    BY <1>1, <1>2, <1>4, EndsType
  <1>6. Gots'
    BY <1>1, <1>2, <1>4 DEF Gots, Ends, PageOK
  <1>7. ServerOK'
    BY <1>1, <1>2, ServerQuiet DEF ServerOK, Fixed, Queue
  <1>8. CacheOK'
    <2>1. \/ cache' = gets[g].got /\ aged' = FALSE /\ gaps' \subseteq done
          \/ Drop \/ UNCHANGED Cache
      BY DEF Cached, FromCache, GetRefused
    <2> QED BY <1>1, <1>2, <1>3, <2>1 DEF CacheOK, Drop, Cache, ServerOK
  <1>9. EnvOK' /\ HistoryOK'
    BY <1>1, <1>2 DEF EnvOK, HistoryOK
  <1> QED BY <1>5, <1>6, <1>7, <1>8, <1>9 DEF FlowInv

LEMMA StepType ==
  ASSUME ServerOK, NEW m \in Muts,
         NEW s \in {"new", "sent", "handled", "queueing", "page", "over"},
         Step(m, s)
  PROVE  /\ calls' \in [Muts -> Call]
         /\ calls'[m].step = s /\ calls'[m].here = calls[m].here
         /\ \A n \in Muts \ {m} : calls'[n] = calls[n]
  <1> DEFINE new == [calls[m] EXCEPT !.step = s]
  <1>1. new \in Call /\ new.step = s /\ new.here = calls[m].here
    BY DEF ServerOK, Call
  <1>2. calls' = [calls EXCEPT ![m] = new] /\ calls \in [Muts -> Call]
    BY DEF Step, ServerOK
  <1> HIDE DEF new
  <1> QED BY <1>1, <1>2

\* A call that is new, live, or under way to the queue: the others are where
\* they were.
LEMMA CallFlow ==
  ASSUME ServerOK, NEW m \in Muts, kind' = kind,
         calls' \in [Muts -> Call], \A n \in Muts \ {m} : calls'[n] = calls[n],
         UNCHANGED <<replay, dropped>>,
         done \subseteq done' /\ done' \subseteq done \cup {m},
         queue \subseteq queue' /\ queue' \subseteq queue \cup {m},
         queue' # queue => m \in DOMAIN kind,
         Placed(m)'
  PROVE  ServerOK'
  <1>1. ASSUME NEW n \in Muts PROVE Placed(n)'
    <2>1. Placed(n)
      BY DEF ServerOK
    <2>2. CASE n # m
      BY <2>1, <2>2 DEF Placed
    <2> QED BY <2>2
  <1>2. Replayed'
    BY DEF ServerOK, Replayed
  <1> QED BY <1>1, <1>2 DEF ServerOK

LEMMA ActCall ==
  ASSUME ServerOK, EnvOK, NEW m \in Muts, Act(m)
  PROVE  /\ ServerOK' /\ \A n \in Muts \ {m} : calls'[n] = calls[n]
         /\ calls'[m].step \in {"sent", "queueing"}
         /\ calls'[m].here <=> read \in Reloads(kind[m]) \cup Edits(kind[m])
  <1> DEFINE own == read \in Reloads(kind[m]) \cup Edits(kind[m])
             new == [step |-> IF online THEN "sent" ELSE "queueing", here |-> own]
  <1>1. /\ m \in DOMAIN kind /\ calls[m].step = "new"
        /\ calls' = [calls EXCEPT ![m] = new]
        /\ UNCHANGED <<kind, done, queue, replay, dropped>>
    BY DEF Act, Env, Fixed, Queue
  <1>2. /\ new \in Call /\ new.step \in {"sent", "queueing"}
        /\ new.here <=> own
    <2>1. own \in BOOLEAN
      OBVIOUS
    <2> HIDE DEF own
    <2> QED BY <2>1 DEF Call
  <1> HIDE DEF new
  <1>3. /\ calls' \in [Muts -> Call] /\ calls'[m] = new
        /\ \A n \in Muts \ {m} : calls'[n] = calls[n]
    BY <1>1, <1>2 DEF ServerOK
  <1>4. Placed(m)'
    <2>1. Placed(m)
      BY DEF ServerOK
    <2> QED BY <1>1, <1>2, <1>3, <2>1 DEF Placed
  <1> QED BY <1>1, <1>2, <1>3, <1>4, CallFlow

LEMMA CallServer ==
  ASSUME ServerOK, NEW m \in Muts,
         \/ Handled(m) \/ TurnedDown(m) \/ Lost(m) \/ Invalidated(m)
         \/ Enqueued(m) \/ \E g \in Gets : Follow(m, g)
  PROVE  ServerOK'
  <1>1. Placed(m) /\ Replayed
    BY DEF ServerOK
  <1>2. UNCHANGED <<kind, replay, dropped>>
    BY DEF Handled, TurnedDown, Lost, Invalidated, Enqueued, Follow, Env, Fixed,
           Queue
  <1>3. CASE Handled(m)
    <2>1. /\ calls[m].step = "sent" /\ Step(m, "handled")
          /\ done' = done \cup {m} /\ queue' = queue
      BY <1>3 DEF Handled, Queue
    <2>2. Placed(m)'
      BY <1>1, <1>2, <2>1, StepType DEF Placed
    <2> QED BY <1>2, <2>1, <2>2, StepType, CallFlow
  <1>4. CASE TurnedDown(m)
    <2>1. /\ calls[m].step = "sent" /\ Step(m, "over")
          /\ UNCHANGED <<done, queue>>
      BY <1>4 DEF TurnedDown, Queue
    <2>2. Placed(m)'
      BY <1>1, <1>2, <2>1, StepType DEF Placed
    <2> QED BY <1>2, <2>1, <2>2, StepType, CallFlow
  <1>5. CASE Lost(m)
    <2>1. /\ calls[m].step \in {"sent", "handled"} /\ Step(m, "queueing")
          /\ UNCHANGED <<done, queue>>
      BY <1>5 DEF Lost, Queue
    <2>2. Placed(m)'
      BY <1>1, <1>2, <2>1, StepType DEF Placed
    <2> QED BY <1>2, <2>1, <2>2, StepType, CallFlow
  <1>6. CASE Invalidated(m)
    <2>1. /\ calls[m].step = "handled" /\ Step(m, "page")
          /\ UNCHANGED <<done, queue>>
      BY <1>6 DEF Invalidated, Queue
    <2>2. Placed(m)'
      BY <1>1, <1>2, <2>1, StepType DEF Placed
    <2> QED BY <1>2, <2>1, <2>2, StepType, CallFlow
  <1>7. CASE Enqueued(m)
    <2>1. /\ calls[m].step = "queueing" /\ Step(m, "page")
          /\ queue' = queue \cup {m} /\ done' = done
      BY <1>7 DEF Enqueued
    <2>2. Placed(m)' /\ m \in DOMAIN kind
      BY <1>1, <1>2, <2>1, StepType DEF Placed
    <2> QED BY <1>2, <2>1, <2>2, StepType, CallFlow
  <1>8. ASSUME NEW g \in Gets, Follow(m, g)
        PROVE  ServerOK'
    <2>1. /\ calls[m].step = "page" /\ Step(m, "over")
          /\ UNCHANGED <<done, queue>>
      BY <1>8 DEF Follow, Queue
    <2>2. Placed(m)'
      BY <1>1, <1>2, <2>1, StepType DEF Placed
    <2> QED BY <1>2, <2>1, <2>2, StepType, CallFlow
  <1> QED BY <1>3, <1>4, <1>5, <1>6, <1>7, <1>8

LEMMA DropType ==
  ASSUME CacheOK, done \subseteq done', Drop \/ UNCHANGED Cache
  PROVE  CacheOK'
  BY DEF CacheOK, Drop, Cache

LEMMA MutationFlow ==
  ASSUME FlowInv, NEW m \in Muts,
         \/ Act(m) \/ Handled(m) \/ TurnedDown(m) \/ Lost(m) \/ Invalidated(m)
         \/ Enqueued(m)
  PROVE  FlowInv'
  <1>1. EnvOK /\ PageOK /\ CacheOK /\ HistoryOK /\ ServerOK /\ Gots
    BY DEF FlowInv
  <1>2. /\ UNCHANGED <<read, kind, online, page, gets, blurred, dropped>>
        /\ live' \subseteq live \cup {m} /\ done \subseteq done'
        /\ Drop \/ UNCHANGED Cache
    BY DEF Act, Handled, TurnedDown, Lost, Invalidated, Enqueued, Env, Fixed,
           Queue, Page, Invalidate
  <1>3. ServerOK'
    BY <1>1, ActCall, CallServer
  <1>4. PageOK'
    BY <1>1, <1>2 DEF PageOK, Busy
  <1>5. CacheOK'
    BY <1>1, <1>2, DropType
  <1>6. Gots' /\ EnvOK' /\ HistoryOK'
    BY <1>1, <1>2 DEF Gots, EnvOK, HistoryOK
  <1> QED BY <1>3, <1>4, <1>5, <1>6 DEF FlowInv

LEMMA FollowFlow ==
  ASSUME FlowInv, NEW m \in Muts, NEW g \in Gets, Follow(m, g)
  PROVE  FlowInv'
  <1>1. EnvOK /\ PageOK /\ CacheOK /\ HistoryOK /\ ServerOK /\ Gots
    BY DEF FlowInv
  <1>2. /\ UNCHANGED <<read, kind, online, done, cache, aged, gaps, live, dropped>>
        /\ calls[m] \in Call
    BY <1>1 DEF Follow, Env, Fixed, Queue, Cache, ServerOK
  <1>3. /\ gets' \in [Gets -> Get \cup {Idle}] /\ blurred' \in BOOLEAN
        /\ \A h \in Gets : \/ gets'[h] = gets[h]
                           \/ gets[h] = Idle /\ gets'[h].got = {}
    <2>1. CASE read \in Again(m)
      <3>1. Ask(g, calls[m].here) /\ blurred' \in BOOLEAN /\ calls[m].here \in BOOLEAN
        BY <1>1, <1>2, <2>1 DEF Follow, Call, HistoryOK
      <3> QED BY <1>1, <3>1, AskType
    <2>2. CASE read \notin Again(m)
      BY <1>1, <2>2 DEF Follow, PageOK, HistoryOK
    <2> QED BY <2>1, <2>2
  <1>4. page' \in Shown /\ page'.loading = page.loading
    BY <1>1 DEF Follow, PageOK, Shown
  <1>5. PageOK'
    <2>1. ASSUME page.loading PROVE \E h \in Busy' : gets'[h].here
      <3>1. PICK h \in Busy : gets[h].here
        BY <1>1, <2>1 DEF PageOK
      <3>2. gets'[h] = gets[h]
        BY <1>3, <3>1 DEF Busy
      <3> QED BY <3>1, <3>2 DEF Busy
    <2> QED BY <1>3, <1>4, <2>1 DEF PageOK
  <1>6. Gots' /\ EnvOK' /\ HistoryOK' /\ CacheOK'
    BY <1>1, <1>2, <1>3 DEF Gots, EnvOK, HistoryOK, CacheOK
  <1>7. ServerOK'
    BY <1>1, CallServer
  <1> QED BY <1>5, <1>6, <1>7 DEF FlowInv

LEMMA ReplayServer ==
  ASSUME ServerOK, EnvOK,
         \/ \E m \in Muts : StartReplay(m)
         \/ ReplayHandled \/ ReplayRemoved \/ ReplayInvalidated \/ ReplayRefused
         \/ ReplayFailed
  PROVE  ServerOK'
  <1>1. /\ Replayed /\ \A m \in Muts : Placed(m)
        /\ kind' = kind /\ calls' = calls /\ DOMAIN kind \subseteq Muts
        /\ replay.of \in Muts \cup {None} /\ None \notin Muts
        /\ replay = [of |-> replay.of, step |-> replay.step]
    BY KindFits, CacheAssumption
       DEF ServerOK, StartReplay, ReplayHandled, ReplayRemoved,
           ReplayInvalidated, ReplayRefused, ReplayFailed, Env, Fixed
  <1>2. CASE \E m \in Muts : StartReplay(m)
    <2>1. PICK m \in Muts : StartReplay(m)
      BY <1>2
    <2>2. /\ m \in queue /\ replay' = [of |-> m, step |-> "sent"]
          /\ UNCHANGED <<done, queue, dropped>>
      BY <2>1 DEF StartReplay
    <2>3. Replayed' /\ \A n \in Muts : Placed(n)'
      BY <1>1, <2>2 DEF Replayed, Placed
    <2> QED BY <1>1, <2>2, <2>3 DEF ServerOK
  <1>3. CASE ReplayHandled
    <2>1. /\ replay.step = "sent" /\ done' = done \cup {replay.of}
          /\ replay' = [of |-> replay.of, step |-> "handled"]
          /\ UNCHANGED <<queue, dropped>>
      BY <1>1, <1>3 DEF ReplayHandled
    <2>2. replay.of \in queue /\ replay.of \in Muts
      BY <1>1, <2>1 DEF Replayed
    <2>3. Replayed' /\ \A n \in Muts : Placed(n)'
      BY <1>1, <2>1, <2>2 DEF Replayed, Placed
    <2> QED BY <1>1, <2>1, <2>2, <2>3 DEF ServerOK
  <1>4. CASE ReplayRemoved
    <2>1. /\ replay.step = "handled" /\ queue' = queue \ {replay.of}
          /\ replay' = [of |-> replay.of, step |-> "removed"]
          /\ UNCHANGED <<done, dropped>>
      BY <1>1, <1>4 DEF ReplayRemoved
    <2>2. Replayed' /\ \A n \in Muts : Placed(n)'
      BY <1>1, <2>1 DEF Replayed, Placed
    <2> QED BY <1>1, <2>1, <2>2 DEF ServerOK
  <1>5. CASE ReplayInvalidated \/ ReplayFailed
    <2>1. /\ replay' = [of |-> None, step |-> "none"]
          /\ UNCHANGED <<done, queue, dropped>>
      BY <1>5 DEF ReplayInvalidated, ReplayFailed, NoReplay
    <2>2. Replayed' /\ \A n \in Muts : Placed(n)'
      BY <1>1, <2>1 DEF Replayed, Placed
    <2> QED BY <1>1, <2>1, <2>2 DEF ServerOK
  <1>6. CASE ReplayRefused
    <2>1. /\ replay' = [of |-> None, step |-> "none"]
          /\ queue' = queue \ {replay.of} /\ done' = done
          /\ dropped' = dropped \cup {replay.of}
      BY <1>6 DEF ReplayRefused, NoReplay
    <2>2. Replayed' /\ \A n \in Muts : Placed(n)'
      BY <1>1, <2>1 DEF Replayed, Placed
    <2> QED BY <1>1, <2>1, <2>2 DEF ServerOK
  <1> QED BY <1>2, <1>3, <1>4, <1>5, <1>6

LEMMA ReplayFlow ==
  ASSUME FlowInv,
         \/ \E m \in Muts : StartReplay(m)
         \/ ReplayHandled \/ ReplayRemoved \/ ReplayInvalidated \/ ReplayRefused
         \/ ReplayFailed
  PROVE  FlowInv'
  <1>1. EnvOK /\ PageOK /\ CacheOK /\ HistoryOK /\ ServerOK /\ Gots
    BY DEF FlowInv
  <1>2. /\ UNCHANGED <<read, kind, online, page, gets, live, blurred>>
        /\ done \subseteq done'
        /\ dropped' = dropped \/ ReplayRefused
    BY DEF StartReplay, ReplayHandled, ReplayRemoved, ReplayInvalidated,
           ReplayRefused, ReplayFailed, Env, Fixed, Page
  <1>3. ServerOK'
    BY <1>1, ReplayServer
  <1>4. replay.step = "sent" => replay.of \in Muts
    BY <1>1 DEF ServerOK, Replayed
  <1>5. CacheOK'
    <2>1. CASE ReplayRefused
      BY <1>1, <1>4, <2>1 DEF ReplayRefused, CacheOK, ServerOK
    <2>2. CASE Drop \/ UNCHANGED Cache
      BY <1>1, <1>2, <2>2, DropType
    <2> QED BY <2>1, <2>2 DEF StartReplay, ReplayHandled, ReplayRemoved,
                 ReplayInvalidated, ReplayFailed, Invalidate
  <1>6. PageOK' /\ Gots' /\ EnvOK'
    BY <1>1, <1>2 DEF PageOK, Busy, Gots, EnvOK
  <1>7. HistoryOK'
    BY <1>1, <1>2, <1>4 DEF HistoryOK, ReplayRefused
  <1> QED BY <1>3, <1>5, <1>6, <1>7 DEF FlowInv

LEMMA CloseFlow ==
  ASSUME FlowInv, NEW S \in SUBSET Muts, Close(S)
  PROVE  FlowInv'
  <1>1. EnvOK /\ PageOK /\ CacheOK /\ HistoryOK /\ ServerOK /\ Gots
    BY DEF FlowInv
  <1>2. /\ \A m \in S : calls[m].step = "sent" \/ replay = [of |-> m, step |-> "sent"]
        /\ done' = done \cup S
        /\ gets' = [g \in Gets |-> Idle] /\ page' = Closed
        /\ calls' = [m \in Muts |-> IF calls[m].step = "new" THEN calls[m]
                                    ELSE [step |-> "over", here |-> FALSE]]
        /\ replay' = [of |-> None, step |-> "none"]
        /\ UNCHANGED <<read, kind, online, cache, aged, queue, live, blurred,
                       dropped>>
    BY DEF Close, Env, Fixed, NoReplay
  <1>3. \A m \in S : calls[m].step # "new"
    BY <1>1, <1>2 DEF ServerOK, Placed
  <1>4. calls' \in [Muts -> Call]
    BY <1>1, <1>2 DEF ServerOK, Call
  <1>5. ASSUME NEW m \in Muts PROVE Placed(m)'
    <2>1. Placed(m) /\ m # None
      BY <1>1, CacheAssumption DEF ServerOK
    <2>2. CASE calls[m].step = "new"
      BY <1>2, <1>3, <2>1, <2>2 DEF Placed
    <2>3. CASE calls[m].step # "new"
      <3>1. calls'[m].step = "over"
        BY <1>2, <2>3
      <3> QED BY <1>2, <2>1, <2>3, <3>1 DEF Placed
    <2> QED BY <2>2, <2>3
  <1>6. ServerOK'
    BY <1>1, <1>2, <1>4, <1>5 DEF ServerOK, Replayed
  <1>7. PageOK' /\ Gots'
    BY <1>2 DEF PageOK, Gots, Closed, Shown
  <1>8. gaps' \subseteq Muts
    <2>1. done' \subseteq Muts
      BY <1>1, <1>2 DEF ServerOK
    <2> QED BY <2>1 DEF Close
  <1>9. CacheOK' /\ EnvOK' /\ HistoryOK'
    BY <1>1, <1>2, <1>8 DEF CacheOK, EnvOK, HistoryOK
  <1> QED BY <1>6, <1>7, <1>9 DEF FlowInv

LEMMA QuietFlow ==
  ASSUME FlowInv, Age \/ SetOnline \/ UNCHANGED vars
  PROVE  FlowInv'
  <1>1. EnvOK /\ PageOK /\ CacheOK /\ HistoryOK /\ ServerOK /\ Gots
    BY DEF FlowInv
  <1>2. /\ UNCHANGED <<read, kind, done, calls, queue, replay, dropped, cache,
                       gaps, page, gets, live, blurred>>
        /\ online' \in BOOLEAN /\ aged' \in BOOLEAN
    BY <1>1 DEF Age, SetOnline, vars, Env, Fixed, Server, Queue, Cache, Page,
                EnvOK, CacheOK
  <1>3. ServerOK'
    BY <1>1, <1>2, ServerQuiet DEF ServerOK, Fixed, Queue
  <1> QED BY <1>1, <1>2, <1>3
       DEF FlowInv, EnvOK, PageOK, Busy, CacheOK, HistoryOK, Gots

LEMMA NextFlow ==
  ASSUME FlowInv, [Next]_vars
  PROVE  FlowInv'
  BY MountFlow, LeaveFlow, GetFlow, EndFlow, MutationFlow, FollowFlow,
     ReplayFlow, CloseFlow, QuietFlow DEF Next

LEMMA InitFlow ==
  ASSUME Init
  PROVE  FlowInv
  <1>1. EnvOK
    BY DEF Init, EnvOK
  <1>2. PageOK /\ CacheOK /\ HistoryOK /\ Gots
    BY DEF Init, PageOK, Closed, Shown, CacheOK, HistoryOK, Gots
  <1>3. ServerOK
    <2>1. calls \in [Muts -> Call] /\ \A m \in Muts : calls[m].step = "new"
      BY DEF Init, Call
    <2>2. /\ done = {} /\ queue = {} /\ replay = [of |-> None, step |-> "none"]
          /\ None \notin Muts
      BY CacheAssumption DEF Init, NoReplay
    <2>3. Replayed /\ \A m \in Muts : Placed(m)
      BY <2>1, <2>2 DEF Replayed, Placed
    <2> QED BY <2>1, <2>2, <2>3 DEF ServerOK
  <1> QED BY <1>1, <1>2, <1>3 DEF FlowInv

LEMMA FlowInvariance == Spec => []FlowInv
  <1>1. Init => FlowInv
    BY InitFlow
  <1>2. FlowInv /\ [Next]_vars => FlowInv'
    BY NextFlow
  <1> QED BY <1>1, <1>2, PTL DEF Spec

(* The reads, pages, GETs, calls, queue and replay keep their types; a     *)
(* cached version takes account of nothing the server has not done; a page *)
(* that loads has a GET under way that will find it.                       *)
THEOREM TypeCorrect == Spec => []TypeOK
  <1>1. FlowInv => TypeOK
    BY FlowTypes
  <1> QED BY <1>1, FlowInvariance, PTL

-----------------------------------------------------------------------------
(* What is cached keeps up with the user's mutations.                      *)

\* The table of what is dropped covers the table of what changes, but for what is
\* forgotten.
LEMMA RelatedCovers ==
  ASSUME NEW k \in Kinds, read \in Changes(k), read \in Reads
  PROVE  read \in Related(k) \cup Forgotten(k)
  BY DEF Kinds, Changes, Related, Reads, Forgotten

\* Neither the read nor what the mutations are ever changes.
LEMMA Minded ==
  ASSUME [Next]_vars
  PROVE  Unminded' = Unminded
  <1>1. UNCHANGED <<read, kind>>
    BY DEF Next, vars, Mount, Answered, Unanswered, Cached, FromCache, GetRefused,
           Leave, Age, SetOnline, Act, Handled, TurnedDown, Lost, Invalidated,
           Enqueued, StartReplay, Follow, ReplayHandled, ReplayRemoved,
           ReplayInvalidated, ReplayRefused, ReplayFailed, Close, Env, Fixed
  <1> QED BY <1>1 DEF Unminded

\* The version that is cached stays: what the server has done since is
\* unsettled, and what is no longer unsettled is a gap or not minded.
LEMMA KeepsStep ==
  ASSUME CacheKeepsUp, cache' = cache, gaps \subseteq gaps', Unminded' = Unminded,
         done' \ done \subseteq Unsettled',
         \A m \in done \cap Unsettled : m \in Unsettled' \cup gaps' \cup Unminded
  PROVE  CacheKeepsUp'
  BY DEF CacheKeepsUp

\* Steps of the page, which settle nothing.
LEMMA KeepsPage ==
  ASSUME FlowInv, CacheKeepsUp, Unminded' = Unminded,
         \/ \E g \in Gets : Mount(g) \/ Answered(g) \/ Unanswered(g)
         \/ \E g \in Gets : Cached(g) \/ FromCache(g) \/ GetRefused(g)
         \/ Leave \/ Age \/ SetOnline \/ UNCHANGED vars
  PROVE  CacheKeepsUp'
  <1>1. UNCHANGED <<done, queue, replay>> /\ \A m \in Muts : calls'[m].step = calls[m].step
    <2>1. CASE Leave
      <3>1. /\ calls' = [m \in Muts |-> [calls[m] EXCEPT !.here = FALSE]]
            /\ calls \in [Muts -> Call]
        BY <2>1 DEF Leave, FlowInv, ServerOK
      <3>2. \A m \in Muts : calls'[m].step = calls[m].step
        BY <3>1 DEF Call
      <3> QED BY <2>1, <3>2 DEF Leave, Queue
    <2>2. CASE ~Leave
      BY <2>2 DEF Mount, Answered, Unanswered, Cached, FromCache, GetRefused,
                  Age, SetOnline, vars, Server, Queue
    <2> QED BY <2>1, <2>2
  <1>2. Unsettled' = Unsettled
    BY <1>1 DEF Unsettled
  <1>3. ASSUME NEW g \in Gets, Cached(g)
        PROVE  CacheKeepsUp'
    BY <1>1, <1>2, <1>3 DEF Cached, CacheKeepsUp
  <1>4. CASE Drop
    BY <1>4 DEF Drop, CacheKeepsUp
  <1>5. CASE cache' = cache /\ gaps' = gaps
    BY <1>1, <1>2, <1>5, KeepsStep
  <1> QED BY <1>3, <1>4, <1>5
       DEF Mount, Answered, Unanswered, FromCache, GetRefused, Leave, Age,
           SetOnline, vars, Cache

LEMMA KeepsCall ==
  ASSUME FlowInv, CacheKeepsUp, Unminded' = Unminded, NEW m \in Muts,
         \/ Act(m) \/ Handled(m) \/ TurnedDown(m) \/ Lost(m) \/ Invalidated(m)
         \/ Enqueued(m) \/ \E g \in Gets : Follow(m, g)
  PROVE  CacheKeepsUp'
  <1>1. EnvOK /\ ServerOK /\ Placed(m) /\ done \subseteq Muts
    BY DEF FlowInv, ServerOK
  <1>2. replay' = replay
    BY DEF Act, Handled, TurnedDown, Lost, Invalidated, Enqueued, Follow, Queue
  <1>3. CASE Invalidated(m)
    <2>1. m \in DOMAIN kind
      BY <1>1, <1>3 DEF Invalidated, Placed
    <2>2. CASE read \in Related(kind[m])
      BY <1>3, <2>2 DEF Invalidated, Invalidate, Drop, CacheKeepsUp
    <2>3. CASE read \notin Related(kind[m])
      <3>1. m \in Unminded
        BY <1>1, <2>1, <2>3, KindFits, RelatedCovers DEF Unminded
      <3>2. UNCHANGED <<done, queue, cache, gaps>>
        BY <1>3, <2>3 DEF Invalidated, Invalidate, Cache, Queue
      <3>3. \A n \in Muts \ {m} : calls'[n] = calls[n]
        BY <1>1, <1>3, StepType DEF Invalidated
      <3>4. \A n \in done \cap Unsettled : n \in Unsettled' \cup Unminded
        BY <1>1, <1>2, <3>1, <3>2, <3>3 DEF Unsettled
      <3> QED BY <3>2, <3>4, KeepsStep
    <2> QED BY <2>2, <2>3
  <1>4. CASE ~Invalidated(m)
    <2>1. cache' = cache /\ gaps' = gaps
      BY <1>4 DEF Act, Handled, TurnedDown, Lost, Enqueued, Follow, Cache
    <2>2. \A n \in Muts \ {m} : calls'[n] = calls[n]
      BY <1>1, StepType, ActCall
         DEF Handled, TurnedDown, Lost, Invalidated, Enqueued, Follow
    <2>3. \A n \in Muts \ {m} :
            /\ n \in Unsettled => n \in Unsettled'
            /\ n \in done' => n \in done
      BY <1>2, <2>2 DEF Act, Handled, TurnedDown, Lost, Invalidated, Enqueued,
                        Follow, Queue, Unsettled
    <2>4. m \in done' => m \in Unsettled' \/ m \in done
      <3>1. CASE Handled(m)
        BY <1>1, <3>1, StepType DEF Handled, Unsettled
      <3> QED BY <1>4, <3>1 DEF Act, TurnedDown, Lost, Enqueued, Follow
    <2>5. m \in done \cap Unsettled => m \in Unsettled'
      <3>1. CASE Act(m) \/ TurnedDown(m)
        BY <1>1, <3>1 DEF Act, TurnedDown, Placed
      <3>2. CASE Handled(m)
        BY <1>1, <3>2, StepType DEF Handled, Unsettled
      <3>3. CASE Lost(m)
        BY <1>1, <3>3, StepType DEF Lost, Unsettled
      <3>4. CASE Enqueued(m)
        BY <3>4 DEF Enqueued, Unsettled
      <3>5. CASE \E g \in Gets : Follow(m, g)
        BY <1>2, <3>5 DEF Follow, Queue, Unsettled
      <3> QED BY <1>4, <3>1, <3>2, <3>3, <3>4, <3>5
    <2>6. done' \subseteq Muts
      BY NextFlow DEF Next, FlowInv, ServerOK
    <2> QED BY <1>1, <2>1, <2>3, <2>4, <2>5, <2>6, KeepsStep
  <1> QED BY <1>3, <1>4

LEMMA KeepsReplay ==
  ASSUME FlowInv, CacheKeepsUp, Unminded' = Unminded,
         \/ \E m \in Muts : StartReplay(m)
         \/ ReplayHandled \/ ReplayRemoved \/ ReplayInvalidated \/ ReplayRefused
         \/ ReplayFailed
  PROVE  CacheKeepsUp'
  <1>1. /\ EnvOK /\ ServerOK /\ Replayed /\ done \subseteq Muts /\ None \notin Muts
        /\ replay = [of |-> replay.of, step |-> replay.step]
    BY CacheAssumption DEF FlowInv, ServerOK
  <1>2. calls' = calls
    BY DEF StartReplay, ReplayHandled, ReplayRemoved, ReplayInvalidated,
           ReplayRefused, ReplayFailed
  <1>3. CASE \E m \in Muts : StartReplay(m)
    <2>1. /\ UNCHANGED <<done, queue, cache, gaps>> /\ replay.of = None
      BY <1>3 DEF StartReplay, Cache, NoReplay
    <2> QED BY <1>1, <1>2, <2>1, KeepsStep DEF Unsettled
  <1>4. CASE ReplayHandled
    <2>1. /\ done' = done \cup {replay.of} /\ UNCHANGED <<queue, cache, gaps>>
          /\ replay'.of = replay.of
      BY <1>1, <1>4 DEF ReplayHandled, Cache
    <2> QED BY <1>1, <1>2, <2>1, KeepsStep DEF Unsettled
  <1>5. CASE ReplayRemoved
    <2>1. /\ queue' = queue \ {replay.of} /\ UNCHANGED <<done, cache, gaps>>
          /\ replay'.of = replay.of
      BY <1>1, <1>5 DEF ReplayRemoved, Cache
    <2> QED BY <1>1, <1>2, <2>1, KeepsStep DEF Unsettled
  <1>6. CASE ReplayInvalidated
    <2>1. replay.of \in DOMAIN kind
      BY <1>1, <1>6 DEF ReplayInvalidated, Replayed
    <2>2. CASE read \in Related(kind[replay.of])
      BY <1>6, <2>2 DEF ReplayInvalidated, Invalidate, Drop, CacheKeepsUp
    <2>3. CASE read \notin Related(kind[replay.of])
      <3>1. replay.of \in Unminded
        BY <1>1, <2>1, <2>3, KindFits, RelatedCovers DEF Unminded
      <3>2. UNCHANGED <<done, queue, cache, gaps>>
        BY <1>6, <2>3 DEF ReplayInvalidated, Invalidate, Cache
      <3> QED BY <1>2, <3>1, <3>2, KeepsStep DEF Unsettled
    <2> QED BY <2>2, <2>3
  <1>7. CASE ReplayRefused
    <2>1. /\ queue' = queue \ {replay.of} /\ UNCHANGED <<done, cache>>
          /\ cache # None => gaps' = gaps \cup (({replay.of} \cap done) \ cache)
      BY <1>7 DEF ReplayRefused
    <2> QED BY <1>2, <2>1 DEF CacheKeepsUp, Unsettled
  <1>8. CASE ReplayFailed
    <2>1. UNCHANGED <<done, queue, cache, gaps>> /\ replay.of \in queue
      BY <1>1, <1>8 DEF ReplayFailed, Replayed, Cache
    <2> QED BY <1>1, <1>2, <2>1, KeepsStep DEF Unsettled
  <1> QED BY <1>3, <1>4, <1>5, <1>6, <1>7, <1>8

LEMMA KeepsClose ==
  ASSUME FlowInv, CacheKeepsUp, Unminded' = Unminded, NEW S \in SUBSET Muts, Close(S)
  PROVE  CacheKeepsUp'
  <1>1. cache' = cache /\ queue' = queue
        /\ (cache # None => gaps' = (done' \ cache) \ queue)
    BY DEF Close
  <1> QED BY <1>1 DEF CacheKeepsUp, Unsettled

(* After every mutation of the user that is settled, live or replayed, what *)
(* is cached of any read takes account of it or is gone, but for the gaps   *)
(* and the two reads that the code forgets.                                 *)
THEOREM CacheIsCurrent == Spec => []CacheKeepsUp
  <1>1. Init => CacheKeepsUp
    BY DEF Init, CacheKeepsUp
  <1>2. FlowInv /\ CacheKeepsUp /\ [Next]_vars => CacheKeepsUp'
    BY Minded, KeepsPage, KeepsCall, KeepsReplay, KeepsClose DEF Next
  <1> QED BY <1>1, <1>2, FlowInvariance, PTL DEF Spec

-----------------------------------------------------------------------------
(* What a page shows is with the server, queued or turned down.            *)

Backed == done \cup queue \cup dropped

LEMMA BackedRemains ==
  ASSUME FlowInv, [Next]_vars
  PROVE  Backed \subseteq Backed'
  <1>1. Replayed
    BY DEF FlowInv, ServerOK
  <1>2. CASE ReplayRemoved
    BY <1>1, <1>2 DEF ReplayRemoved, Backed, Replayed
  <1>3. CASE ReplayRefused
    BY <1>3 DEF ReplayRefused, Backed
  <1>4. CASE done \subseteq done' /\ queue \subseteq queue' /\ dropped' = dropped
    BY <1>4 DEF Backed
  <1> QED BY <1>2, <1>3, <1>4
       DEF Next, vars, Mount, Answered, Unanswered, Cached, FromCache,
           GetRefused, Leave, Age, SetOnline, Act, Handled, TurnedDown, Lost,
           Invalidated, Enqueued, StartReplay, Follow, ReplayHandled,
           ReplayInvalidated, ReplayFailed, Close, Env, Server, Queue

LEMMA EndsShown ==
  ASSUME PageOK, NEW g \in Gets, NEW v, Ends(g, v)
  PROVE  page'.shows = page.shows \/ page'.shows = v
  <1>1. page \in Shown
    BY DEF PageOK
  <1>2. CASE gets[g].here
    <2>1. page' = [page EXCEPT !.loading = FALSE, !.shows = v]
      BY <1>2 DEF Ends
    <2> QED BY <1>1, <2>1 DEF Shown
  <1>3. CASE ~gets[g].here
    BY <1>3 DEF Ends
  <1> QED BY <1>2, <1>3

LEMMA ShownStep ==
  ASSUME FlowInv, ShownIsBacked, [Next]_vars
  PROVE  ShownIsBacked'
  <1>1. /\ PageOK /\ CacheOK /\ Gots /\ \A m \in Muts : Placed(m)
        /\ page \in Shown
    BY DEF FlowInv, ServerOK, PageOK
  <1>2. Backed \subseteq Backed' /\ page.shows \subseteq Backed
    BY BackedRemains DEF ShownIsBacked, Backed
  <1> SUFFICES page'.shows \subseteq Backed'
    BY DEF ShownIsBacked, Backed
  <1>3. ASSUME NEW g \in Gets, Cached(g) \/ FromCache(g) \/ GetRefused(g)
        PROVE  page'.shows \subseteq Backed'
    <2>1. PICK v : Ends(g, v) /\ (v \subseteq done \/ v = AfterError)
      BY <1>1, <1>3 DEF Cached, FromCache, GetRefused, CacheOK, Gots
    <2>2. v \subseteq Backed
      BY <1>2, <2>1 DEF AfterError, Backed
    <2> QED BY <1>1, <1>2, <2>1, <2>2, EndsShown
  <1>4. ASSUME NEW m \in Muts, NEW g \in Gets, Follow(m, g)
        PROVE  page'.shows \subseteq Backed'
    <2>1. m \in Backed
      BY <1>1, <1>4 DEF Follow, Placed, Backed
    <2>2. page'.shows \subseteq page.shows \cup {m}
      BY <1>1, <1>4 DEF Follow, Shown
    <2> QED BY <1>2, <2>1, <2>2
  <1>5. ASSUME \/ \E g \in Gets : Mount(g)
               \/ Leave \/ \E S \in SUBSET Muts : Close(S)
        PROVE  page'.shows \subseteq Backed'
    <2>1. \/ page' = Closed
          \/ page' = [on |-> TRUE, loading |-> TRUE, shows |-> {}]
      BY <1>5 DEF Mount, Leave, Close
    <2>2. page'.shows = {}
      BY <2>1 DEF Closed
    <2> QED BY <2>2
  <1>6. CASE page' = page
    BY <1>2, <1>6
  <1> QED BY <1>3, <1>4, <1>5, <1>6
       DEF Next, vars, Answered, Unanswered, Age, SetOnline, Act, Handled,
           TurnedDown, Lost, Invalidated, Enqueued, StartReplay, ReplayHandled,
           ReplayRemoved, ReplayInvalidated, ReplayRefused, ReplayFailed, Page

(* No page shows a change of its user that is neither with the server nor  *)
(* queued, but for one that the server turned down later.                  *)
THEOREM ShownIsHonest == Spec => []ShownIsBacked
  <1>1. Init => ShownIsBacked
    BY DEF Init, Closed, ShownIsBacked
  <1>2. FlowInv /\ ShownIsBacked /\ [Next]_vars => ShownIsBacked'
    BY ShownStep
  <1> QED BY <1>1, <1>2, FlowInvariance, PTL DEF Spec

-----------------------------------------------------------------------------
(* A page shows what its user has just changed on it.                      *)

\* No read is loaded again by one page and changed in place by another.
LEMMA ReloadedOrEdited ==
  ASSUME NEW k \in Kinds, NEW l \in Kinds
  PROVE  /\ read \in Reloads(k) => read \notin Edits(l)
         /\ k \in {"issue", "class"} => Edits(k) = {}
  BY DEF Kinds, Reloads, Edits

LEMMA OwnQuiet ==
  ASSUME FlowInv, OwnWork, done \subseteq done',
         UNCHANGED <<read, kind, page, gets, calls, live, blurred>>
  PROVE  OwnWork'
  <1>1. HereGets' = HereGets /\ EditedHere' = EditedHere
    BY DEF HereGets, Busy, EditedHere
  <1> QED BY <1>1 DEF OwnWork, OffPage, LoadedOnce, CallsHere, LiveCalls, LiveShown

LEMMA OwnMount ==
  ASSUME FlowInv, OwnWork, NEW g \in Gets, Mount(g)
  PROVE  OwnWork'
  <1>1. EnvOK /\ PageOK /\ OffPage
    BY DEF FlowInv, OwnWork
  <1>2. /\ ~page.on /\ Ask(g, TRUE) /\ live' = {}
        /\ page' = [on |-> TRUE, loading |-> TRUE, shows |-> {}]
        /\ UNCHANGED <<read, kind, calls>>
    BY DEF Mount, Env, Fixed, Server
  <1>3. HereGets' = {g}
    <2>1. /\ gets'[g] # Idle /\ gets'[g].here
          /\ \A h \in Gets \ {g} : gets'[h] = gets[h]
      BY <1>1, <1>2, AskType
    <2>2. HereGets = {}
      BY <1>1, <1>2 DEF OffPage
    <2> QED BY <2>1, <2>2 DEF HereGets, Busy
  <1>4. page'.on /\ page'.loading
    BY <1>2
  <1> QED BY <1>1, <1>2, <1>3, <1>4
       DEF OwnWork, OffPage, LoadedOnce, CallsHere, LiveCalls, LiveShown

\* The page is left, or the browser closed.
LEMMA OwnLeave ==
  ASSUME FlowInv, OwnWork, Leave \/ \E S \in SUBSET Muts : Close(S)
  PROVE  OwnWork'
  <1>1. /\ PageOK /\ CallsHere /\ LiveCalls /\ calls \in [Muts -> Call]
        /\ live \subseteq Muts
    BY DEF FlowInv, OwnWork, ServerOK, HistoryOK
  <1>2. page' = Closed /\ live' = live /\ done \subseteq done'
    BY DEF Leave, Close
  <1>3. HereGets' = {}
    <2>1. CASE Leave
      <3>1. ASSUME NEW g \in Gets PROVE gets'[g] = Idle \/ ~gets'[g].here
        <4>1. gets' = [h \in Gets |-> IF gets[h] = Idle THEN Idle
                                      ELSE [gets[h] EXCEPT !.here = FALSE]]
          BY <2>1 DEF Leave
        <4>2. gets[g] # Idle => gets[g] \in Get
          BY <1>1 DEF PageOK
        <4>3. gets[g] # Idle => gets'[g].here = FALSE
          BY <4>1, <4>2 DEF Get
        <4> QED BY <4>1, <4>3
      <3> QED BY <3>1 DEF HereGets, Busy
    <2>2. CASE \E S \in SUBSET Muts : Close(S)
      BY <2>2 DEF Close, HereGets, Busy
    <2> QED BY <2>1, <2>2
  <1>4. ASSUME NEW m \in Muts
        PROVE  /\ ~calls'[m].here
               /\ calls[m].step \in {"page", "over"} =>
                    calls'[m].step \in {"page", "over"}
    <2>1. CASE Leave
      <3>1. calls'[m] = [calls[m] EXCEPT !.here = FALSE] /\ calls[m] \in Call
        BY <1>1, <2>1 DEF Leave
      <3> QED BY <3>1 DEF Call
    <2>2. CASE \E S \in SUBSET Muts : Close(S)
      <3>1. calls'[m] = IF calls[m].step = "new" THEN calls[m]
                        ELSE [step |-> "over", here |-> FALSE]
        BY <2>2 DEF Close
      <3> QED BY <1>1, <3>1 DEF CallsHere
    <2> QED BY <2>1, <2>2
  <1>5. page'.on = FALSE
    BY <1>2 DEF Closed
  <1> QED BY <1>1, <1>2, <1>3, <1>4, <1>5
       DEF OwnWork, OffPage, LoadedOnce, CallsHere, LiveCalls, LiveShown

LEMMA OwnAnswer ==
  ASSUME FlowInv, OwnWork, NEW g \in Gets, Answered(g) \/ Unanswered(g)
  PROVE  OwnWork'
  <1>1. PageOK /\ LiveCalls /\ LiveShown /\ gets[g] # Idle /\ gets[g] \in Get
    BY DEF FlowInv, OwnWork, Answered, Unanswered, PageOK
  <1>2. UNCHANGED <<read, kind, done, calls, page, live, blurred>>
    BY DEF Answered, Unanswered, Env, Fixed, Server
  <1>3. PICK r \in Get : /\ r.here = gets[g].here
                         /\ r.step = "answered" => r.got = done
                         /\ gets' = [gets EXCEPT ![g] = r]
    <2>1. done \subseteq Muts
      BY DEF FlowInv, ServerOK
    <2>2. CASE Answered(g)
      <3> DEFINE r == [gets[g] EXCEPT !.step = "answered", !.got = done]
      <3>1. r \in Get /\ r.here = gets[g].here /\ r.got = done
        BY <1>1, <2>1 DEF Get
      <3>2. gets' = [gets EXCEPT ![g] = r]
        BY <1>1, <2>2 DEF Answered, PageOK
      <3> QED BY <3>1, <3>2
    <2>3. CASE Unanswered(g)
      <3> DEFINE r == [gets[g] EXCEPT !.step = "failed", !.got = {}]
      <3>1. r \in Get /\ r.here = gets[g].here /\ r.step = "failed"
        BY <1>1 DEF Get
      <3>2. gets' = [gets EXCEPT ![g] = r]
        BY <1>1, <2>3 DEF Unanswered, PageOK
      <3> QED BY <3>1, <3>2
    <2> QED BY <2>2, <2>3
  <1>4. HereGets' = HereGets
    <2>1. Busy' = Busy /\ \A h \in Busy : gets'[h].here = gets[h].here
      BY <1>1, <1>2, <1>3, GoesOn
    <2> QED BY <2>1 DEF HereGets
  <1>5. \A h \in Gets : gets'[h] = IF h = g THEN r ELSE gets[h]
    BY <1>1, <1>3 DEF PageOK
  <1>6. LiveShown'
    <2> SUFFICES ASSUME page.on /\ ~blurred, NEW m \in live, calls[m].step = "over",
                        NEW h \in HereGets, gets'[h].step = "answered"
                 PROVE  m \in gets'[h].got
      BY <1>1, <1>2, <1>4 DEF LiveShown
    <2>1. CASE h = g
      BY <1>1, <1>3, <1>5, <2>1 DEF LiveCalls
    <2>2. CASE h # g
      <3>1. gets'[h] = gets[h]
        BY <1>5, <2>2 DEF HereGets, Busy
      <3> QED BY <1>1, <3>1 DEF LiveShown
    <2> QED BY <2>1, <2>2
  <1>7. EditedHere' = EditedHere
    BY <1>2 DEF EditedHere
  <1> QED BY <1>2, <1>4, <1>6, <1>7
       DEF OwnWork, OffPage, LoadedOnce, CallsHere, LiveCalls

LEMMA OwnEnd ==
  ASSUME FlowInv, OwnWork, NEW g \in Gets, Cached(g) \/ FromCache(g) \/ GetRefused(g)
  PROVE  OwnWork'
  <1>1. /\ PageOK /\ OffPage /\ LoadedOnce /\ CallsHere /\ LiveCalls /\ LiveShown
        /\ gets[g] # Idle /\ page \in Shown
    BY DEF FlowInv, OwnWork, Cached, FromCache, GetRefused, PageOK
  <1>2. UNCHANGED <<read, kind, done, calls, live>> /\ EditedHere' = EditedHere
    BY DEF Cached, FromCache, GetRefused, Env, Fixed, Server, EditedHere
  <1>3. PICK v : Ends(g, v) /\ (Cached(g) => v = gets[g].got)
    BY DEF Cached, FromCache, GetRefused
  <1>4. HereGets' = HereGets \ {g}
    <2>1. gets' = [gets EXCEPT ![g] = Idle] /\ gets \in [Gets -> Get \cup {Idle}]
      BY <1>1, <1>3 DEF Ends, PageOK
    <2> QED BY <2>1 DEF HereGets, Busy
  <1>5. /\ page'.on = page.on /\ (page'.loading => page.loading)
        /\ IF g \in HereGets THEN ~page'.loading /\ page'.shows = v
           ELSE page' = page
    <2>1. g \in HereGets <=> gets[g].here
      BY <1>1 DEF HereGets, Busy
    <2>2. CASE gets[g].here
      <3>1. page' = [page EXCEPT !.loading = FALSE, !.shows = v]
        BY <1>3, <2>2 DEF Ends
      <3> QED BY <1>1, <2>1, <2>2, <3>1 DEF Shown
    <2>3. CASE ~gets[g].here
      BY <1>3, <2>1, <2>3 DEF Ends
    <2> QED BY <2>2, <2>3
  <1>6. LoadedOnce'
    BY <1>1, <1>2, <1>4, <1>5 DEF LoadedOnce
  <1>7. LiveShown'
    <2>1. ASSUME page.on, ~blurred'
          PROVE  /\ ~blurred
                 /\ g \in HereGets => HereGets = {g} /\ Cached(g)
                 /\ \A h \in HereGets' : gets'[h] = gets[h]
      <3>1. \/ blurred' = (blurred \/ gets[g].here)
            \/ /\ Cached(g)
               /\ blurred' = (blurred \/ \E h \in Busy \ {g} : gets[h].here)
        BY DEF Cached, FromCache, GetRefused
      <3>2. ~blurred /\ (g \in HereGets => Cached(g))
        BY <1>1, <2>1, <3>1 DEF HereGets
      <3>3. \A h, k \in HereGets : h = k
        BY <1>1, <2>1, <3>2 DEF LiveShown
      <3>4. \A h \in HereGets' : gets'[h] = gets[h]
        BY <1>1, <1>3, <1>4 DEF Ends, PageOK, HereGets, Busy
      <3> QED BY <3>2, <3>3, <3>4
    <2>2. ASSUME page.on, ~blurred', NEW m \in live, calls[m].step = "over"
          PROVE  IF HereGets' = {} THEN m \in page'.shows
                 ELSE \A h \in HereGets' :
                        gets'[h].step = "answered" => m \in gets'[h].got
      <3>1. CASE g \in HereGets
        <4>1. HereGets' = {} /\ gets[g].step = "answered" /\ page'.shows = gets[g].got
          BY <1>3, <1>4, <1>5, <2>1, <2>2, <3>1 DEF Cached
        <4>2. m \in gets[g].got
          BY <1>1, <2>1, <2>2, <3>1, <4>1 DEF LiveShown
        <4> QED BY <4>1, <4>2
      <3>2. CASE g \notin HereGets
        BY <1>1, <1>4, <1>5, <2>1, <2>2, <3>2 DEF LiveShown
      <3> QED BY <3>1, <3>2
    <2>3. ASSUME page.on, ~blurred' PROVE \A h, k \in HereGets' : h = k
      BY <1>1, <1>4, <2>1, <2>3 DEF LiveShown
    <2> QED BY <1>2, <1>5, <2>2, <2>3 DEF LiveShown
  <1>8. OffPage' /\ CallsHere' /\ LiveCalls'
    BY <1>1, <1>2, <1>4, <1>5 DEF OffPage, CallsHere, LiveCalls
  <1> QED BY <1>6, <1>7, <1>8 DEF OwnWork

\* The step of a call before its page is told.
LEMMA OwnCall ==
  ASSUME FlowInv, OwnWork, NEW m \in Muts,
         \/ Act(m) \/ Handled(m) \/ TurnedDown(m) \/ Lost(m) \/ Invalidated(m)
         \/ Enqueued(m)
  PROVE  OwnWork'
  <1>1. /\ OffPage /\ LoadedOnce /\ CallsHere /\ LiveCalls /\ LiveShown
        /\ EnvOK /\ ServerOK /\ Placed(m) /\ PageOK
    BY DEF FlowInv, OwnWork, ServerOK
  <1>2. /\ UNCHANGED <<read, kind, page, gets, blurred>> /\ done \subseteq done'
        /\ \/ live' = live
           \/ Invalidated(m) /\ live' = live \cup {m} /\ calls[m].here
    BY DEF Act, Handled, TurnedDown, Lost, Invalidated, Enqueued, Env, Fixed, Page
  <1>3. HereGets' = HereGets /\ EditedHere' = EditedHere
    BY <1>2 DEF HereGets, Busy, EditedHere
  <1>4. /\ \A n \in Muts \ {m} : calls'[n] = calls[n]
        /\ calls'[m].step \in {"sent", "handled", "queueing", "page", "over"}
        /\ ~Act(m) => calls'[m].here = calls[m].here
    <2>1. CASE Act(m)
      BY <1>1, <2>1, ActCall
    <2>2. CASE ~Act(m)
      <3>1. PICK s \in {"handled", "queueing", "page", "over"} : Step(m, s)
        BY <2>2 DEF Handled, TurnedDown, Lost, Invalidated, Enqueued
      <3> QED BY <1>1, <2>2, <3>1, StepType
    <2> QED BY <2>1, <2>2
  <1>5. calls[m].step \in {"new", "sent", "handled", "queueing"}
    BY DEF Act, Handled, TurnedDown, Lost, Invalidated, Enqueued
  <1>6. calls'[m].here =>
          /\ page.on /\ calls'[m].step # "new"
          /\ read \in Reloads(kind[m]) \cup Edits(kind[m])
          /\ read \in Edits(kind[m]) => ~page.loading
    <2>1. CASE Act(m)
      <3>1. /\ m \in DOMAIN kind /\ kind[m] \in Kinds
            /\ calls'[m].here <=> read \in Reloads(kind[m]) \cup Edits(kind[m])
        BY <1>1, <2>1, ActCall, KindFits DEF Act
      <3> QED BY <1>4, <2>1, <3>1, ReloadedOrEdited DEF Act
    <2>2. CASE ~Act(m)
      BY <1>1, <1>4, <2>2 DEF CallsHere, OffPage
    <2> QED BY <2>1, <2>2
  <1>7. OffPage' /\ CallsHere'
    BY <1>1, <1>2, <1>3, <1>4, <1>6 DEF OffPage, CallsHere
  <1>8. LiveCalls'
    <2>1. m \notin live
      BY <1>1, <1>5 DEF LiveCalls
    <2>2. live \subseteq Muts
      BY DEF FlowInv, HistoryOK
    <2>3. CASE live' = live
      BY <1>1, <1>2, <1>4, <2>1, <2>2, <2>3 DEF LiveCalls
    <2>4. CASE Invalidated(m) /\ live' = live \cup {m} /\ calls[m].here
      <3>1. calls[m].step = "handled" /\ Step(m, "page")
        BY <2>4 DEF Invalidated
      <3>2. m \in done /\ calls'[m].step = "page" /\ calls'[m].here
        BY <1>1, <2>4, <3>1, StepType DEF Placed
      <3>3. read \in Edits(kind[m]) => ~page.loading
        BY <1>1, <2>4 DEF CallsHere
      <3> QED BY <1>1, <1>2, <1>4, <2>1, <2>2, <2>4, <3>2, <3>3 DEF LiveCalls
    <2> QED BY <1>2, <2>3, <2>4
  <1>9. LiveShown'
    <2>1. m \in live' => calls'[m].step # "over"
      <3>1. m \notin live
        BY <1>1, <1>5 DEF LiveCalls
      <3>2. Invalidated(m) => calls'[m].step = "page"
        BY <1>1, StepType DEF Invalidated
      <3> QED BY <1>2, <3>1, <3>2
    <2>2. live \subseteq Muts
      BY DEF FlowInv, HistoryOK
    <2>3. \A n \in live' \ {m} : n \in live /\ calls'[n] = calls[n]
      BY <1>2, <1>4, <2>2
    <2> QED BY <1>1, <1>2, <1>3, <2>1, <2>3 DEF LiveShown
  <1> QED BY <1>1, <1>2, <1>3, <1>7, <1>8, <1>9 DEF OwnWork, LoadedOnce

LEMMA OwnFollow ==
  ASSUME FlowInv, OwnWork, NEW m \in Muts, NEW g \in Gets, Follow(m, g)
  PROVE  OwnWork'
  <1>1. /\ OffPage /\ LoadedOnce /\ CallsHere /\ LiveCalls /\ LiveShown
        /\ EnvOK /\ ServerOK /\ Placed(m) /\ PageOK /\ page \in Shown
        /\ live \subseteq Muts /\ calls[m].here \in BOOLEAN
    BY DEF FlowInv, OwnWork, ServerOK, PageOK, HistoryOK, Call
  <1>2. /\ calls[m].step = "page" /\ Step(m, "over")
        /\ UNCHANGED <<read, kind, done, live>>
    BY DEF Follow, Env, Fixed
  <1>3. /\ calls'[m].step = "over" /\ calls'[m].here = calls[m].here
        /\ \A n \in Muts \ {m} : calls'[n] = calls[n]
    BY <1>1, <1>2, StepType
  <1>4. m \in DOMAIN kind /\ DOMAIN kind \subseteq Muts /\ EditedHere' = EditedHere
        /\ \A n \in DOMAIN kind : kind[n] \in Kinds
    BY <1>1, <1>2, KindFits DEF Placed, EditedHere
  <1>5. /\ page'.on = page.on /\ page'.loading = page.loading
        /\ page.shows \subseteq page'.shows
        /\ calls[m].here /\ read \in Edits(kind[m]) => m \in page'.shows
    BY <1>1 DEF Follow, Shown
  <1>6. OffPage' /\ CallsHere' /\ LiveCalls'
    <2>1. ~page.on => HereGets' = {}
      <3>1. CASE read \in Again(m)
        <4>1. Ask(g, calls[m].here)
          BY <3>1 DEF Follow
        <4>2. gets'[g].here = calls[m].here /\ \A h \in Gets \ {g} : gets'[h] = gets[h]
          BY <1>1, <4>1, AskType
        <4> QED BY <1>1, <4>2 DEF OffPage, HereGets, Busy
      <3>2. CASE read \notin Again(m)
        BY <1>1, <3>2 DEF Follow, OffPage, HereGets, Busy
      <3> QED BY <3>1, <3>2
    <2>2. OffPage'
      BY <1>1, <1>3, <1>5, <2>1 DEF OffPage
    <2>3. CallsHere'
      BY <1>1, <1>2, <1>3, <1>5 DEF CallsHere
    <2>4. LiveCalls'
      BY <1>1, <1>2, <1>3, <1>5 DEF LiveCalls
    <2> QED BY <2>2, <2>3, <2>4
  <1>7. CASE read \in Again(m)
    <2>1. /\ Ask(g, calls[m].here)
          /\ blurred' = (blurred \/ \E h \in Busy : gets[h].here)
      BY <1>7 DEF Follow
    <2>2. /\ gets'[g].here = calls[m].here /\ gets'[g] # Idle /\ gets[g] = Idle
          /\ gets'[g].step # "answered"
          /\ \A h \in Gets \ {g} : gets'[h] = gets[h]
      BY <1>1, <2>1, AskType
    <2>3. ~EditedHere
      BY <1>4, <1>7, ReloadedOrEdited DEF EditedHere, Again
    <2>4. HereGets' = HereGets \cup (IF calls[m].here THEN {g} ELSE {})
      BY <2>2 DEF HereGets, Busy
    <2>5. ~blurred' => ~blurred /\ HereGets = {}
      BY <2>1 DEF HereGets
    <2>6. LiveShown'
      <3> SUFFICES ASSUME page'.on, ~blurred'
                   PROVE  /\ \A h, k \in HereGets' : h = k
                          /\ \A n \in live' : calls'[n].step = "over" =>
                               IF HereGets' = {} THEN n \in page'.shows
                               ELSE \A h \in HereGets' :
                                 gets'[h].step = "answered" => n \in gets'[h].got
        BY DEF LiveShown
      <3>1. ~blurred /\ HereGets = {} /\ page.on
        BY <1>5, <2>5
      <3>2. CASE calls[m].here
        BY <2>2, <2>4, <3>1, <3>2
      <3>3. CASE ~calls[m].here
        <4>1. HereGets' = {} /\ m \notin live
          BY <1>1, <1>2, <2>4, <3>1, <3>3 DEF LiveCalls
        <4> QED BY <1>1, <1>2, <1>3, <1>5, <3>1, <4>1 DEF LiveShown
      <3> QED BY <3>2, <3>3
    <2> QED BY <1>4, <1>6, <2>3, <2>6 DEF OwnWork, LoadedOnce
  <1>8. CASE read \notin Again(m)
    <2>1. gets' = gets /\ blurred' = blurred /\ HereGets' = HereGets
      BY <1>8 DEF Follow, HereGets, Busy
    <2>2. LoadedOnce'
      BY <1>1, <1>4, <1>5, <2>1 DEF LoadedOnce
    <2>3. page.on /\ m \in live => HereGets = {} /\ m \in page'.shows
      <3> SUFFICES ASSUME page.on, m \in live
                   PROVE  HereGets = {} /\ m \in page'.shows
        OBVIOUS
      <3>1. calls[m].here
        BY <1>1, <1>2 DEF LiveCalls
      <3>2. read \in Edits(kind[m]) /\ ~page.loading
        BY <1>1, <1>8, <3>1 DEF CallsHere, Again
      <3>3. EditedHere
        BY <1>4, <3>2 DEF EditedHere
      <3> QED BY <1>1, <1>5, <3>1, <3>2, <3>3 DEF LoadedOnce
    <2>4. LiveShown'
      BY <1>1, <1>2, <1>3, <1>5, <2>1, <2>3 DEF LiveShown
    <2> QED BY <1>6, <2>2, <2>4 DEF OwnWork
  <1> QED BY <1>7, <1>8

LEMMA OwnStep ==
  ASSUME FlowInv, OwnWork, [Next]_vars
  PROVE  OwnWork'
  <1>1. ASSUME \/ Age \/ SetOnline \/ UNCHANGED vars
               \/ \E m \in Muts : StartReplay(m)
               \/ ReplayHandled \/ ReplayRemoved \/ ReplayInvalidated
               \/ ReplayRefused \/ ReplayFailed
        PROVE  OwnWork'
    <2>1. /\ UNCHANGED <<read, kind, page, gets, calls, live, blurred>>
          /\ done \subseteq done'
      BY <1>1 DEF Age, SetOnline, vars, StartReplay, ReplayHandled,
                  ReplayRemoved, ReplayInvalidated, ReplayRefused, ReplayFailed,
                  Env, Fixed, Server, Page
    <2> QED BY <2>1, OwnQuiet
  <1> QED BY <1>1, OwnMount, OwnLeave, OwnAnswer, OwnEnd, OwnCall, OwnFollow
       DEF Next

(* Whatever calls, GETs and replays overlap, a page whose own GETs do not   *)
(* overlap or fail shows what its user has changed on it.                   *)
THEOREM OwnWorkIsShown == Spec => []OwnWorkShown
  <1>1. ASSUME Init PROVE OwnWork
    <2>1. page = Closed /\ live = {} /\ HereGets = {}
          /\ \A m \in Muts : ~calls[m].here
      BY <1>1 DEF Init, HereGets, Busy
    <2>2. ~page.on
      BY <2>1 DEF Closed
    <2> QED BY <2>1, <2>2 DEF OwnWork, OffPage, LoadedOnce, CallsHere, LiveCalls,
                              LiveShown
  <1>2. FlowInv /\ OwnWork /\ [Next]_vars => OwnWork'
    BY OwnStep
  <1>3. ASSUME OwnWork PROVE OwnWorkShown
    BY <1>3 DEF OwnWork, LiveShown, OwnWorkShown, HereGets
  <1> QED BY <1>1, <1>2, <1>3, FlowInvariance, PTL DEF Spec
=============================================================================
