-------------------------- MODULE ClassroomProofs --------------------------
(***************************************************************************)
(* Proofs about Classroom, for every set of classes, of assignments and of *)
(* calls.                                                                  *)
(***************************************************************************)
EXTENDS Classroom, TLAPS

-----------------------------------------------------------------------------
(* Calls.                                                                  *)

CallsType == [Calls -> {Idle} \cup Call]

Kinds == {"list", "table", "subs", "newclass", "create"}

LEMMA AskType ==
  ASSUME NEW kind \in Kinds, NEW of \in Classes \cup Works \cup {None},
         NEW got \in SUBSET (Classes \cup Works)
  PROVE  /\ Ask(kind, of, got) \in Call /\ Ask(kind, of, got) # Idle
         /\ Ask(kind, of, got).kind = kind /\ Ask(kind, of, got).of = of
         /\ Ask(kind, of, got).got = got /\ Ask(kind, of, got).newest
         /\ Ask(kind, of, got).here
         /\ Ask(kind, of, got).had <=> (kind \in {"list", "newclass"} /\ sel # None)
  <1> DEFINE had == kind \in {"list", "newclass"} /\ sel # None
  <1>1. Ask(kind, of, got) = [kind |-> kind, of |-> of, got |-> got,
                              newest |-> TRUE, had |-> had, here |-> TRUE]
    BY DEF Ask
  <1>2. had \in BOOLEAN
    OBVIOUS
  <1>3. had <=> (kind \in {"list", "newclass"} /\ sel # None)
    OBVIOUS
  <1> HIDE DEF had
  <1>4. Ask(kind, of, got) \in Call
    BY <1>1, <1>2 DEF Call, Kinds
  <1>5. Ask(kind, of, got) # Idle
    BY <1>4, ClassroomAssumption
  <1>6. /\ Ask(kind, of, got).kind = kind /\ Ask(kind, of, got).of = of
        /\ Ask(kind, of, got).got = got /\ Ask(kind, of, got).newest
        /\ Ask(kind, of, got).here /\ Ask(kind, of, got).had = had
    BY <1>1
  <1> QED BY <1>3, <1>4, <1>5, <1>6

\* Renumbering touches the loads of assignments and submissions only.
LEMMA RenumberedType ==
  ASSUME NEW cs \in CallsType
  PROVE  /\ Renumbered(cs) \in CallsType
         /\ \A k \in Calls :
              IF cs[k] # Idle /\ cs[k].kind \in {"table", "subs"}
                THEN /\ Renumbered(cs)[k] # Idle /\ Renumbered(cs)[k].kind = "table"
                     /\ ~Renumbered(cs)[k].newest /\ Renumbered(cs)[k].got = {}
                ELSE Renumbered(cs)[k] = cs[k]
  <1> SUFFICES ASSUME NEW k \in Calls
               PROVE  /\ Renumbered(cs)[k] \in {Idle} \cup Call
                      /\ IF cs[k] # Idle /\ cs[k].kind \in {"table", "subs"}
                           THEN /\ Renumbered(cs)[k] # Idle
                                /\ Renumbered(cs)[k].kind = "table"
                                /\ ~Renumbered(cs)[k].newest
                                /\ Renumbered(cs)[k].got = {}
                           ELSE Renumbered(cs)[k] = cs[k]
    BY DEF Renumbered, CallsType
  <1>1. CASE cs[k] # Idle /\ cs[k].kind \in {"table", "subs"}
    <2> DEFINE new == [cs[k] EXCEPT !.newest = FALSE, !.kind = "table",
                                    !.of = None, !.got = {}]
    <2>1. Renumbered(cs)[k] = new /\ cs[k] \in Call
      BY <1>1 DEF Renumbered, CallsType
    <2>2. new \in Call /\ new.kind = "table" /\ ~new.newest /\ new.got = {}
      BY <2>1 DEF Call
    <2> QED BY <1>1, <2>1, <2>2, ClassroomAssumption
  <1>2. CASE ~(cs[k] # Idle /\ cs[k].kind \in {"table", "subs"})
    BY <1>2 DEF Renumbered, CallsType
  <1> QED BY <1>1, <1>2

\* A new request id: one load of assignments or of submissions is the newest.
LEMMA NewId ==
  ASSUME NEW cs \in CallsType, NEW k \in Calls, NEW x \in Call, x.newest,
         x.kind \in {"table", "subs"},
         calls' = [Renumbered(cs) EXCEPT ![k] = x]
  PROVE  /\ calls' \in CallsType /\ calls'[k] = x
         /\ Newest("table")' = (IF x.kind = "table" THEN {k} ELSE {})
         /\ Newest("subs")' = (IF x.kind = "subs" THEN {k} ELSE {})
         /\ \A j \in Calls \ {k} :
              IF cs[j] # Idle /\ cs[j].kind \in {"table", "subs"}
                THEN /\ calls'[j] # Idle /\ calls'[j].kind = "table"
                     /\ ~calls'[j].newest /\ calls'[j].got = {}
                ELSE calls'[j] = cs[j]
  <1>1. /\ calls' \in CallsType /\ calls'[k] = x /\ x # Idle
        /\ \A j \in Calls \ {k} : calls'[j] = Renumbered(cs)[j]
    BY RenumberedType, ClassroomAssumption DEF CallsType
  <1>2. \A j \in Calls \ {k} :
          IF cs[j] # Idle /\ cs[j].kind \in {"table", "subs"}
            THEN /\ calls'[j] # Idle /\ calls'[j].kind = "table"
                 /\ ~calls'[j].newest /\ calls'[j].got = {}
            ELSE calls'[j] = cs[j]
    BY <1>1, RenumberedType
  <1>3. /\ Newest("table")' = (IF x.kind = "table" THEN {k} ELSE {})
        /\ Newest("subs")' = (IF x.kind = "subs" THEN {k} ELSE {})
    BY <1>1, <1>2 DEF Newest, Under
  <1> QED BY <1>1, <1>2, <1>3

-----------------------------------------------------------------------------
(* Types.                                                                  *)

\* What is known of the answer of a call x, of the teacher's classes ts and
\* the assignments ps on the server.
Right(x, ts, ps) ==
  /\ x.kind = "list" => x.got \subseteq ts
  /\ x.kind = "newclass" => x.of \in Classes \cup {None}
  /\ x.kind \in {"table", "create"} => x.got \subseteq ps
  /\ x.kind = "subs" => x.of \in ps

AnswersOK == \A k \in Calls : calls[k] # Idle => Right(calls[k], taught, posted)

OneNewest == \A j, k \in Newest("table") \cup Newest("subs") : j = k

CallsOK == calls \in CallsType /\ AnswersOK /\ OneNewest

PageType ==
  /\ taught \subseteq Classes /\ posted \subseteq Works
  /\ listed \subseteq taught
  /\ sel \in taught \cup {None}
  /\ wizard \in [step : 0 .. 3, of : Classes \cup {None}]
  /\ table \subseteq posted
  /\ view \in posted \cup {None} /\ subs \in posted \cup {None}
  /\ picked \in Classes \cup {None} /\ early \in BOOLEAN
  /\ doubt \subseteq {"table", "subs"}

TypeInv == PageType /\ CallsOK

\* The server's classes and assignments are never taken back.
Grows == taught \subseteq taught' /\ posted \subseteq posted'

\* One call begins, goes on or ends.
LEMMA OneCallOK ==
  ASSUME TypeInv, Grows, NEW k \in Calls, NEW x \in {Idle} \cup Call,
         calls' = [calls EXCEPT ![k] = x],
         x # Idle => /\ x.kind \in {"list", "newclass", "create"}
                     /\ Right(x, taught', posted')
  PROVE  CallsOK'
  <1>1. /\ calls' \in CallsType /\ calls'[k] = x
        /\ \A j \in Calls \ {k} : calls'[j] = calls[j]
    BY DEF TypeInv, CallsOK, CallsType
  <1>2. OneNewest'
    BY <1>1 DEF OneNewest, TypeInv, CallsOK, Newest, Under
  <1>3. AnswersOK'
    BY <1>1 DEF AnswersOK, TypeInv, CallsOK, Right, Grows
  <1> QED BY <1>1, <1>2, <1>3 DEF CallsOK

LEMMA NewIdOK ==
  ASSUME Grows, NEW cs \in CallsType, NEW k \in Calls, NEW x \in Call, x.newest,
         \A j \in Calls : cs[j] # Idle => Right(cs[j], taught, posted),
         x.kind \in {"table", "subs"}, Right(x, taught', posted'),
         calls' = [Renumbered(cs) EXCEPT ![k] = x]
  PROVE  CallsOK'
  <1>1. /\ calls' \in CallsType /\ calls'[k] = x
        /\ Newest("table")' = (IF x.kind = "table" THEN {k} ELSE {})
        /\ Newest("subs")' = (IF x.kind = "subs" THEN {k} ELSE {})
        /\ \A j \in Calls \ {k} :
             IF cs[j] # Idle /\ cs[j].kind \in {"table", "subs"}
               THEN /\ calls'[j] # Idle /\ calls'[j].kind = "table"
                    /\ ~calls'[j].newest /\ calls'[j].got = {}
               ELSE calls'[j] = cs[j]
    BY NewId
  <1>2. OneNewest'
    BY <1>1 DEF OneNewest
  <1>3. AnswersOK'
    <2> SUFFICES ASSUME NEW j \in Calls, calls'[j] # Idle
                 PROVE  Right(calls'[j], taught', posted')
      BY DEF AnswersOK
    <2>1. CASE j = k
      BY <2>1, <1>1
    <2>2. CASE j # k /\ cs[j] # Idle /\ cs[j].kind \in {"table", "subs"}
      BY <2>2, <1>1 DEF Right
    <2>3. CASE j # k /\ ~(cs[j] # Idle /\ cs[j].kind \in {"table", "subs"})
      BY <2>3, <1>1 DEF Right, Grows
    <2> QED BY <2>1, <2>2, <2>3
  <1> QED BY <1>1, <1>2, <1>3 DEF CallsOK

\* The works of a class are posted.
LEMMA WorksPosted ==
  ASSUME TypeInv, NEW c
  PROVE  /\ Works_Of(c) \subseteq posted
         /\ Works_Of(c) \in SUBSET (Classes \cup Works)
  BY DEF Works_Of, TypeInv, PageType

LEMMA SelectOK ==
  ASSUME TypeInv, UNCHANGED Server, NEW c \in taught \cup {None}, NEW cs \in CallsType,
         \A j \in Calls : cs[j] # Idle => Right(cs[j], taught, posted),
         c = sel /\ calls' = cs => CallsOK', Select(c, cs)
  PROVE  /\ CallsOK' /\ sel' = c
         /\ view' \in posted \cup {None} /\ subs' \in posted \cup {None}
         /\ doubt' \subseteq {"table", "subs"}
  <1>1. CASE c = sel
    BY <1>1 DEF Select, TypeInv, PageType
  <1>2. CASE c # sel
    <2>1. /\ sel' = c /\ view' = None /\ subs' = None
          /\ doubt' = doubt \ {"table", "subs"}
      BY <1>2 DEF Select
    <2>2. PICK k \in Calls :
            calls' = [Renumbered(cs) EXCEPT ![k] = Ask("table", c, Works_Of(c))]
      BY <1>2 DEF Select
    <2> DEFINE x == Ask("table", c, Works_Of(c))
    <2>3. c \in Classes \cup Works \cup {None}
      BY DEF TypeInv, PageType
    <2>4. x \in Call /\ x.kind = "table" /\ x.got = Works_Of(c) /\ x.newest
      BY <2>3, WorksPosted, AskType DEF Kinds
    <2>5. Right(x, taught', posted') /\ Grows
      BY <2>4, WorksPosted DEF Right, Server, Grows
    <2> HIDE DEF x
    <2>6. CallsOK'
      BY <2>2, <2>4, <2>5, NewIdOK DEF x
    <2> QED BY <2>1, <2>6 DEF TypeInv, PageType
  <1> QED BY <1>1, <1>2

LEMMA TypeInitially == Init => TypeInv
  <1> SUFFICES ASSUME Init PROVE TypeInv
    OBVIOUS
  <1>1. PageType
    <2>1. taught \subseteq Classes /\ posted \subseteq Works
      BY DEF Init
    <2>2. wizard \in [step : 0 .. 3, of : Classes \cup {None}]
      BY DEF Init
    <2> QED BY <2>1, <2>2 DEF Init, PageType
  <1>2. PICK k \in Calls :
          calls = [j \in Calls |-> IF j = k THEN Ask("list", None, taught) ELSE Idle]
    BY DEF Init
  <1> DEFINE x == Ask("list", None, taught)
  <1>3. x \in Call /\ x.kind = "list" /\ x.got = taught
    BY <1>1, AskType DEF Kinds, PageType
  <1> HIDE DEF x
  <1>4. calls = [j \in Calls |-> IF j = k THEN x ELSE Idle]
    BY <1>2 DEF x
  <1>5. calls \in CallsType
    BY <1>3, <1>4 DEF CallsType
  <1>6. AnswersOK
    BY <1>3, <1>4 DEF AnswersOK, Right
  <1>7. OneNewest
    BY <1>3, <1>4 DEF OneNewest, Newest, Under
  <1> QED BY <1>1, <1>5, <1>6, <1>7 DEF TypeInv, CallsOK

\* The calls of the code, one by one.
LEMMA CallOf ==
  ASSUME TypeInv, NEW k \in Calls, calls[k] # Idle
  PROVE  calls[k] \in Call /\ Right(calls[k], taught, posted)
  BY DEF TypeInv, CallsOK, AnswersOK, CallsType

\* A call ends, and nothing changes on the server.
LEMMA EndedOK ==
  ASSUME TypeInv, UNCHANGED Server, NEW k \in Calls,
         calls' = [calls EXCEPT ![k] = Idle]
  PROVE  CallsOK'
  <1>1. Grows
    BY DEF Grows, Server
  <1> QED BY <1>1, OneCallOK

LEMMA ListAnsweredOK ==
  ASSUME TypeInv, NEW k \in Calls, ListAnswered(k)
  PROVE  TypeInv'
  <1>1. calls[k] # Idle /\ calls[k].kind = "list" /\ UNCHANGED Server
    BY DEF ListAnswered, Under
  <1>2. calls[k].got \subseteq taught
    BY <1>1, CallOf DEF Right
  <1> DEFINE cs == [calls EXCEPT ![k] = Idle]
  <1>3. PICK c \in MovesTo(calls[k]) : Select(c, cs)
    BY DEF ListAnswered
  <1>4. c \in taught \cup {None}
    BY <1>2 DEF MovesTo, TypeInv, PageType
  <1>5. /\ cs \in CallsType
        /\ \A j \in Calls : cs[j] # Idle => Right(cs[j], taught, posted)
    BY DEF TypeInv, CallsOK, CallsType, AnswersOK
  <1>6. calls' = cs => CallsOK'
    BY <1>1, EndedOK
  <1> HIDE DEF cs
  <1>7. /\ CallsOK' /\ sel' = c
        /\ view' \in posted \cup {None} /\ subs' \in posted \cup {None}
        /\ doubt' \subseteq {"table", "subs"}
    BY <1>1, <1>3, <1>4, <1>5, <1>6, SelectOK
  <1> QED BY <1>1, <1>2, <1>4, <1>7 DEF ListAnswered, TypeInv, PageType, Server

LEMMA PickClassOK ==
  ASSUME TypeInv, NEW c \in Classes, PickClass(c)
  PROVE  TypeInv'
  <1>1. c \in taught /\ UNCHANGED Server /\ Select(c, calls)
    BY DEF PickClass, TypeInv, PageType
  <1>2. /\ calls \in CallsType
        /\ \A j \in Calls : calls[j] # Idle => Right(calls[j], taught, posted)
    BY DEF TypeInv, CallsOK, AnswersOK
  <1>3. calls' = calls => CallsOK'
    BY <1>1 DEF TypeInv, CallsOK, AnswersOK, OneNewest, Newest, Under, Server
  <1>4. /\ CallsOK' /\ sel' = c
        /\ view' \in posted \cup {None} /\ subs' \in posted \cup {None}
        /\ doubt' \subseteq {"table", "subs"}
    BY <1>1, <1>2, <1>3, SelectOK
  <1> QED BY <1>1, <1>4 DEF PickClass, TypeInv, PageType, Server

\* The class wizard.
LEMMA WizardOK ==
  ASSUME TypeInv, NEW k \in Calls, NEW c \in Classes \cup {None},
         CreateClass(k, c) \/ ClassCreated(k) \/ ClassRefused(k)
  PROVE  TypeInv'
  <1>1. CASE CreateClass(k, c)
    <2> DEFINE x == Ask("newclass", c, {})
    <2>1. x \in Call /\ x.kind = "newclass" /\ x.of = c
      BY AskType DEF Kinds
    <2>2. Right(x, taught', posted') /\ Grows
      BY <1>1, <2>1 DEF CreateClass, Right, Grows
    <2> HIDE DEF x
    <2>3. CallsOK'
      BY <1>1, <2>1, <2>2, OneCallOK DEF CreateClass, x
    <2>4. early' \in BOOLEAN
      BY <1>1 DEF CreateClass
    <2> QED BY <1>1, <2>3, <2>4 DEF CreateClass, TypeInv, PageType, Panel
  <1>2. CASE ClassCreated(k)
    <2>1. /\ calls[k] \in Call /\ calls[k].kind = "newclass"
          /\ calls[k].of \in Classes \cup {None} /\ UNCHANGED Server
      BY <1>2, CallOf DEF ClassCreated, Under, Right
    <2> DEFINE a == Ask("list", None, taught)
               x == [a EXCEPT !.had = calls[k].had]
    <2>2. a \in Call /\ a.kind = "list" /\ a.got = taught
      <3>1. taught \in SUBSET (Classes \cup Works)
        BY DEF TypeInv, PageType
      <3> QED BY <3>1, AskType DEF Kinds
    <2> HIDE DEF a
    <2>3. x \in Call /\ x.kind = "list" /\ x.got = taught
      BY <2>1, <2>2 DEF Call
    <2>4. Right(x, taught', posted') /\ Grows
      BY <2>1, <2>3 DEF Right, Grows, Server
    <2>5. calls' = [calls EXCEPT ![k] = x]
      BY <1>2 DEF ClassCreated, Relisted, a
    <2> HIDE DEF x
    <2>6. CallsOK'
      BY <2>3, <2>4, <2>5, OneCallOK
    <2>7. wizard' \in [step : 0 .. 3, of : Classes \cup {None}]
      BY <1>2, <2>1 DEF ClassCreated, TypeInv, PageType
    <2> QED BY <1>2, <2>1, <2>6, <2>7 DEF ClassCreated, TypeInv, PageType, Server, Panel
  <1>3. CASE ClassRefused(k)
    <2>1. CallsOK'
      BY <1>3, EndedOK DEF ClassRefused
    <2> QED BY <1>3, <2>1 DEF ClassRefused, TypeInv, PageType, Server, Panel
  <1> QED BY <1>1, <1>2, <1>3

\* What the teacher does alone.
LEMMA AloneOK ==
  ASSUME TypeInv, CloseWizard \/ OpenWizard \/ ImportRoster \/ CloseView
  PROVE  TypeInv'
  <1>1. CASE CloseWizard
    <2>1. calls' = [j \in Calls |-> IF j \in Under("newclass")
                      THEN [calls[j] EXCEPT !.here = FALSE] ELSE calls[j]]
      BY <1>1 DEF CloseWizard
    <2>2. \A j \in Calls \ Under("newclass") : calls'[j] = calls[j]
      BY <2>1
    <2>3. \A j \in Under("newclass") :
            /\ calls'[j] \in Call /\ calls'[j].kind = "newclass"
            /\ calls'[j].of \in Classes \cup {None}
      BY <2>1, CallOf DEF Under, Call, Right
    <2>4. calls' \in CallsType
      BY <2>1, <2>2, <2>3 DEF CallsType, TypeInv, CallsOK
    <2>5. AnswersOK'
      BY <1>1, <2>2, <2>3 DEF AnswersOK, Right, TypeInv, CallsOK, CloseWizard, Server
    <2>6. OneNewest'
      BY <2>2, <2>3 DEF OneNewest, Newest, Under, TypeInv, CallsOK
    <2> QED BY <1>1, <2>4, <2>5, <2>6
          DEF CloseWizard, TypeInv, PageType, CallsOK, Server, Panel
  <1>2. CASE OpenWizard \/ ImportRoster
    <2>1. wizard' \in [step : 0 .. 3, of : Classes \cup {None}]
      BY <1>2 DEF OpenWizard, ImportRoster, TypeInv, PageType
    <2> QED BY <1>2, <2>1 DEF OpenWizard, ImportRoster, TypeInv, PageType, CallsOK,
              AnswersOK, OneNewest, Newest, Under, Server, Panel
  <1>3. CASE CloseView
    BY <1>3 DEF CloseView, TypeInv, PageType, CallsOK, AnswersOK, OneNewest,
              Newest, Under, Server
  <1> QED BY <1>1, <1>2, <1>3

\* Assignments and submissions.
LEMMA WorkOK ==
  ASSUME TypeInv, NEW k \in Calls, NEW w \in Works \cup {None}, NEW ok \in BOOLEAN,
         \/ TableAnswered(k, ok) \/ Create(k, w) \/ Created(k) \/ NotCreated(k)
         \/ ListFailed(k) \/ SubsAnswered(k, ok)
  PROVE  TypeInv'
  <1>1. CASE TableAnswered(k, ok)
    <2>1. CallsOK' /\ UNCHANGED Server
      BY <1>1, EndedOK DEF TableAnswered
    <2>2. calls[k].got \subseteq posted
      BY <1>1, CallOf DEF TableAnswered, Under, Right
    <2>3. table' \subseteq posted /\ doubt' \subseteq {"table", "subs"}
      BY <1>1, <2>2 DEF TableAnswered, TypeInv, PageType
    <2> QED BY <1>1, <2>1, <2>3 DEF TableAnswered, TypeInv, PageType, Server, Panel
  <1>2. CASE Create(k, w)
    <2> DEFINE g == {w} \ {None}
               x == Ask("create", sel, g)
    <2>1. sel \in Classes \cup Works \cup {None} /\ g \subseteq Classes \cup Works
      BY DEF TypeInv, PageType
    <2>2. g \subseteq posted' /\ posted' \subseteq Works /\ Grows
      BY <1>2 DEF Create, Grows, TypeInv, PageType
    <2> HIDE DEF g
    <2>3. x \in Call /\ x.kind = "create" /\ x.got = g
      BY <2>1, AskType DEF Kinds
    <2>4. Right(x, taught', posted')
      BY <2>2, <2>3 DEF Right
    <2>5. calls' = [calls EXCEPT ![k] = x]
      BY <1>2 DEF Create, g
    <2> HIDE DEF x
    <2>6. CallsOK'
      BY <2>2, <2>3, <2>4, <2>5, OneCallOK
    <2> QED BY <1>2, <2>2, <2>6 DEF Create, TypeInv, PageType, Grows, Panel
  <1>3. CASE Created(k)
    <2> DEFINE c == calls[k].of
               x == Ask("table", c, Works_Of(c))
    <2>1. c \in Classes \cup Works \cup {None} /\ UNCHANGED Server
      BY <1>3, CallOf DEF Created, Under, Call
    <2>2. calls' = [Renumbered(calls) EXCEPT ![k] = x]
      BY <1>3 DEF Created, Reloaded
    <2> HIDE DEF c
    <2>3. x \in Call /\ x.kind = "table" /\ x.got = Works_Of(c) /\ x.newest
      BY <2>1, WorksPosted, AskType DEF Kinds
    <2>4. Right(x, taught', posted') /\ Grows
      BY <2>1, <2>3, WorksPosted DEF Right, Grows, Server
    <2> HIDE DEF x
    <2>5. CallsOK'
      BY <2>2, <2>3, <2>4, NewIdOK DEF TypeInv, CallsOK, AnswersOK
    <2>6. doubt' \subseteq {"table", "subs"}
      BY <1>3 DEF Created, Dropped, TypeInv, PageType
    <2> QED BY <1>3, <2>5, <2>6 DEF Created, TypeInv, PageType, Server, Panel
  <1>4. CASE NotCreated(k) \/ ListFailed(k)
    <2>1. CallsOK'
      BY <1>4, EndedOK DEF NotCreated, ListFailed
    <2> QED BY <1>4, <2>1 DEF NotCreated, ListFailed, TypeInv, PageType, Server, Panel
  <1>5. CASE SubsAnswered(k, ok)
    <2>1. CallsOK'
      BY <1>5, EndedOK DEF SubsAnswered
    <2>2. calls[k].of \in posted
      BY <1>5, CallOf DEF SubsAnswered, Under, Right
    <2> QED BY <1>5, <2>1, <2>2 DEF SubsAnswered, TypeInv, PageType, Server
  <1> QED BY <1>1, <1>2, <1>3, <1>4, <1>5

LEMMA ViewOK ==
  ASSUME TypeInv, NEW k \in Calls, NEW w \in Works, View(k, w)
  PROVE  TypeInv'
  <1> DEFINE x == Ask("subs", w, {})
  <1>1. w \in posted /\ UNCHANGED Server
    BY DEF View, TypeInv, PageType
  <1>2. x \in Call /\ x.kind = "subs" /\ x.of = w /\ x.newest
    BY AskType DEF Kinds
  <1>3. Right(x, taught', posted') /\ Grows
    BY <1>1, <1>2 DEF Right, Grows, Server
  <1>4. calls' = [Renumbered(calls) EXCEPT ![k] = x]
    BY DEF View
  <1> HIDE DEF x
  <1>5. CallsOK'
    BY <1>2, <1>3, <1>4, NewIdOK DEF TypeInv, CallsOK, AnswersOK
  <1>6. doubt' \subseteq {"table", "subs"}
    BY DEF View, Dropped, TypeInv, PageType
  <1> QED BY <1>1, <1>5, <1>6 DEF View, TypeInv, PageType, Server

LEMMA TypeStep == TypeInv /\ [Next]_vars => TypeInv'
  <1> SUFFICES ASSUME TypeInv, [Next]_vars PROVE TypeInv'
    OBVIOUS
  <1>1. CASE UNCHANGED vars
    BY <1>1 DEF vars, TypeInv, PageType, CallsOK, AnswersOK, OneNewest, Newest, Under
  <1>2. CASE Next
    BY <1>2, ListAnsweredOK, PickClassOK, WizardOK, AloneOK, WorkOK, ViewOK DEF Next
  <1> QED BY <1>1, <1>2

LEMMA TypeInvariant == Spec => []TypeInv
  BY TypeInitially, TypeStep, PTL DEF Spec

(* The calls are calls, the answers under way hold what the server has, and  *)
(* of the loads of assignments and submissions one at most is the newest     *)
(* (requestSeq).                                                             *)
THEOREM TypeCorrect == Spec => []TypeOK
  <1>1. TypeInv => TypeOK
    BY DEF TypeInv, PageType, CallsOK, CallsType, OneNewest, TypeOK
  <1> QED BY <1>1, TypeInvariant, PTL

-----------------------------------------------------------------------------
(* The class the teacher picked.                                           *)

OfClasses(x) == x # Idle /\ x.kind \in {"list", "newclass"}

\* The loads of classes and the creations under way are not more than before.
Kept == \A j \in Calls : OfClasses(calls'[j]) =>
          /\ OfClasses(calls[j]) /\ calls'[j].kind = calls[j].kind
          /\ calls'[j].had = calls[j].had

\* A load of classes that may select one is the page's first.
FirstLoad == \A k \in Under("list") : ~calls[k].had =>
               /\ listed = {} /\ sel = None /\ picked = None
               /\ Under("list") = {k} /\ Under("newclass") = {}

PickInv ==
  /\ PickKept
  /\ ~early => (\A k \in Under("newclass") : calls[k].had) /\ FirstLoad

LEMMA NewIdKeeps ==
  ASSUME NEW cs \in CallsType, NEW k \in Calls, NEW x \in Call, x.newest,
         x.kind \in {"table", "subs"},
         calls' = [Renumbered(cs) EXCEPT ![k] = x]
  PROVE  \A j \in Calls : OfClasses(calls'[j]) => calls'[j] = cs[j]
  <1>1. /\ calls' \in CallsType /\ calls'[k] = x
        /\ Newest("table")' = (IF x.kind = "table" THEN {k} ELSE {})
        /\ Newest("subs")' = (IF x.kind = "subs" THEN {k} ELSE {})
        /\ \A j \in Calls \ {k} :
             IF cs[j] # Idle /\ cs[j].kind \in {"table", "subs"}
               THEN /\ calls'[j] # Idle /\ calls'[j].kind = "table"
                    /\ ~calls'[j].newest /\ calls'[j].got = {}
               ELSE calls'[j] = cs[j]
    BY NewId
  <1> QED BY <1>1 DEF OfClasses

LEMMA SelectKeeps ==
  ASSUME TypeInv, NEW c \in taught \cup {None}, NEW cs \in CallsType, Select(c, cs)
  PROVE  \A j \in Calls : OfClasses(calls'[j]) => calls'[j] = cs[j]
  <1>1. CASE c = sel
    BY <1>1 DEF Select
  <1>2. CASE c # sel
    <2>1. PICK k \in Calls :
            calls' = [Renumbered(cs) EXCEPT ![k] = Ask("table", c, Works_Of(c))]
      BY <1>2 DEF Select
    <2> DEFINE x == Ask("table", c, Works_Of(c))
    <2>2. c \in Classes \cup Works \cup {None}
      BY DEF TypeInv, PageType
    <2>3. x \in Call /\ x.kind = "table" /\ x.newest
      BY <2>2, WorksPosted, AskType DEF Kinds
    <2>4. calls' = [Renumbered(cs) EXCEPT ![k] = x]
      BY <2>1
    <2> HIDE DEF x
    <2> QED BY <2>3, <2>4, NewIdKeeps
  <1> QED BY <1>1, <1>2

LEMMA ListAnsweredEffect ==
  ASSUME TypeInv, NEW k \in Calls, ListAnswered(k)
  PROVE  /\ calls[k].got \subseteq taught
         /\ sel' \in MovesTo(calls[k])
         /\ \A j \in Calls : OfClasses(calls'[j]) => j # k /\ calls'[j] = calls[j]
  <1> DEFINE cs == [calls EXCEPT ![k] = Idle]
  <1>1. PICK c \in MovesTo(calls[k]) : Select(c, cs)
    BY DEF ListAnswered
  <1>2. calls[k].got \subseteq taught
    BY CallOf DEF ListAnswered, Under, Right
  <1>3. c \in taught \cup {None}
    BY <1>2 DEF MovesTo, TypeInv, PageType
  <1>4. /\ cs \in CallsType /\ cs[k] = Idle
        /\ \A j \in Calls \ {k} : cs[j] = calls[j]
    BY DEF TypeInv, CallsOK, CallsType
  <1> HIDE DEF cs
  <1>5. \A j \in Calls : OfClasses(calls'[j]) => calls'[j] = cs[j]
    BY <1>1, <1>3, <1>4, SelectKeeps
  <1>6. \A j \in Calls : OfClasses(calls'[j]) => j # k /\ calls'[j] = calls[j]
    BY <1>4, <1>5 DEF OfClasses
  <1> QED BY <1>1, <1>2, <1>6 DEF Select

LEMMA WorkKeeps ==
  ASSUME TypeInv, NEW k \in Calls, NEW w \in Works \cup {None}, NEW ok \in BOOLEAN,
         \/ TableAnswered(k, ok) \/ Create(k, w) \/ Created(k) \/ NotCreated(k)
         \/ ListFailed(k) \/ ClassRefused(k) \/ SubsAnswered(k, ok) \/ View(k, w)
  PROVE  Kept
  <1>0. calls \in CallsType
    BY DEF TypeInv, CallsOK
  <1>1. CASE \/ TableAnswered(k, ok) \/ NotCreated(k) \/ ListFailed(k)
             \/ ClassRefused(k) \/ SubsAnswered(k, ok)
    <2>1. calls' = [calls EXCEPT ![k] = Idle]
      BY <1>1 DEF TableAnswered, NotCreated, ListFailed, ClassRefused, SubsAnswered
    <2> QED BY <1>0, <2>1 DEF Kept, OfClasses, CallsType
  <1>2. CASE Create(k, w)
    <2> DEFINE x == Ask("create", sel, {w} \ {None})
    <2>1. x.kind = "create" /\ calls' = [calls EXCEPT ![k] = x]
      BY <1>2 DEF Create, Ask
    <2> HIDE DEF x
    <2> QED BY <1>0, <2>1 DEF Kept, OfClasses, CallsType
  <1>3. CASE Created(k)
    <2> DEFINE c == calls[k].of
               x == Ask("table", c, Works_Of(c))
    <2>1. c \in Classes \cup Works \cup {None}
      BY <1>3, CallOf DEF Created, Under, Call
    <2>2. calls' = [Renumbered(calls) EXCEPT ![k] = x]
      BY <1>3 DEF Created, Reloaded
    <2> HIDE DEF c
    <2>3. x \in Call /\ x.kind = "table" /\ x.newest
      BY <2>1, WorksPosted, AskType DEF Kinds
    <2> HIDE DEF x
    <2>4. \A j \in Calls : OfClasses(calls'[j]) => calls'[j] = calls[j]
      BY <1>0, <2>2, <2>3, NewIdKeeps
    <2> QED BY <2>4 DEF Kept
  <1>4. CASE View(k, w)
    <2> DEFINE x == Ask("subs", w, {})
    <2>1. x \in Call /\ x.kind = "subs" /\ x.newest
      BY AskType DEF Kinds
    <2>2. calls' = [Renumbered(calls) EXCEPT ![k] = x]
      BY <1>4 DEF View
    <2> HIDE DEF x
    <2>3. \A j \in Calls : OfClasses(calls'[j]) => calls'[j] = calls[j]
      BY <1>0, <2>1, <2>2, NewIdKeeps
    <2> QED BY <2>3 DEF Kept
  <1> QED BY <1>1, <1>2, <1>3, <1>4

LEMMA AloneKeeps ==
  ASSUME TypeInv, CloseWizard \/ OpenWizard \/ ImportRoster \/ CloseView
  PROVE  Kept
  <1>1. CASE CloseWizard
    <2> SUFFICES ASSUME NEW j \in Calls, OfClasses(calls'[j])
                 PROVE  /\ OfClasses(calls[j]) /\ calls'[j].kind = calls[j].kind
                        /\ calls'[j].had = calls[j].had
      BY DEF Kept
    <2>1. calls'[j] = IF j \in Under("newclass") THEN [calls[j] EXCEPT !.here = FALSE]
                                                 ELSE calls[j]
      BY <1>1 DEF CloseWizard
    <2>2. CASE j \in Under("newclass")
      <3>1. calls[j] \in Call /\ OfClasses(calls[j])
        BY <2>2, CallOf DEF Under, OfClasses
      <3> QED BY <2>1, <2>2, <3>1 DEF Call
    <2> QED BY <2>1, <2>2
  <1>2. CASE OpenWizard \/ ImportRoster \/ CloseView
    BY <1>2 DEF OpenWizard, ImportRoster, CloseView, Kept, OfClasses
  <1> QED BY <1>1, <1>2

LEMMA PickFrame ==
  ASSUME PickInv, Kept, UNCHANGED <<listed, sel, picked, early>>
  PROVE  PickInv'
  <1>1. PickKept'
    BY DEF PickKept, PickInv
  <1>2. /\ Under("list")' \subseteq Under("list")
        /\ Under("newclass")' \subseteq Under("newclass")
        /\ \A k \in Under("list")' \cup Under("newclass")' : calls'[k].had = calls[k].had
    BY DEF Kept, OfClasses, Under
  <1> QED BY <1>1, <1>2 DEF PickInv, FirstLoad

LEMMA PickStep == TypeInv /\ PickInv /\ [Next]_vars => PickInv'
  <1> SUFFICES ASSUME TypeInv, PickInv, [Next]_vars PROVE PickInv'
    OBVIOUS
  <1>1. CASE UNCHANGED vars
    BY <1>1 DEF vars, PickInv, PickKept, FirstLoad, Under
  <1>2. CASE CloseWizard \/ OpenWizard \/ ImportRoster \/ CloseView
    BY <1>2, AloneKeeps, PickFrame DEF CloseWizard, OpenWizard, ImportRoster, CloseView
  <1>3. ASSUME NEW k \in Calls, NEW w \in Works \cup {None}, NEW ok \in BOOLEAN,
               \/ TableAnswered(k, ok) \/ Create(k, w) \/ Created(k) \/ NotCreated(k)
               \/ ListFailed(k) \/ ClassRefused(k) \/ SubsAnswered(k, ok) \/ View(k, w)
        PROVE  PickInv'
    <2>1. UNCHANGED <<listed, sel, picked, early>>
      BY <1>3 DEF TableAnswered, Create, Created, NotCreated, ListFailed,
                  ClassRefused, SubsAnswered, View
    <2> QED BY <1>3, <2>1, WorkKeeps, PickFrame
  <1>4. ASSUME NEW c \in Classes, PickClass(c) PROVE PickInv'
    <2>1. /\ c \in listed /\ c \in taught /\ Select(c, calls) /\ calls \in CallsType
          /\ sel' = c /\ picked' = c /\ UNCHANGED early
      BY <1>4 DEF PickClass, Select, TypeInv, PageType, CallsOK
    <2>2. \A j \in Calls : OfClasses(calls'[j]) => calls'[j] = calls[j]
      BY <2>1, SelectKeeps
    <2>3. /\ Under("list")' \subseteq Under("list")
          /\ Under("newclass")' \subseteq Under("newclass")
          /\ \A k \in Under("list")' \cup Under("newclass")' : calls'[k] = calls[k]
      BY <2>2 DEF OfClasses, Under
    <2> QED BY <2>1, <2>3 DEF PickInv, PickKept, FirstLoad
  <1>5. ASSUME NEW k \in Calls, ListAnswered(k) PROVE PickInv'
    <2>1. /\ sel' \in MovesTo(calls[k]) /\ k \in Under("list")
          /\ UNCHANGED <<picked, early>>
          /\ \A j \in Calls : OfClasses(calls'[j]) => j # k /\ calls'[j] = calls[j]
      BY <1>5, ListAnsweredEffect DEF ListAnswered
    <2>2. /\ Under("list")' \subseteq Under("list") \ {k}
          /\ Under("newclass")' \subseteq Under("newclass")
          /\ \A j \in Under("list")' \cup Under("newclass")' : calls'[j] = calls[j]
      BY <2>1 DEF OfClasses, Under
    <2>3. ~early /\ ~calls[k].had => picked = None
      BY <2>1 DEF PickInv, FirstLoad
    <2>4. PickKept'
      BY <2>1, <2>3 DEF PickInv, PickKept, MovesTo
    <2>5. ~early => \A j \in Under("list")' : calls'[j].had
      BY <2>1, <2>2 DEF PickInv, FirstLoad
    <2> QED BY <2>1, <2>2, <2>4, <2>5 DEF PickInv, FirstLoad
  <1>6. ASSUME NEW k \in Calls, NEW c \in Classes \cup {None}, CreateClass(k, c)
        PROVE  PickInv'
    <2> DEFINE x == Ask("newclass", c, {})
    <2>1. x \in Call /\ x.kind = "newclass" /\ (x.had <=> sel # None)
      BY AskType DEF Kinds
    <2>2. /\ calls' = [calls EXCEPT ![k] = x] /\ calls[k] = Idle
          /\ early' = (early \/ sel = None) /\ UNCHANGED <<listed, sel, picked>>
      BY <1>6 DEF CreateClass
    <2> HIDE DEF x
    <2>3. /\ Under("list")' = Under("list")
          /\ Under("newclass")' \subseteq Under("newclass") \cup {k}
          /\ \A j \in Calls \ {k} : calls'[j] = calls[j]
          /\ calls'[k] = x /\ k \notin Under("list")
      BY <2>1, <2>2 DEF Under, TypeInv, CallsOK, CallsType
    <2>4. PickKept'
      BY <2>2 DEF PickInv, PickKept
    <2>5. ~early' => ~early /\ sel # None
      BY <2>2
    <2>6. ASSUME ~early', NEW j \in Under("newclass")' PROVE calls'[j].had
      <3>1. CASE j = k
        BY <2>1, <2>3, <2>5, <2>6, <3>1
      <3>2. CASE j # k
        <4>1. j \in Under("newclass") /\ j \in Calls /\ calls'[j] = calls[j]
          BY <2>3, <2>6, <3>2 DEF Under
        <4> QED BY <2>5, <2>6, <4>1 DEF PickInv
      <3> QED BY <3>1, <3>2
    <2>7. ~early' => FirstLoad'
      BY <2>2, <2>3, <2>5 DEF PickInv, FirstLoad
    <2> QED BY <2>4, <2>6, <2>7 DEF PickInv
  <1>7. ASSUME NEW k \in Calls, ClassCreated(k) PROVE PickInv'
    <2>1. calls[k] \in Call /\ k \in Under("newclass")
      BY <1>7, CallOf DEF ClassCreated, Under
    <2> DEFINE a == Ask("list", None, taught)
               x == [a EXCEPT !.had = calls[k].had]
    <2>2. a \in Call /\ a.kind = "list"
      <3>1. taught \in SUBSET (Classes \cup Works)
        BY DEF TypeInv, PageType
      <3> QED BY <3>1, AskType DEF Kinds
    <2>3. calls' = [calls EXCEPT ![k] = x] /\ UNCHANGED <<listed, sel, picked, early>>
      BY <1>7 DEF ClassCreated, Relisted
    <2> HIDE DEF a
    <2>4. x \in Call /\ x.kind = "list" /\ x.had = calls[k].had
      BY <2>1, <2>2 DEF Call
    <2> HIDE DEF x
    <2>5. /\ Under("list")' \subseteq Under("list") \cup {k}
          /\ Under("newclass")' \subseteq Under("newclass") \ {k}
          /\ \A j \in Calls \ {k} : calls'[j] = calls[j]
          /\ calls'[k] = x
      BY <2>3, <2>4 DEF Under, TypeInv, CallsOK, CallsType
    <2>6. PickKept'
      BY <2>3 DEF PickInv, PickKept
    <2>7. ~early => x.had /\ \A j \in Under("list") : calls[j].had
      BY <2>1, <2>4 DEF PickInv, FirstLoad
    <2>8. ~early => \A j \in Under("list")' : calls'[j].had
      BY <2>5, <2>7 DEF Under
    <2> QED BY <2>1, <2>3, <2>5, <2>6, <2>8 DEF PickInv, FirstLoad
  <1>8. CASE Next
    BY <1>2, <1>3, <1>4, <1>5, <1>6, <1>7, <1>8 DEF Next
  <1> QED BY <1>1, <1>8

(* The class the teacher picked stays selected, whatever loads and creations *)
(* are under way, unless she created a class before one was selected          *)
(* (loadClasses and its stale selectedClass): the one load that may select a  *)
(* class is then the page's first, and no class is listed before it is over.  *)
THEOREM PickStays == Spec => []PickKept
  <1>1. Init => PickInv
    <2> SUFFICES ASSUME Init PROVE PickInv
      OBVIOUS
    <2>1. PICK k \in Calls :
            calls = [j \in Calls |-> IF j = k THEN Ask("list", None, taught) ELSE Idle]
      BY DEF Init
    <2>2. Under("list") \subseteq {k} /\ Under("newclass") = {}
      BY <2>1 DEF Under, Ask
    <2> QED BY <2>2 DEF Init, PickInv, PickKept, FirstLoad
  <1>2. PickInv => PickKept
    BY DEF PickInv
  <1> QED BY <1>1, <1>2, TypeInvariant, PickStep, PTL DEF Spec

-----------------------------------------------------------------------------
(* The table and the panel.                                                *)

\* The works that creations under way have posted: the page may not have them.
Fresh == {w \in Works : \E k \in Under("create") : w \in calls[k].got}

\* ws is what class c has, but for works whose creation is under way.
Covers(ws, c) == ws \subseteq Works_Of(c) /\ Works_Of(c) \ ws \subseteq Fresh

\* What the newest load will show is up to date, and what the table shows is.
TableInv ==
  /\ \A k \in Newest("table") : Covers(calls[k].got, calls[k].of)
  /\ Newest("table") = {} /\ "table" \notin doubt => Covers(table, sel)

\* The newest load of submissions is of the open assignment.
PanelInv ==
  /\ PanelMatches
  /\ \A k \in Newest("subs") : view \in {calls[k].of, None}

Loads(x) == x # Idle /\ x.kind \in {"table", "subs", "create"}

\* No load of assignments or submissions and no creation begins or ends.
SameLoads == \A j \in Calls : Loads(calls'[j]) \/ Loads(calls[j]) => calls'[j] = calls[j]

LEMMA LoadsFrame ==
  ASSUME TableInv, PanelInv, SameLoads,
         UNCHANGED <<posted, sel, table, view, subs, doubt>>
  PROVE  TableInv' /\ PanelInv'
  <1>1. /\ Newest("table")' = Newest("table") /\ Newest("subs")' = Newest("subs")
        /\ Under("create")' = Under("create")
        /\ \A j \in Newest("table") \cup Newest("subs") \cup Under("create") :
             calls'[j] = calls[j]
    BY DEF SameLoads, Loads, Newest, Under
  <1>2. Fresh' = Fresh
    BY <1>1 DEF Fresh
  <1>3. TableInv'
    BY <1>1, <1>2 DEF TableInv, Covers, Works_Of
  <1>4. PanelInv'
    BY <1>1 DEF PanelInv, PanelMatches
  <1> QED BY <1>3, <1>4

LEMMA ClosedPanel == view' = None => PanelInv'
  BY DEF PanelInv, PanelMatches

\* A new load of the assignments of c: it brings all of them.
LEMMA Loading ==
  ASSUME NEW cs \in CallsType, UNCHANGED posted, NEW k \in Calls,
         NEW c \in Classes \cup Works \cup {None}, TypeInv,
         calls' = [Renumbered(cs) EXCEPT ![k] = Ask("table", c, Works_Of(c))]
  PROVE  /\ TableInv'
         /\ Newest("subs")' = {}
  <1> DEFINE x == Ask("table", c, Works_Of(c))
  <1>1. /\ x \in Call /\ x.kind = "table" /\ x.newest
        /\ x.got = Works_Of(c) /\ x.of = c
    BY WorksPosted, AskType DEF Kinds
  <1>2. calls' = [Renumbered(cs) EXCEPT ![k] = x]
    OBVIOUS
  <1> HIDE DEF x
  <1>3. /\ calls' \in CallsType /\ calls'[k] = x
        /\ Newest("table")' = (IF x.kind = "table" THEN {k} ELSE {})
        /\ Newest("subs")' = (IF x.kind = "subs" THEN {k} ELSE {})
        /\ \A j \in Calls \ {k} :
             IF cs[j] # Idle /\ cs[j].kind \in {"table", "subs"}
               THEN /\ calls'[j] # Idle /\ calls'[j].kind = "table"
                    /\ ~calls'[j].newest /\ calls'[j].got = {}
               ELSE calls'[j] = cs[j]
    BY <1>1, <1>2, NewId
  <1>4. /\ Newest("table")' = {k} /\ Newest("subs")' = {}
        /\ calls'[k].got = Works_Of(c) /\ calls'[k].of = c
    BY <1>1, <1>3
  <1>5. TableInv'
    BY <1>4 DEF TableInv, Covers, Works_Of
  <1> QED BY <1>4, <1>5

LEMMA SelectLoads ==
  ASSUME TypeInv, TableInv, PanelInv, UNCHANGED <<posted, table>>,
         NEW c \in taught \cup {None}, NEW cs \in CallsType, Select(c, cs),
         \A j \in Calls : Loads(cs[j]) \/ Loads(calls[j]) => cs[j] = calls[j]
  PROVE  TableInv' /\ PanelInv'
  <1>1. CASE c = sel
    <2>1. /\ calls' = cs /\ UNCHANGED <<sel, view, subs, doubt>>
      BY <1>1 DEF Select
    <2> QED BY <2>1, LoadsFrame DEF SameLoads
  <1>2. CASE c # sel
    <2>1. PICK k \in Calls :
            calls' = [Renumbered(cs) EXCEPT ![k] = Ask("table", c, Works_Of(c))]
      BY <1>2 DEF Select
    <2>2. view' = None
      BY <1>2 DEF Select
    <2>3. c \in Classes \cup Works \cup {None}
      BY DEF TypeInv, PageType
    <2> QED BY <2>1, <2>2, <2>3, Loading, ClosedPanel
  <1> QED BY <1>1, <1>2

\* One call of the page begins or ends: k goes from Idle, or to Idle.
LEMMA CreateLoads ==
  ASSUME TypeInv, TableInv, PanelInv, NEW k \in Calls, NEW w \in Works \cup {None},
         Create(k, w)
  PROVE  TableInv' /\ PanelInv'
  <1> DEFINE x == Ask("create", sel, {w} \ {None})
  <1>1. x.kind = "create" /\ x.got = {w} \ {None} /\ x # Idle
    <2>1. sel \in Classes \cup Works \cup {None}
      BY DEF TypeInv, PageType
    <2>2. {w} \ {None} \in SUBSET (Classes \cup Works)
      OBVIOUS
    <2> QED BY <2>1, <2>2, AskType DEF Kinds
  <1>2. /\ calls' = [calls EXCEPT ![k] = x] /\ calls[k] = Idle
        /\ posted' = (IF w = None THEN posted ELSE posted \cup {w})
        /\ UNCHANGED <<sel, table, view, subs, doubt>>
    BY DEF Create, Panel
  <1> HIDE DEF x
  <1>3. /\ calls'[k] = x /\ \A j \in Calls \ {k} : calls'[j] = calls[j]
    BY <1>2 DEF TypeInv, CallsOK, CallsType
  <1>4. /\ Newest("table")' = Newest("table") /\ Newest("subs")' = Newest("subs")
        /\ Under("create")' = Under("create") \cup {k}
        /\ \A j \in Newest("table") \cup Newest("subs") \cup Under("create") :
             calls'[j] = calls[j]
    BY <1>1, <1>2, <1>3 DEF Newest, Under
  <1>5. Fresh \subseteq Fresh' /\ (w # None => w \in Fresh')
    BY <1>1, <1>3, <1>4 DEF Fresh
  <1>6. ASSUME NEW ws, NEW c, Covers(ws, c) PROVE Covers(ws, c)'
    BY <1>2, <1>5, <1>6 DEF Covers, Works_Of
  <1>7. TableInv'
    BY <1>2, <1>4, <1>6 DEF TableInv
  <1>8. PanelInv'
    BY <1>2, <1>4 DEF PanelInv, PanelMatches
  <1> QED BY <1>7, <1>8

LEMMA NotCreatedLoads ==
  ASSUME TypeInv, TableInv, PanelInv, NEW k \in Calls, NotCreated(k)
  PROVE  TableInv' /\ PanelInv'
  <1>1. /\ calls' = [calls EXCEPT ![k] = Idle]
        /\ calls[k].kind = "create" /\ calls[k].got = {}
        /\ UNCHANGED <<posted, sel, table, view, subs, doubt>>
    BY DEF NotCreated, Under, Server, Panel
  <1>2. calls'[k] = Idle /\ \A j \in Calls \ {k} : calls'[j] = calls[j]
    BY <1>1 DEF TypeInv, CallsOK, CallsType
  <1>3. /\ Newest("table")' = Newest("table") /\ Newest("subs")' = Newest("subs")
        /\ Under("create")' = Under("create") \ {k}
        /\ \A j \in Newest("table") \cup Newest("subs") \cup Under("create")' :
             calls'[j] = calls[j]
    BY <1>1, <1>2 DEF Newest, Under
  <1>4. Fresh' = Fresh
    BY <1>1, <1>3 DEF Fresh
  <1>5. TableInv'
    BY <1>1, <1>3, <1>4 DEF TableInv, Covers, Works_Of
  <1>6. PanelInv'
    BY <1>1, <1>3 DEF PanelInv, PanelMatches
  <1> QED BY <1>5, <1>6

LEMMA TableAnsweredLoads ==
  ASSUME TypeInv, TableInv, PanelInv, NEW k \in Calls, NEW ok \in BOOLEAN,
         TableAnswered(k, ok)
  PROVE  TableInv' /\ PanelInv'
  <1>1. /\ calls' = [calls EXCEPT ![k] = Idle] /\ k \in Under("table")
        /\ UNCHANGED <<posted, sel, view, subs>>
    BY DEF TableAnswered, Server, Panel
  <1>2. calls'[k] = Idle /\ \A j \in Calls \ {k} : calls'[j] = calls[j]
    BY <1>1 DEF TypeInv, CallsOK, CallsType
  <1>3. /\ Newest("table")' = Newest("table") \ {k} /\ Newest("subs")' = Newest("subs")
        /\ Under("create")' = Under("create")
        /\ \A j \in Newest("table")' \cup Newest("subs") \cup Under("create") :
             calls'[j] = calls[j]
    BY <1>1, <1>2 DEF Newest, Under
  <1>4. Fresh' = Fresh
    BY <1>3 DEF Fresh
  <1>5. CASE ~calls[k].newest
    <2>1. UNCHANGED <<table, doubt>> /\ k \notin Newest("table")
      BY <1>5 DEF TableAnswered, Newest
    <2>2. TableInv'
      BY <1>1, <1>3, <1>4, <2>1 DEF TableInv, Covers, Works_Of
    <2> QED BY <1>1, <1>3, <2>1, <2>2 DEF PanelInv, PanelMatches
  <1>6. CASE calls[k].newest
    <2>1. k \in Newest("table")
      BY <1>1, <1>6 DEF Newest
    <2>2. Newest("table")' = {}
      BY <1>3, <2>1 DEF TypeInv, CallsOK, OneNewest
    <2>3. /\ table' = IF ok THEN calls[k].got ELSE {}
          /\ doubt' = IF ok /\ calls[k].of = sel
                        THEN doubt \ {"table"} ELSE doubt \cup {"table"}
      BY <1>6 DEF TableAnswered
    <2>4. "table" \notin doubt' => table' = calls[k].got /\ calls[k].of = sel
      BY <2>3
    <2>5. Covers(calls[k].got, calls[k].of)
      BY <2>1 DEF TableInv
    <2>6. TableInv'
      BY <1>1, <1>4, <2>2, <2>4, <2>5 DEF TableInv, Covers, Works_Of
    <2>7. "subs" \notin doubt' => "subs" \notin doubt
      BY <2>3
    <2> QED BY <1>1, <1>3, <2>6, <2>7 DEF PanelInv, PanelMatches
  <1> QED BY <1>5, <1>6

LEMMA SubsAnsweredLoads ==
  ASSUME TypeInv, TableInv, PanelInv, NEW k \in Calls, NEW ok \in BOOLEAN,
         SubsAnswered(k, ok)
  PROVE  TableInv' /\ PanelInv'
  <1>1. /\ calls' = [calls EXCEPT ![k] = Idle] /\ k \in Under("subs")
        /\ UNCHANGED <<posted, sel, table, view, doubt>>
        /\ subs' = IF ~calls[k].newest THEN subs
                   ELSE IF ok THEN calls[k].of ELSE None
    BY DEF SubsAnswered, Server
  <1>2. calls'[k] = Idle /\ \A j \in Calls \ {k} : calls'[j] = calls[j]
    BY <1>1 DEF TypeInv, CallsOK, CallsType
  <1>3. /\ Newest("table")' = Newest("table") /\ Newest("subs")' = Newest("subs") \ {k}
        /\ Under("create")' = Under("create")
        /\ \A j \in Newest("table") \cup Newest("subs")' \cup Under("create") :
             calls'[j] = calls[j]
    BY <1>1, <1>2 DEF Newest, Under
  <1>4. Fresh' = Fresh
    BY <1>3 DEF Fresh
  <1>5. TableInv'
    BY <1>1, <1>3, <1>4 DEF TableInv, Covers, Works_Of
  <1>6. CASE ~calls[k].newest
    <2>1. subs' = subs /\ Newest("subs")' = Newest("subs")
      BY <1>1, <1>3, <1>6 DEF Newest
    <2> QED BY <1>1, <1>3, <1>5, <2>1 DEF PanelInv, PanelMatches
  <1>7. CASE calls[k].newest
    <2>1. view \in {calls[k].of, None} /\ subs' \in {calls[k].of, None}
      BY <1>1, <1>7 DEF PanelInv, Newest
    <2> QED BY <1>1, <1>3, <1>5, <2>1 DEF PanelInv, PanelMatches
  <1> QED BY <1>6, <1>7

LEMMA CreatedLoads ==
  ASSUME TypeInv, TableInv, PanelInv, NEW k \in Calls, Created(k)
  PROVE  TableInv' /\ PanelInv'
  <1> DEFINE c == calls[k].of
  <1>1. c \in Classes \cup Works \cup {None} /\ calls \in CallsType
    BY CallOf DEF Created, Under, Call, TypeInv, CallsOK
  <1>2. /\ calls' = [Renumbered(calls) EXCEPT ![k] = Ask("table", c, Works_Of(c))]
        /\ doubt' = (doubt \cup Dropped) \ {"table"}
        /\ UNCHANGED <<posted, view, subs>>
    BY DEF Created, Reloaded, Server, Panel
  <1> HIDE DEF c
  <1>3. TableInv' /\ Newest("subs")' = {}
    BY <1>1, <1>2, Loading
  <1>4. "subs" \notin doubt' => "subs" \notin doubt /\ Newest("subs") = {}
    BY <1>2 DEF Dropped
  <1> QED BY <1>2, <1>3, <1>4 DEF PanelInv, PanelMatches

LEMMA ViewLoads ==
  ASSUME TypeInv, TableInv, PanelInv, NEW k \in Calls, NEW w \in Works, View(k, w)
  PROVE  TableInv' /\ PanelInv'
  <1> DEFINE x == Ask("subs", w, {})
  <1>1. x \in Call /\ x.kind = "subs" /\ x.newest /\ x.of = w
    BY AskType DEF Kinds
  <1>2. /\ calls' = [Renumbered(calls) EXCEPT ![k] = x] /\ calls[k] = Idle
        /\ view' = w /\ doubt' = (doubt \cup Dropped) \ {"subs"}
        /\ UNCHANGED <<posted, sel, table>>
    BY DEF View, Server
  <1>3. calls \in CallsType
    BY DEF TypeInv, CallsOK
  <1> HIDE DEF x
  <1>4. /\ calls' \in CallsType /\ calls'[k] = x
        /\ Newest("table")' = (IF x.kind = "table" THEN {k} ELSE {})
        /\ Newest("subs")' = (IF x.kind = "subs" THEN {k} ELSE {})
        /\ \A j \in Calls \ {k} :
             IF calls[j] # Idle /\ calls[j].kind \in {"table", "subs"}
               THEN /\ calls'[j] # Idle /\ calls'[j].kind = "table"
                    /\ ~calls'[j].newest /\ calls'[j].got = {}
               ELSE calls'[j] = calls[j]
    BY <1>1, <1>2, <1>3, NewId
  <1>5. /\ Newest("table")' = {} /\ Newest("subs")' = {k} /\ calls'[k].of = w
    BY <1>1, <1>4
  <1>6. /\ Under("create")' = Under("create")
        /\ \A j \in Under("create") : calls'[j] = calls[j]
    BY <1>1, <1>2, <1>4 DEF Under
  <1>7. Fresh' = Fresh
    BY <1>6 DEF Fresh
  <1>8. "table" \notin doubt' => "table" \notin doubt /\ Newest("table") = {}
    BY <1>2 DEF Dropped
  <1>9. TableInv'
    BY <1>2, <1>5, <1>7, <1>8 DEF TableInv, Covers, Works_Of
  <1> QED BY <1>2, <1>5, <1>9 DEF PanelInv, PanelMatches

\* The classes and their wizard: no load begins or ends.
LEMMA ClassLoads ==
  ASSUME TypeInv, TableInv, PanelInv, NEW k \in Calls, NEW c \in Classes \cup {None},
         CreateClass(k, c) \/ ClassCreated(k) \/ ClassRefused(k) \/ ListFailed(k)
  PROVE  TableInv' /\ PanelInv'
  <1>1. UNCHANGED <<posted, sel, table, view, subs, doubt>>
    BY DEF CreateClass, ClassCreated, ClassRefused, ListFailed, Server, Panel
  <1>2. ~Loads(calls[k])
    BY DEF CreateClass, ClassCreated, ClassRefused, ListFailed, Under, Loads
  <1>3. PICK x : calls' = [calls EXCEPT ![k] = x] /\ ~Loads(x)
    <2>1. CASE CreateClass(k, c)
      <3> DEFINE x == Ask("newclass", c, {})
      <3>1. x.kind = "newclass" /\ calls' = [calls EXCEPT ![k] = x]
        BY <2>1 DEF CreateClass, Ask
      <3> HIDE DEF x
      <3> QED BY <3>1 DEF Loads
    <2>2. CASE ClassCreated(k)
      <3> DEFINE x == [Ask("list", None, taught) EXCEPT !.had = calls[k].had]
      <3>1. x.kind = "list" /\ calls' = [calls EXCEPT ![k] = x]
        BY <2>2 DEF ClassCreated, Relisted, Ask
      <3> HIDE DEF x
      <3> QED BY <3>1 DEF Loads
    <2>3. CASE ClassRefused(k) \/ ListFailed(k)
      BY <2>3 DEF ClassRefused, ListFailed, Loads
    <2> QED BY <2>1, <2>2, <2>3
  <1>4. SameLoads
    BY <1>2, <1>3 DEF SameLoads, TypeInv, CallsOK, CallsType
  <1> QED BY <1>1, <1>4, LoadsFrame

LEMMA AloneLoads ==
  ASSUME TypeInv, TableInv, PanelInv, CloseWizard \/ OpenWizard \/ ImportRoster
  PROVE  TableInv' /\ PanelInv'
  <1>1. UNCHANGED <<posted, sel, table, view, subs, doubt>>
    BY DEF CloseWizard, OpenWizard, ImportRoster, Server, Panel
  <1>2. CASE CloseWizard
    <2> SUFFICES ASSUME NEW j \in Calls, Loads(calls'[j]) \/ Loads(calls[j])
                 PROVE  calls'[j] = calls[j]
      BY <1>1, LoadsFrame DEF SameLoads
    <2>1. calls'[j] = IF j \in Under("newclass") THEN [calls[j] EXCEPT !.here = FALSE]
                                                 ELSE calls[j]
      BY <1>2 DEF CloseWizard
    <2>2. CASE j \in Under("newclass")
      <3>1. calls[j] \in Call /\ calls[j].kind = "newclass"
        BY <2>2, CallOf DEF Under
      <3>2. calls'[j].kind = "newclass"
        BY <2>1, <2>2, <3>1 DEF Call
      <3> QED BY <3>1, <3>2 DEF Loads
    <2> QED BY <2>1, <2>2
  <1>3. CASE OpenWizard \/ ImportRoster
    <2>1. UNCHANGED calls
      BY <1>3 DEF OpenWizard, ImportRoster
    <2>2. SameLoads
      BY <2>1 DEF SameLoads
    <2> QED BY <1>1, <2>2, LoadsFrame
  <1> QED BY <1>2, <1>3

LEMMA LoadsStep == TypeInv /\ TableInv /\ PanelInv /\ [Next]_vars => TableInv' /\ PanelInv'
  <1> SUFFICES ASSUME TypeInv, TableInv, PanelInv, [Next]_vars
               PROVE  TableInv' /\ PanelInv'
    OBVIOUS
  <1>1. CASE UNCHANGED vars
    <2>1. SameLoads /\ UNCHANGED <<posted, sel, table, view, subs, doubt>>
      BY <1>1 DEF vars, SameLoads
    <2> QED BY <2>1, LoadsFrame
  <1>2. ASSUME NEW c \in Classes, PickClass(c) PROVE TableInv' /\ PanelInv'
    <2>1. /\ c \in taught \cup {None} /\ Select(c, calls) /\ calls \in CallsType
          /\ UNCHANGED <<posted, table>>
      BY <1>2 DEF PickClass, TypeInv, PageType, CallsOK, Server
    <2> QED BY <2>1, SelectLoads
  <1>3. ASSUME NEW k \in Calls, ListAnswered(k) PROVE TableInv' /\ PanelInv'
    <2> DEFINE cs == [calls EXCEPT ![k] = Idle]
    <2>1. PICK c \in MovesTo(calls[k]) : Select(c, cs)
      BY <1>3 DEF ListAnswered
    <2>2. calls[k].got \subseteq taught
      BY <1>3, ListAnsweredEffect
    <2>3. c \in taught \cup {None}
      BY <2>2 DEF MovesTo, TypeInv, PageType
    <2>4. /\ cs \in CallsType
          /\ \A j \in Calls : Loads(cs[j]) \/ Loads(calls[j]) => cs[j] = calls[j]
      BY <1>3 DEF TypeInv, CallsOK, CallsType, ListAnswered, Under, Loads
    <2>5. UNCHANGED <<posted, table>>
      BY <1>3 DEF ListAnswered, Server
    <2> HIDE DEF cs
    <2> QED BY <2>1, <2>3, <2>4, <2>5, SelectLoads
  <1>4. CASE CloseView
    <2>1. /\ UNCHANGED <<posted, sel, table, doubt, calls>> /\ view' = None
      BY <1>4 DEF CloseView, Server
    <2>2. TableInv'
      BY <2>1 DEF TableInv, Covers, Works_Of, Fresh, Newest, Under
    <2> QED BY <2>1, <2>2, ClosedPanel
  <1>5. CASE Next
    BY <1>2, <1>3, <1>4, <1>5, CreateLoads, NotCreatedLoads, TableAnsweredLoads,
       SubsAnsweredLoads, CreatedLoads, ViewLoads, ClassLoads, AloneLoads DEF Next
  <1> QED BY <1>1, <1>5

LEMMA LoadsInvariant == Spec => [](TableInv /\ PanelInv)
  <1>1. Init => TableInv /\ PanelInv
    <2> SUFFICES ASSUME Init PROVE TableInv /\ PanelInv
      OBVIOUS
    <2>1. PICK k \in Calls :
            calls = [j \in Calls |-> IF j = k THEN Ask("list", None, taught) ELSE Idle]
      BY DEF Init
    <2>2. Newest("table") = {} /\ Newest("subs") = {}
      BY <2>1 DEF Newest, Under, Ask
    <2>3. Works_Of(None) = {}
      BY ClassroomAssumption DEF Works_Of, Init
    <2> QED BY <2>2, <2>3 DEF Init, TableInv, Covers, PanelInv, PanelMatches
  <1> QED BY <1>1, TypeInvariant, LoadsStep, PTL DEF Spec

(* Once its load is answered the table is that of the selected class, with    *)
(* what was created there, however classes were switched meanwhile            *)
(* (loadAssignments): at any time what a load under way, or the table, may    *)
(* lack is a work whose creation the page is still waiting for.               *)
THEOREM TableIsRight == Spec => []TableIsCurrent
  <1>1. TableInv => TableIsCurrent
    BY DEF TableInv, TableIsCurrent, Covers, Fresh
  <1> QED BY <1>1, LoadsInvariant, PTL

(* The open panel holds the submissions of its assignment, or none, once they *)
(* are loaded (loadSubmissions): no load but the newest is looked at, and the *)
(* newest is of the assignment that is open.                                  *)
THEOREM PanelIsRight == Spec => []PanelMatches
  <1>1. PanelInv => PanelMatches
    BY DEF PanelInv
  <1> QED BY <1>1, LoadsInvariant, PTL
=============================================================================
