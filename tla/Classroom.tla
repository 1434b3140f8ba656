----------------------------- MODULE Classroom -----------------------------
(***************************************************************************)
(* A teacher's page: her classes, the wizard that creates one, and the     *)
(* assignments and submissions of the class she has selected (frontend     *)
(* app/moderator, components/moderator/AssignmentManager and ClassWizard;   *)
(* backend school service).                                                *)
(*                                                                         *)
(* Every answer may come late and in any order.  The server handles a      *)
(* request when it is made; the answer is a step of its own.  A request id *)
(* of the code is only ever compared with the newest one: a call knows     *)
(* whether it still is.  Of an assignment, and of a class, the page's      *)
(* entries keep the identity.                                              *)
(***************************************************************************)
EXTENDS Integers

CONSTANTS
  Classes,
  Works,         \* assignments
  ClassOf,       \* Works -> Classes: the class an assignment is created for
  Calls, Idle,   \* calls that may be under way at once
  None

VARIABLES
  taught,    \* the classes of the teacher, on the server
  posted,    \* the assignments on the server
  listed,    \* the page's classes
  sel,       \* the selected class
  wizard,    \* the class wizard: its step (0: closed) and the class it created
  table,     \* the assignments shown
  view,      \* the assignment whose submissions are open
  subs,      \* the assignment the submissions in the panel are of
  calls,     \* the calls under way
  picked,    \* history: the class the teacher picked last
  early,     \* history: a class was created before one was selected
  doubt      \* history: what need not be right: "table", "subs"

vars == <<taught, posted, listed, sel, wizard, table, view, subs, calls,
          picked, early, doubt>>

Server == <<taught, posted>>
Panel == <<view, subs>>

\* A call: what it asks, of which class or assignment, the entries in its
\* answer, whether it is the newest of its request ids, whether a class was
\* selected when its handler was made, and whether the wizard that made it is
\* still open.
Call == [kind : {"list", "table", "subs", "newclass", "create"},
         of : Classes \cup Works \cup {None}, got : SUBSET (Classes \cup Works),
         newest : BOOLEAN, had : BOOLEAN, here : BOOLEAN]

ASSUME ClassroomAssumption ==
  /\ ClassOf \in [Works -> Classes]
  /\ Idle \notin Call /\ None \notin Classes \cup Works

Works_Of(c) == {w \in posted : ClassOf[w] = c}

Under(kind) == {k \in Calls : calls[k] # Idle /\ calls[k].kind = kind}
Newest(kind) == {k \in Under(kind) : calls[k].newest}

TypeOK ==
  /\ taught \subseteq Classes /\ posted \subseteq Works
  /\ listed \subseteq taught
  /\ sel \in taught \cup {None}
  /\ wizard \in [step : 0 .. 3, of : Classes \cup {None}]
  /\ table \subseteq posted
  /\ view \in posted \cup {None} /\ subs \in posted \cup {None}
  /\ calls \in [Calls -> {Idle} \cup Call]
  /\ \A j, k \in Newest("table") \cup Newest("subs") : j = k
  /\ picked \in Classes \cup {None} /\ early \in BOOLEAN
  /\ doubt \subseteq {"table", "subs"}

Ask(kind, of, got) ==
  [kind |-> kind, of |-> of, got |-> got, newest |-> TRUE,
   had |-> kind \in {"list", "newclass"} /\ sel # None, here |-> TRUE]

\* Mutant: requests are not numbered.
Renumbered_Not(cs) == cs

\* ++requestSeq.current: no earlier load of assignments or submissions is the
\* newest any more, and what it brings is never looked at.
Renumbered(cs) ==
  [k \in Calls |-> IF cs[k] # Idle /\ cs[k].kind \in {"table", "subs"}
     THEN [cs[k] EXCEPT !.newest = FALSE, !.kind = "table", !.of = None, !.got = {}]
     ELSE cs[k]]

\* The loads that a new request id drops, as doubts.
Dropped == (IF Newest("table") # {} THEN {"table"} ELSE {}) \cup
           (IF Newest("subs") # {} THEN {"subs"} ELSE {})

Init ==
  /\ taught \in SUBSET Classes
  /\ posted \in SUBSET {w \in Works : ClassOf[w] \in taught}
  /\ listed = {} /\ sel = None
  /\ wizard = [step |-> 0, of |-> None]
  /\ table = {} /\ view = None /\ subs = None
  /\ \E k \in Calls : calls = [j \in Calls |->
       IF j = k THEN Ask("list", None, taught) ELSE Idle]
  /\ picked = None /\ early = FALSE /\ doubt = {}

-----------------------------------------------------------------------------
(* The page and its classes.                                               *)

\* The class under the assignments changes: they are loaded, and the panel is
\* closed.  What was loaded for another class stays in the table until then.
Select(c, cs) ==
  /\ sel' = c
  /\ IF c = sel
       THEN calls' = cs /\ UNCHANGED <<view, subs, doubt>>
       ELSE /\ \E k \in Calls : cs[k] = Idle /\
                 calls' = [Renumbered(cs) EXCEPT
                             ![k] = Ask("table", c, Works_Of(c))]
            /\ view' = None /\ subs' = None
            /\ doubt' = doubt \ {"table", "subs"}

\* A class card.
PickClass(c) ==
  /\ c \in listed /\ wizard.step = 0
  /\ Select(c, calls)
  /\ picked' = c
  /\ UNCHANGED <<Server, listed, wizard, table, early>>

\* Mutant: the first class is selected after every load.
MovesTo_First(call) == IF call.got = {} THEN {sel} ELSE call.got

\* The first class is selected if none was when the load was set up.
MovesTo(call) == IF call.got = {} \/ call.had THEN {sel} ELSE call.got

\* loadClasses; what an overlapping load shows may be older.
ListAnswered(k) ==
  /\ k \in Under("list")
  /\ listed' = calls[k].got
  /\ \E c \in MovesTo(calls[k]) : Select(c, [calls EXCEPT ![k] = Idle])
  /\ UNCHANGED <<Server, wizard, table, picked, early>>

\* An error is dropped.
ListFailed(k) ==
  /\ k \in Under("list")
  /\ calls' = [calls EXCEPT ![k] = Idle]
  /\ UNCHANGED <<Server, listed, sel, wizard, table, Panel, picked, early, doubt>>

-----------------------------------------------------------------------------
(* The class wizard.                                                       *)

OpenWizard ==
  /\ wizard.step = 0
  /\ wizard' = [step |-> 1, of |-> None]
  /\ UNCHANGED <<Server, listed, sel, table, Panel, calls, picked, early, doubt>>

\* Closed at any time, calls of its own under way or not.
CloseWizard ==
  /\ wizard.step # 0
  /\ wizard' = [step |-> 0, of |-> None]
  /\ calls' = [k \in Calls |-> IF k \in Under("newclass")
                 THEN [calls[k] EXCEPT !.here = FALSE] ELSE calls[k]]
  /\ UNCHANGED <<Server, listed, sel, table, Panel, picked, early, doubt>>

\* createClass, with all three fields filled in; the button waits for the
\* answer.  c: the new class, or None if the call is queued or refused.
CreateClass(k, c) ==
  /\ calls[k] = Idle /\ wizard.step = 1
  /\ \A j \in Under("newclass") : ~calls[j].here
  /\ c \notin taught
  /\ taught' = IF c = None THEN taught ELSE taught \cup {c}
  /\ calls' = [calls EXCEPT ![k] = Ask("newclass", c, {})]
  /\ early' = (early \/ sel = None)
  /\ UNCHANGED <<posted, listed, sel, wizard, table, Panel, picked, doubt>>

\* onCreated: loadClasses, of the render the wizard was submitted in.
Relisted(k) ==
  /\ calls' = [calls EXCEPT ![k] =
       [Ask("list", None, taught) EXCEPT !.had = calls[k].had]]

\* The invite code is shown; a queued call has none, and a call whose answer is
\* lost is queued.
ClassCreated(k) ==
  /\ k \in Under("newclass")
  /\ \E c \in {calls[k].of, None} :
       wizard' = IF calls[k].here THEN [step |-> 2, of |-> c] ELSE wizard
  /\ Relisted(k)
  /\ UNCHANGED <<Server, listed, sel, table, Panel, picked, early, doubt>>

\* A refusal: the wizard waits at its first step.
ClassRefused(k) ==
  /\ k \in Under("newclass") /\ calls[k].of = None
  /\ calls' = [calls EXCEPT ![k] = Idle]
  /\ UNCHANGED <<Server, listed, sel, wizard, table, Panel, picked, early, doubt>>

\* importCsv shows its report, or the import is skipped; a class that is only
\* queued has no roster to import to, and skipping still works.
ImportRoster ==
  /\ wizard.step = 2
  /\ wizard' = [wizard EXCEPT !.step = 3]
  /\ UNCHANGED <<Server, listed, sel, table, Panel, calls, picked, early, doubt>>

-----------------------------------------------------------------------------
(* Assignments.                                                            *)

\* loadAssignments: an answer that is not the newest changes nothing.
TableAnswered(k, ok) ==
  /\ k \in Under("table")
  /\ calls' = [calls EXCEPT ![k] = Idle]
  /\ IF calls[k].newest
       THEN /\ table' = IF ok THEN calls[k].got ELSE {}
            /\ doubt' = IF ok /\ calls[k].of = sel
                          THEN doubt \ {"table"} ELSE doubt \cup {"table"}
       ELSE UNCHANGED <<table, doubt>>
  /\ UNCHANGED <<Server, listed, sel, wizard, Panel, picked, early>>

\* handleCreate, with a title; the button waits for the answer.  w: the new
\* assignment, or None if the call is queued or refused.
Create(k, w) ==
  /\ calls[k] = Idle /\ sel # None /\ wizard.step = 0
  /\ Under("create") = {}
  /\ w # None => ClassOf[w] = sel /\ w \notin posted
  /\ posted' = IF w = None THEN posted ELSE posted \cup {w}
  /\ calls' = [calls EXCEPT ![k] = Ask("create", sel, {w} \ {None})]
  /\ UNCHANGED <<taught, listed, sel, wizard, table, Panel, picked, early, doubt>>

\* Mutant: the assignments are reloaded without a request id.
Reloaded_Unnumbered(k) ==
  calls' = [calls EXCEPT ![k] =
              [Ask("table", calls[k].of, Works_Of(calls[k].of)) EXCEPT
                 !.newest = FALSE]]

\* The loadAssignments of the render the form was submitted in: of its class.
Reloaded(k) ==
  calls' = [Renumbered(calls) EXCEPT ![k] =
              Ask("table", calls[k].of, Works_Of(calls[k].of))]

Created(k) ==
  /\ k \in Under("create")
  /\ Reloaded(k)
  /\ doubt' = (doubt \cup Dropped) \ {"table"}
  /\ UNCHANGED <<Server, listed, sel, wizard, table, Panel, picked, early>>

\* A refusal.
NotCreated(k) ==
  /\ k \in Under("create") /\ calls[k].got = {}
  /\ calls' = [calls EXCEPT ![k] = Idle]
  /\ UNCHANGED <<Server, listed, sel, wizard, table, Panel, picked, early, doubt>>

-----------------------------------------------------------------------------
(* Submissions.                                                            *)

\* loadSubmissions, of an assignment in the table.
View(k, w) ==
  /\ calls[k] = Idle /\ w \in table /\ wizard.step = 0
  /\ view' = w
  /\ calls' = [Renumbered(calls) EXCEPT ![k] = Ask("subs", w, {})]
  /\ doubt' = (doubt \cup Dropped) \ {"subs"}
  /\ UNCHANGED <<Server, listed, sel, wizard, table, subs, picked, early>>

SubsAnswered(k, ok) ==
  /\ k \in Under("subs")
  /\ calls' = [calls EXCEPT ![k] = Idle]
  /\ subs' = IF ~calls[k].newest THEN subs
             ELSE IF ok THEN calls[k].of ELSE None
  /\ UNCHANGED <<Server, listed, sel, wizard, table, view, picked, early, doubt>>

\* The panel is closed; a load under way goes on.
CloseView ==
  /\ view # None
  /\ view' = None /\ subs' = None
  /\ UNCHANGED <<Server, listed, sel, wizard, table, calls, picked, early, doubt>>

Next ==
  \/ \E c \in Classes : PickClass(c)
  \/ \E k \in Calls : ListAnswered(k) \/ ListFailed(k)
  \/ OpenWizard \/ CloseWizard \/ ImportRoster
  \/ \E k \in Calls, c \in Classes \cup {None} : CreateClass(k, c)
  \/ \E k \in Calls : ClassCreated(k) \/ ClassRefused(k)
  \/ \E k \in Calls, ok \in BOOLEAN : TableAnswered(k, ok) \/ SubsAnswered(k, ok)
  \/ \E k \in Calls, w \in Works \cup {None} : Create(k, w)
  \/ \E k \in Calls : Created(k) \/ NotCreated(k)
  \/ \E k \in Calls, w \in Works : View(k, w)
  \/ CloseView

Spec == Init /\ [][Next]_vars

-----------------------------------------------------------------------------
(* Properties.                                                             *)

(* The class the teacher picked stays selected, whatever loads and creations *)
(* are under way, unless she created a class before one was selected          *)
(* (loadClasses and its stale selectedClass).                                 *)
PickKept == picked # None /\ ~early => sel = picked

(* Once its load is answered the table is that of the selected class, with    *)
(* what was created there, however classes were switched meanwhile.  Not if   *)
(* the load failed, submissions were opened during it, or a creation for      *)
(* another class reloaded that one (loadAssignments).                         *)
TableIsCurrent ==
  Newest("table") \cup Under("create") = {} /\ "table" \notin doubt =>
    table = Works_Of(sel)

(* The open panel holds the submissions of its assignment, or none, once they *)
(* are loaded, unless a creation answered meanwhile dropped that load         *)
(* (loadSubmissions).                                                         *)
PanelMatches ==
  view # None /\ Newest("subs") = {} /\ "subs" \notin doubt =>
    subs \in {view, None}
=============================================================================
