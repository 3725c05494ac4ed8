----------------------------- MODULE PaperTable -----------------------------
(***************************************************************************)
(* The table of a research's papers, one row for each, made from the same  *)
(* passages as the chat's answers (PassageChat): the component of the page *)
(* that loads and generates it, the orchestrator's two routes, the cached  *)
(* copy in Postgres, and POST /table of the parsing service, which scrolls *)
(* through the project's passages and has a model fill each paper's row.   *)
(*                                                                         *)
(* A table is the passages it is made from: what the model fills in, "Not  *)
(* reported" included, is arbitrary and left out.  Where there may be none *)
(* it is a sequence of at most one.  Neither the chat nor a table changes  *)
(* what the other reads, so that a behaviour has one of the two.           *)
(***************************************************************************)
EXTENDS PassageChat

CONSTANTS
  Views,         \* the tabs that may show the table
  Posts,         \* the POSTs of /research/:id/table in progress at the same time
  TableProject   \* the research's project

None == <<>>

ASSUME TableAssumption == \A g \in Posts : g # None

VARIABLES
  reader,   \* "chat" or "table"
  view,     \* the component's state
  shown,    \* the table it shows
  awaits,   \* the POST it waits for
  work,     \* what the handler of each POST does next
  read,     \* the table it makes
  cached    \* the row of research_table

tableVars == <<reader, view, shown, awaits, work, read, cached>>
paperVars == <<vars, tableVars>>

Pending == {"loading", "generating"}
Working == {"read", "save", "answer"}

PaperInit ==
  /\ Init
  /\ reader \in {"chat", "table"}
  /\ view = [v \in Views |-> "away"]
  /\ shown = [v \in Views |-> None]
  /\ awaits = [v \in Views |-> None]
  /\ work = [g \in Posts |-> "idle"]
  /\ read = [g \in Posts |-> None]
  /\ cached = None

\* The table has no rows: the view says so, and has no button.
NoPapers(v) == shown[v] = <<{}>>

-----------------------------------------------------------------------------
(* The component *)

Mount(v) ==
  /\ view[v] = "away"
  /\ view' = [view EXCEPT ![v] = "loading"]
  /\ UNCHANGED <<reader, shown, awaits, work, read, cached>>

\* GET: the cached table, or none, which is what any failure reads as.
Load(v) ==
  /\ view[v] = "loading"
  /\ \/ cached # None
        /\ view' = [view EXCEPT ![v] = "ready"]
        /\ shown' = [shown EXCEPT ![v] = cached]
     \/ view' = [view EXCEPT ![v] = "empty"] /\ UNCHANGED shown
  /\ UNCHANGED <<reader, awaits, work, read, cached>>

\* The button, "Generate table" or "Regenerate".
Generate(v, g) ==
  /\ view[v] \in {"empty", "error", "ready"}
  /\ view[v] = "ready" => ~NoPapers(v)
  /\ work[g] = "idle"
  /\ view' = [view EXCEPT ![v] = "generating"]
  /\ awaits' = [awaits EXCEPT ![v] = g]
  /\ shown' = [shown EXCEPT ![v] = None]
  /\ work' = [work EXCEPT ![g] = "read"]
  /\ UNCHANGED <<reader, read, cached>>

\* The user leaves, or the connection is lost; the handler goes on.
Leave(v) ==
  /\ view[v] # "away"
  /\ view' = [view EXCEPT ![v] = "away"]
  /\ awaits' = [awaits EXCEPT ![v] = None]
  /\ shown' = [shown EXCEPT ![v] = None]
  /\ UNCHANGED <<reader, work, read, cached>>

Disconnect(v) ==
  /\ view[v] = "generating"
  /\ view' = [view EXCEPT ![v] = "error"]
  /\ awaits' = [awaits EXCEPT ![v] = None]
  /\ UNCHANGED <<reader, shown, work, read, cached>>

-----------------------------------------------------------------------------
(* The handlers *)

OfTable == {p \in chunks : Project[p[1]] = TableProject}

\* A mutant of Scrolled: the scroll is not restricted to the project.
Scrolled_Any == chunks

\* The passages the scroll's filter lets through.
Scrolled == OfTable

\* documents_for_project, one request; its errors read as no documents.
Read(g) ==
  /\ work[g] = "read"
  /\ \E passages \in {Scrolled, {}} : read' = [read EXCEPT ![g] = <<passages>>]
  /\ work' = [work EXCEPT ![g] = "save"]
  /\ UNCHANGED <<reader, view, shown, awaits, cached>>

\* The service has answered, and the table is cached; a failure of that is dropped.
SaveTable(g) ==
  /\ work[g] = "save"
  /\ cached' \in {read[g], cached}
  /\ work' = [work EXCEPT ![g] = "answer"]
  /\ UNCHANGED <<reader, view, shown, awaits, read>>

Waiting(g) == {v \in Views : view[v] = "generating" /\ awaits[v] = g}

Told(g, state) ==
  /\ view' = [v \in Views |-> IF v \in Waiting(g) THEN state ELSE view[v]]
  /\ awaits' = [v \in Views |-> IF v \in Waiting(g) THEN None ELSE awaits[v]]

Respond(g) ==
  /\ work[g] = "answer"
  /\ work' = [work EXCEPT ![g] = "idle"]
  /\ Told(g, "ready")
  /\ shown' = [v \in Views |-> IF v \in Waiting(g) THEN read[g] ELSE shown[v]]
  /\ read' = [read EXCEPT ![g] = None]
  /\ UNCHANGED <<reader, cached>>

\* A mutant of Refused: the component does not catch the error.
Refused_Uncaught(g) == UNCHANGED <<view, awaits>>

Refused(g) == Told(g, "error")

\* The research is not known, the service fails or has had its two minutes, or
\* the orchestrator dies.
Refuse(g) ==
  /\ work[g] \in Working
  /\ work' = [work EXCEPT ![g] = "idle"]
  /\ Refused(g)
  /\ read' = [read EXCEPT ![g] = None]
  /\ UNCHANGED <<reader, shown, cached>>

Handle(g) == Read(g) \/ SaveTable(g) \/ Respond(g) \/ Refuse(g)

Table ==
  \/ \E v \in Views :
       Mount(v) \/ Load(v) \/ Leave(v) \/ Disconnect(v) \/ \E g \in Posts : Generate(v, g)
  \/ \E g \in Posts : Handle(g)

PaperNext ==
  \/ (Restart \/ \E w \in Writes : Write(w)) /\ UNCHANGED tableVars
  \/ reader = "chat" /\ (\E a \in Asks : Chat(a)) /\ UNCHANGED tableVars
  \/ reader = "table" /\ Table /\ UNCHANGED vars

\* The orchestrator's timers are fair, and so are its statements to Postgres.
PaperSpec ==
  /\ PaperInit /\ [][PaperNext]_paperVars
  /\ \A a \in Asks : WF_paperVars(reader = "chat" /\ Abandon(a) /\ UNCHANGED tableVars)
  /\ \A v \in Views : WF_paperVars(reader = "table" /\ Load(v) /\ UNCHANGED vars)
  /\ \A g \in Posts :
       WF_paperVars(reader = "table" /\ (SaveTable(g) \/ Respond(g) \/ Refuse(g)) /\ UNCHANGED vars)

-----------------------------------------------------------------------------
(* Properties *)

Tables == {None} \cup {<<passages>> : passages \in SUBSET Passages}

PaperTypeOK ==
  /\ TypeOK
  /\ reader \in {"chat", "table"}
  /\ view \in [Views -> Pending \cup {"away", "empty", "ready", "error"}]
  /\ awaits \in [Views -> Posts \cup {None}]
  /\ work \in [Posts -> Working \cup {"idle"}]
  /\ shown \in [Views -> Tables] /\ read \in [Posts -> Tables] /\ cached \in Tables

\* app.py:393: what is shown or cached as the research's table is a whole one, with
\* rows for its own papers only, each from one ingest of its paper (or, as for an
\* answer, of ingests that were in progress together): however the papers, and those
\* of other projects, are ingested again meanwhile, and whichever of the overlapping
\* generations is cached or answered first.
RowPerPaper ==
  /\ \A v \in Views : view[v] = "ready" <=> shown[v] # None
  /\ \A table \in {cached} \cup {shown[v] : v \in Views} : table # None =>
       Coherent(table[1]) /\ \A p \in table[1] : Project[p[1]] = TableProject

\* Both the chat and the table come to an end, whatever the store and the models do:
\* the user is not left waiting.
ReadsEnd ==
  /\ AskEnds
  /\ \A v \in Views : view[v] \in Pending ~> view[v] \notin Pending
=============================================================================
