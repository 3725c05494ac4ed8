--------------------------- MODULE ResearchServer ---------------------------
(***************************************************************************)
(* The orchestrator's HTTP process: the in-memory job map, the pipeline    *)
(* each job runs, the server-sent event streams that follow it, the saving *)
(* of finished briefs in Postgres, and the research pages that poll.       *)
(*                                                                         *)
(* The process is single-threaded: what runs between two awaits, the       *)
(* then/catch/finally chain of a job included, is one action.  The process *)
(* may die at any moment and is started again with an empty job map.       *)
(* Its configuration is taken to be valid and DATABASE_URL to be set.      *)
(***************************************************************************)
EXTENDS Naturals, Sequences, SequencesExt

CONSTANTS
  Jobs,      \* research ids: a random UUID each, never used twice
  Streams,   \* connections to GET /research/:id/stream
  Pages,     \* research pages that poll GET /research/:id
  Faults     \* a subset of FaultPoints

FaultPoints == {"crash", "create", "insert", "select", "request"}

ASSUME ConstantsOK == Faults \subseteq FaultPoints

VARIABLES
  live,      \* "new" before the POST; in the job map "running" or "done";
             \* "lost" when the process that ran it has died
  phase,     \* the pipeline phase each job is in
  events,    \* Job.events
  outcome,   \* Job.result or Job.error; this, phase and events outlive the
             \* process only as history
  saving,    \* the save of each brief: "none", "waiting" for the store, "sent"
  db,        \* the rows of table research
  ready,     \* PgResearchStore.ready: "none" before the store is built
  stream,    \* "closed", "open", "ended" by the server, "broken" by a crash
  of, got, final,     \* a stream's job, the events and the result it delivered
  at, shown, asking   \* a page's job, what it shows, a lookup in the database

job  == <<live, phase, events, outcome>>
wire == <<stream, of, got, final>>
page == <<at, shown, asking>>
vars == <<job, saving, db, ready, wire, page>>

Phases   == 0 .. 7
MayThrow == {3, 6, 7}   \* the service calls and the generation; the others catch
Outcomes == {"ok", "rejected", "error"}
Settled  == Outcomes \cup {"404"}

Event    == Phases \X {"start", "done"}

\* The first n events of a run, in order.
Told(n) == [i \in 1 .. n |-> <<i \div 2, IF i % 2 = 1 THEN "done" ELSE "start">>]

TypeOK ==
  /\ live \in [Jobs -> {"new", "running", "done", "lost"}]
  /\ phase \in [Jobs -> Phases]
  /\ events \in [Jobs -> Seq(Event)]
  /\ outcome \in [Jobs -> Outcomes \cup {"none"}]
  /\ saving \in [Jobs -> {"none", "waiting", "sent"}]
  /\ db \subseteq Jobs
  /\ ready \in {"none", "pending", "ok", "failed"}
  /\ stream \in [Streams -> {"closed", "open", "ended", "broken"}]
  /\ of \in [Streams -> Jobs]
  /\ got \in [Streams -> Seq(Event)]
  /\ final \in [Streams -> Outcomes \cup {"none"}]
  /\ at \in [Pages -> Jobs]
  /\ shown \in [Pages -> Settled \cup {"none", "loading", "running"}]
  /\ asking \in [Pages -> BOOLEAN]

Init ==
  /\ live = [j \in Jobs |-> "new"]
  /\ phase = [j \in Jobs |-> 0]
  /\ events = [j \in Jobs |-> <<>>]
  /\ outcome = [j \in Jobs |-> "none"]
  /\ saving = [j \in Jobs |-> "none"]
  /\ db = {}
  /\ ready = "none"
  /\ stream = [s \in Streams |-> "closed"]
  /\ of \in [Streams -> Jobs]
  /\ got = [s \in Streams |-> <<>>]
  /\ final = [s \in Streams |-> "none"]
  /\ at \in [Pages -> Jobs]
  /\ shown = [p \in Pages |-> "none"]
  /\ asking = [p \in Pages |-> FALSE]

\* The store is built by the first request that needs it.
OpenStore == ready' = IF ready = "none" THEN "pending" ELSE ready

InMap(j) == live[j] \in {"running", "done"}

----------------------------------------------------------------------------
(* Jobs *)

\* POST /research: startJob.
Post(j) ==
  /\ live[j] = "new"
  /\ live' = [live EXCEPT ![j] = "running"]
  /\ UNCHANGED <<phase, events, outcome, saving, db, ready, wire, page>>

\* Mutants: the start of a phase is not reported; one more start is.
Report_NoStart(k) == <<<<k, "done">>>>
Report_NoLast(k) == <<<<k, "done">>, <<k + 1, "start">>>>

\* Phase k is done, and the next one starts at once.
Report(k) == IF k < 7 THEN <<<<k, "done">>, <<k + 1, "start">>>> ELSE <<<<k, "done">>>>

Emit(j, k) == events' = [events EXCEPT ![j] = @ \o Report(k)]

\* A phase other than the last completes.
Complete(j) ==
  /\ live[j] = "running" /\ phase[j] < 7
  /\ Emit(j, phase[j])
  /\ phase' = [phase EXCEPT ![j] = @ + 1]
  /\ UNCHANGED <<live, outcome, saving, db, ready, wire, page>>

\* Only a completed brief is persisted; nobody waits for the save.
SaveStarts(j, o) ==
  \/ o = "ok" /\ saving' = [saving EXCEPT ![j] = "waiting"] /\ OpenStore
  \/ o # "ok" /\ UNCHANGED <<saving, ready>>

\* The promise chain at the end of startJob: result or error, then done.
End(j, o) ==
  /\ live[j] = "running"
  /\ \/ o = "ok" /\ phase[j] = 7 /\ Emit(j, 7)
     \/ o = "rejected" /\ phase[j] = 1 /\ UNCHANGED events
     \/ o = "error" /\ phase[j] \in MayThrow /\ UNCHANGED events
  /\ live' = [live EXCEPT ![j] = "done"]
  /\ outcome' = [outcome EXCEPT ![j] = o]
  /\ SaveStarts(j, o)
  /\ UNCHANGED <<phase, db, wire, page>>

----------------------------------------------------------------------------
(* Persistence *)

\* The CREATE TABLE statements of the store's constructor settle, once per process.
StoreReady ==
  /\ ready = "pending"
  /\ ready' \in {"ok"} \cup (IF "create" \in Faults THEN {"failed"} ELSE {})
  /\ UNCHANGED <<job, saving, db, wire, page>>

\* save: the INSERT goes out once the store is ready; if it never will be, the
\* save fails and its error is dropped.
SendSave(j) ==
  /\ saving[j] = "waiting"
  /\ \/ ready = "ok" /\ saving' = [saving EXCEPT ![j] = "sent"]
     \/ ready = "failed" /\ saving' = [saving EXCEPT ![j] = "none"]
  /\ UNCHANGED <<job, db, ready, wire, page>>

\* Postgres executes the INSERT, even if its client has died in the meantime.
Commit(j) ==
  /\ saving[j] = "sent"
  /\ db' \in {db \cup {j}} \cup (IF "insert" \in Faults THEN {db} ELSE {})
  /\ saving' = [saving EXCEPT ![j] = "none"]
  /\ UNCHANGED <<job, ready, wire, page>>

\* GET /history opens the store; the rows it lists are db.
History ==
  /\ OpenStore
  /\ UNCHANGED <<job, saving, db, wire, page>>

----------------------------------------------------------------------------
(* Streams *)

\* GET /research/:id/stream for a job the map has; otherwise it answers 404.
Connect(s, j) ==
  /\ stream[s] = "closed"
  /\ InMap(j)
  /\ stream' = [stream EXCEPT ![s] = "open"]
  /\ of' = [of EXCEPT ![s] = j]
  /\ UNCHANGED <<got, final, job, saving, db, ready, page>>

\* Mutant: a finished job ends the stream with what has been sent so far.
Drained_NotLast(s) == IF live[of[s]] = "done" THEN got[s] ELSE events[of[s]]

\* The while loop of the timer's callback: got[s] grows by events[sent], ....
Drained(s) == got[s] \o SubSeq(events[of[s]], Len(got[s]) + 1, Len(events[of[s]]))

\* Mutant: the timer waits for a brief.
Over_WithBrief(j) == outcome[j] = "ok"

Over(j) == live[j] = "done"

\* The timer of the stream, every 200 ms.
Tick(s) ==
  /\ stream[s] = "open"
  /\ got' = [got EXCEPT ![s] = Drained(s)]
  /\ \/ ~Over(of[s]) /\ UNCHANGED <<stream, final>>
     \/ /\ Over(of[s])
        /\ final' = [final EXCEPT ![s] = outcome[of[s]]]
        /\ stream' = [stream EXCEPT ![s] = "ended"]
  /\ UNCHANGED <<of, job, saving, db, ready, page>>

\* The client goes away; it may connect again and is then sent everything anew.
Disconnect(s) ==
  /\ stream[s] # "closed"
  /\ stream' = [stream EXCEPT ![s] = "closed"]
  /\ got' = [got EXCEPT ![s] = <<>>]
  /\ final' = [final EXCEPT ![s] = "none"]
  /\ UNCHANGED <<of, job, saving, db, ready, page>>

----------------------------------------------------------------------------
(* Research pages *)

\* A page is opened, or loaded again, on a research that has an id.
Open(p, j) ==
  /\ ~asking[p]
  /\ live[j] # "new"
  /\ at' = [at EXCEPT ![p] = j]
  /\ shown' = [shown EXCEPT ![p] = "loading"]
  /\ UNCHANGED <<asking, job, saving, db, ready, wire>>

Shows(p, answer) == shown' = [shown EXCEPT ![p] = answer]

\* Mutant: a job outlives the process that ran it in the map.
Remembered_Forever(j) == live[j] # "new"

\* GET /research/:id finds the job in the map.
Remembered(j) == InMap(j)

\* The page polls: answered from the job map, or else the store is asked.
Poll(p) ==
  /\ shown[p] \in {"loading", "running"} /\ ~asking[p]
  /\ \/ /\ Remembered(at[p])
        /\ Shows(p, IF live[at[p]] = "done" THEN outcome[at[p]] ELSE "running")
        /\ UNCHANGED <<asking, ready>>
     \/ /\ ~Remembered(at[p])
        /\ asking' = [asking EXCEPT ![p] = TRUE]
        /\ OpenStore
        /\ UNCHANGED shown
     \/ "request" \in Faults /\ Shows(p, "404") /\ UNCHANGED <<asking, ready>>
  /\ UNCHANGED <<at, job, saving, db, wire>>

\* Mutant: a row that is not there reads as a brief.
Found_Always(j) == TRUE

Found(j) == j \in db

\* The SELECT is answered; a row is a finished brief, every error is a 404.
Lookup(p) ==
  /\ asking[p]
  /\ \/ ready = "ok" /\ Shows(p, IF Found(at[p]) THEN "ok" ELSE "404")
     \/ ready = "failed" /\ Shows(p, "404")
     \/ ready = "ok" /\ "select" \in Faults /\ Shows(p, "404")
  /\ asking' = [asking EXCEPT ![p] = FALSE]
  /\ UNCHANGED <<at, job, saving, db, ready, wire>>

----------------------------------------------------------------------------
\* The process dies and is started again.
Crash ==
  /\ "crash" \in Faults
  /\ live' = [j \in Jobs |-> IF InMap(j) THEN "lost" ELSE live[j]]
  /\ saving' = [j \in Jobs |-> IF saving[j] = "waiting" THEN "none" ELSE saving[j]]
  /\ ready' = "none"
  /\ stream' = [s \in Streams |-> IF stream[s] = "open" THEN "broken" ELSE stream[s]]
  /\ shown' = [p \in Pages |-> IF asking[p] THEN "404" ELSE shown[p]]
  /\ asking' = [p \in Pages |-> FALSE]
  /\ UNCHANGED <<phase, events, outcome, db, of, got, final, at>>

Pipeline(j) == Complete(j) \/ \E o \in Outcomes : End(j, o)
Persist(j)  == SendSave(j) \/ Commit(j)

Next ==
  \/ Crash \/ StoreReady \/ History
  \/ \E j \in Jobs : Post(j) \/ Pipeline(j) \/ Persist(j)
  \/ \E s \in Streams : Tick(s) \/ Disconnect(s) \/ \E j \in Jobs : Connect(s, j)
  \/ \E p \in Pages : Poll(p) \/ Lookup(p) \/ \E j \in Jobs : Open(p, j)

\* Every phase ends: the calls it awaits have timeouts.  Timers fire, requests
\* and statements are answered; nobody is obliged to post, open or connect.
Fairness ==
  /\ WF_vars(StoreReady)
  /\ \A j \in Jobs : WF_vars(Pipeline(j)) /\ WF_vars(Persist(j))
  /\ \A s \in Streams : WF_vars(Tick(s))
  /\ \A p \in Pages : WF_vars(Poll(p)) /\ WF_vars(Lookup(p))

Spec == Init /\ [][Next]_vars
FairSpec == Spec /\ Fairness

----------------------------------------------------------------------------
(* Properties *)

\* The progress a run reports is the pipeline's story in order, and a result says
\* how far it went: a brief only after every phase, a rejection only from Phase 1.
Chronicle ==
  \A j \in Jobs :
    /\ events[j] = Told(IF outcome[j] = "ok" THEN 15 ELSE 2 * phase[j])
    /\ live[j] = "done" <=> outcome[j] # "none" /\ live[j] # "lost"
    /\ outcome[j] = "ok" => phase[j] = 7

\* server.ts:276: whenever a stream was opened and however its timer falls between
\* the job's steps, it delivers the job's events in order, each once, and its end
\* comes with the whole story and the job's own result.
StreamFaithful ==
  \A s \in Streams :
    /\ IsPrefix(got[s], events[of[s]])
    /\ stream[s] = "ended" => got[s] = events[of[s]] /\ final[s] = outcome[of[s]]

\* server.ts:91: the History holds finished briefs only, also those whose process died.
HistoryIsBriefs == \A j \in db : outcome[j] = "ok"

\* ResearchDetailPage.tsx:17: a page that is loading ends up showing a result or
\* that there is none, through crashes and reloads.
PageSettles == \A p \in Pages : shown[p] = "loading" ~> shown[p] \in Settled

\* A stream does not stay open for ever.
StreamEnds == \A s \in Streams : stream[s] = "open" ~> stream[s] # "open"

State == [j \in Jobs |-> IF live[j] = "new" THEN "new"
                         ELSE IF outcome[j] = "none" THEN "running" ELSE outcome[j]]
Present == {j \in Jobs : InMap(j)}

Promise == INSTANCE ResearchLifecycle WITH
  state <- State, present <- Present, kept <- db,
  Reliable <- Faults \cap {"create", "select", "request"} = {}

\* The orchestrator keeps the promises of ResearchLifecycle.  While a process lives
\* its answers for an id go from "running" to one outcome and stay there; a crash
\* turns those of its researches that are not in the History into 404, whatever they
\* were, and a save that was sent before may still turn that of a brief back; what
\* is in the History is answered as a brief from then on, through every crash; and
\* what a page shows was the answer when the database or the map was asked for it.
\* A brief that a crash overtakes before its save is lost: nothing promises more.
KeepsPromise == Promise!Spec
=============================================================================
