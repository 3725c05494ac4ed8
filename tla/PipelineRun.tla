---------------------------- MODULE PipelineRun ----------------------------
(***************************************************************************)
(* Phases 5 and 6 of concurrent pipeline runs: the loop of runPipeline.ts  *)
(* that sends the resolved papers to the parsing service one at a time,    *)
(* through a client that gives up on a slow call and does not repeat it,   *)
(* and then asks the synthesis service for the graph of the project.       *)
(*                                                                         *)
(* The parsing service is ClaimIngest with every overlap allowed: nothing  *)
(* in it keeps two calls for one document apart.  A call its run has given *)
(* up on is not withdrawn: it may still be running, or only arrive, when   *)
(* the run is already at the next paper, in synthesis or over.             *)
(*                                                                         *)
(* Every run has a project of its own (the id POST /research makes up when *)
(* the client gives none), and Phase 2 leaves a paper once in a manifest,  *)
(* so a document belongs to one place of one manifest.                     *)
(***************************************************************************)
EXTENDS ClaimIngest, Sequences

CONSTANTS
  Runs,       \* the pipeline runs
  Manifest,   \* Manifest[r]: the resolution manifest of r, best papers first
  Obtained,   \* the documents resolved to a file in the vault
  Findings,   \* the contents classified FINDING
  MaxDocs     \* MAX_INGEST_DOCS, 0 for no cap

VARIABLES
  phase,      \* where each run is
  place,      \* its position in the manifest
  attempted,  \* the papers it has sent so far
  try,        \* the attempts made of the current call
  sent,       \* the ingest calls sent to the parsing service
  acked,      \* the documents whose call has answered its run in time
  graph,      \* the claims the synthesis has read for each run
  wiped       \* history: the runs that were under way when the collection was dropped

runVars == <<phase, place, attempted, try, sent, acked, graph, wiped>>
allVars == <<vars, runVars>>

\* Mutant: an ingest is sent again once, like /ask.
IngestRetries_One == 1

\* The retries of the clients: none for an ingest, and the default for a synthesis.
IngestRetries == 0
SynthesisRetries == 2

\* Call n for document d.
CallsOf(d) == {d} \X (1..(IngestRetries + 1))

Places(r) == DOMAIN Manifest[r]

\* The documents of r's project.
Papers(r) == {Manifest[r][k] : k \in Places(r)}

ASSUME RunAssumption ==
  /\ Manifest \in [Runs -> Seq(Docs)]
  /\ \A r, s \in Runs : \A k \in Places(r), l \in Places(s) :
       Manifest[r][k] = Manifest[s][l] => r = s /\ k = l
  /\ Findings \subseteq Contents
  /\ MaxDocs \in Nat
  /\ Ingests \subseteq Docs \X (Nat \ {0})
  /\ \A d \in Docs : CallsOf(d) \subseteq Ingests

\* The places from k on whose paper has a file in the vault.
Eligible(r, k) == {l \in Places(r) : l >= k /\ Manifest[r][l] \in Obtained}

Current(r) == <<Manifest[r][place[r]], try[r]>>

RunInit ==
  /\ doc = [i \in Ingests |-> i[1]]
  /\ Init
  /\ phase = [r \in Runs |-> "waiting"]
  /\ place = [r \in Runs |-> 0]
  /\ attempted = [r \in Runs |-> 0]
  /\ try = [r \in Runs |-> 0]
  /\ sent = {}
  /\ acked = {}
  /\ graph = [r \in Runs |-> [d \in Docs |-> {}]]
  /\ wiped = {}

-----------------------------------------------------------------------------
\* The loop goes on from place k: it skips what has no file and sends the next
\* paper, or ends at the cap or the end of the manifest, and Phase 6 begins.
Proceed(r, k) ==
  /\ try' = [try EXCEPT ![r] = 1]
  /\ \/ /\ MaxDocs = 0 \/ attempted[r] < MaxDocs
        /\ \E l \in Eligible(r, k) :
             /\ \A m \in Eligible(r, k) : l <= m
             /\ place' = [place EXCEPT ![r] = l]
             /\ sent' = sent \cup {<<Manifest[r][l], 1>>}
        /\ attempted' = [attempted EXCEPT ![r] = @ + 1]
        /\ phase' = [phase EXCEPT ![r] = "ingest"]
     \/ /\ \/ Eligible(r, k) = {}
           \/ MaxDocs # 0 /\ attempted[r] >= MaxDocs
        /\ phase' = [phase EXCEPT ![r] = "synthesis"]
        /\ UNCHANGED <<place, attempted, sent>>

Begin(r) ==
  /\ phase[r] = "waiting"
  /\ Proceed(r, 1)
  /\ UNCHANGED <<vars, acked, graph, wiped>>

\* The call answers in time.
Answered(r) ==
  /\ phase[r] = "ingest"
  /\ pc[Current(r)] = "ok"
  /\ acked' = acked \cup {Manifest[r][place[r]]}
  /\ Proceed(r, place[r] + 1)
  /\ UNCHANGED <<vars, graph, wiped>>

\* Mutant: a call is given up only when the service says that it failed.
GiveUp_OnAnswer(r) ==
  /\ phase[r] = "ingest"
  /\ pc[Current(r)] = "failed"
  /\ Proceed(r, place[r] + 1)
  /\ UNCHANGED <<vars, acked, graph, wiped>>

\* The call fails for its run: a 500, no connection, an answer that does not
\* arrive within INGEST_TIMEOUT_MS.  It is repeated as often as the client
\* retries, and then the paper is skipped.
GiveUp(r) ==
  /\ phase[r] = "ingest"
  /\ \/ /\ try[r] <= IngestRetries
        /\ try' = [try EXCEPT ![r] = @ + 1]
        /\ sent' = sent \cup {<<Manifest[r][place[r]], try[r] + 1>>}
        /\ UNCHANGED <<phase, place, attempted>>
     \/ /\ try[r] > IngestRetries
        /\ Proceed(r, place[r] + 1)
  /\ UNCHANGED <<vars, acked, graph, wiped>>

\* Mutant: the filter of the scroll has no projectId condition.
Fetched_AllProjects(r) == [d \in Docs |-> stored[d] \cap Findings]

\* The points of the claims collection the synthesis of r asks for: those of
\* its project, classified FINDING.
Fetched(r) ==
  [d \in Docs |-> IF d \in Papers(r) THEN stored[d] \cap Findings ELSE {}]

\* An attempt of the synthesis, which needs the collection to exist.
Synthesize(r) ==
  /\ phase[r] = "synthesis"
  /\ coll # NoDim
  /\ graph' = [graph EXCEPT ![r] = Fetched(r)]
  /\ phase' = [phase EXCEPT ![r] = "done"]
  /\ UNCHANGED <<vars, place, attempted, try, sent, acked, wiped>>

\* Mutant: the synthesis is repeated until it succeeds.
SynthesisFails_Always(r) ==
  /\ phase[r] = "synthesis"
  /\ try' = [try EXCEPT ![r] = @ + 1]
  /\ UNCHANGED <<vars, phase, place, attempted, sent, acked, graph, wiped>>

\* The attempt fails: there is no collection, or the service or the network does not
\* answer.  With the last attempt, or at once when the answer is one that is not
\* asked for again or is no graph, the whole run fails.
SynthesisFails(r) ==
  /\ phase[r] = "synthesis"
  /\ \/ /\ try[r] <= SynthesisRetries
        /\ try' = [try EXCEPT ![r] = @ + 1]
        /\ UNCHANGED phase
     \/ /\ phase' = [phase EXCEPT ![r] = "failed"]
        /\ UNCHANGED try
  /\ UNCHANGED <<vars, place, attempted, sent, acked, graph, wiped>>

Over(r) == phase[r] \in {"done", "failed"}

\* A step of the parsing service: a call that was sent arrives, now or long
\* after its run has given up on it, or one that has arrived goes on.
Service ==
  /\ \/ \E i \in sent : Receive(i)
     \/ \E i \in Ingests : Step(i)
     \/ Restart
  /\ wiped' = IF coll # NoDim /\ coll' = NoDim
              THEN wiped \cup {r \in Runs : phase[r] \in {"ingest", "synthesis"}}
              ELSE wiped
  /\ UNCHANGED <<phase, place, attempted, try, sent, acked, graph>>

Orchestrator(r) ==
  Begin(r) \/ Answered(r) \/ GiveUp(r) \/ Synthesize(r) \/ SynthesisFails(r)

RunNext == Service \/ \E r \in Runs : Orchestrator(r)

\* Only the orchestrator is fair, whose timers fire.  Nothing is assumed of the
\* services: a call may hang for ever.
RunFairness ==
  \A r \in Runs : /\ WF_allVars(Begin(r))
                  /\ WF_allVars(GiveUp(r))
                  /\ WF_allVars(SynthesisFails(r))

RunSpec == RunInit /\ [][RunNext]_allVars /\ RunFairness

-----------------------------------------------------------------------------
(* Properties *)

RunTypeOK ==
  /\ TypeOK
  /\ phase \in [Runs -> {"waiting", "ingest", "synthesis", "done", "failed"}]
  /\ place \in [Runs -> Nat]
  /\ attempted \in [Runs -> Nat]
  /\ MaxDocs # 0 => \A r \in Runs : attempted[r] <= MaxDocs
  /\ try \in [Runs -> 0..(SynthesisRetries + 1)]
  /\ sent \subseteq Ingests
  /\ acked \subseteq Docs
  /\ graph \in [Runs -> [Docs -> SUBSET Contents]]
  /\ wiped \subseteq Runs

\* The service that never has two calls for one document in progress.
Serial == INSTANCE ClaimIngest WITH Overlap <- "documents"

\* The runs use the service in the only way it is safe: although it lets any
\* two calls overlap, and a run goes on while a call it gave up on is still in
\* progress, no two calls for one document ever are.  This is why an ingest is
\* sent without retries (clients.ts:94).
UsesSerially == Serial!Spec

\* What a run synthesizes are findings of its own papers, each anchored in its
\* paper, and of each paper all the findings its call has extracted or none,
\* wherever that call is by then.
GraphSound ==
  \A r \in Runs, d \in Docs : graph[r][d] # {} =>
    /\ d \in Papers(r)
    /\ graph[r][d] \subseteq Anchored[d]
    /\ graph[r][d] = found[<<d, 1>>] \cap Findings

\* The findings of a paper whose call was answered in time are in the graph,
\* unless the collection was dropped under the run.
AcknowledgedKept ==
  \A r \in Runs \ wiped : phase[r] = "done" =>
    \A d \in Papers(r) \cap acked : graph[r][d] = found[<<d, 1>>] \cap Findings

\* A run comes to an end whatever the services do ("so a run always
\* completes", clients.ts:97).
EveryRunEnds == \A r \in Runs : <>Over(r)
=============================================================================
