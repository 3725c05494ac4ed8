# Verification of Udaan

Udaan turns a research question into a cited brief in seven phases: it expands
the question (1), searches three academic graphs (2), re-ranks what they return
(3), resolves papers to PDFs (4), extracts claims from them (5), clusters the
claims and judges their polarity (6), and has a language model write a brief
whose every sentence cites a claim (7). A Node process (`packages/orchestrator`)
runs the pipeline and serves the web page; three Python services (`services/`)
do ranking, parsing and synthesis; Qdrant holds claims, S3/MinIO holds PDFs,
Postgres holds finished briefs.

This directory holds TLA+ modules of the parts where concurrency, failure,
ordering or bookkeeping can go wrong, the TLC configurations that check them on
small instances, and TLAPS proofs of what holds for every instance. Paths below
are relative to `src/`; `orchestrator/` abbreviates `packages/orchestrator/src/`
and `parsing/` abbreviates `services/parsing/udaan_parsing/`. `PROJECT.json`
lists, for every definition, the lines it translates.

Run a check with `tlc -config <x>.cfg <MCModule>` and a proof with
`tlapm <Module>_proofs.tla`.

## 1. The system

| Component | State | Operations | Properties that make it correct |
|---|---|---|---|
| Research server (`orchestrator/server.ts`, `researchStore.ts`) | job map in memory, research rows in Postgres, open event streams | POST /research, GET /research/:id, /stream, /history, uploads, ask, table | a stream tells its job's own story, once and in order; the History holds finished briefs only; an answer goes back only when the process dies, and not for what is saved |
| Research page (`packages/web`) | what it shows, a request under way | poll, reload; load, generate and regenerate the table | it settles; its table is one of its own research |
| Pipeline driver (`orchestrator/pipeline/`) | place in the manifest, attempts | ingest loop, synthesis, phase events | a run ends; one call per document at a time |
| Query orchestration, Phase 1 (`phases/query-orchestration/`) | a cache of its own per run | guard, intent, compile | a model's failure does not end the run |
| Graph gateway, Phase 2 (`phases/open-graph-gateway/`) | process-wide circuit breaker per provider | search, time out, skip; normalize, deduplicate, cut | the circuit is open in an outage and only then; a DOI comes once, with all that is known under it |
| Re-ranking, Phase 3 (`services/ranking`) | none | score, sort, cut | nothing is read instead of a paper that ranks above it |
| Full-text resolution, Phase 4 (`phases/full-text-resolution/`) | worker pool and cursor, manifest, object vault | cache, Unpaywall, arXiv, download, put; upload | every paper once; pointers are real; uploads are found |
| Parsing service, Phase 5 (`parsing/`) | the shared claims collection, the process's memo of its dimension | ingest: parse, extract, delete, embed, ensure, upsert | claims are anchored, whole, and isolated by document |
| Chat and table (`parsing/app.py`, `store.py`) | the passages' collection, a cached table per research | replace a document's passages; search, grade, rewrite, answer or abstain; scroll, tabulate, cache | an answer and a table cite one state of their own papers; the chat abstains when it should, and only then |
| Synthesis, Phase 6 (`services/synthesis`) | none of its own | fetch findings, cluster, judge | it reads whole findings of its own project; no consensus is made up |
| Generation and weaving, Phase 7 (`phases/generation-citation-weaving/`) | sections, numbering | write, filter, retry, weave | every sentence sourced, every reference right |
| Outbound resilience (`orchestrator/util/resilience.ts`) | attempt, timers, signal | fetch, sleep, abort | bounded; an abort is final |
| LLM providers (`orchestrator/providers/`, `packages/shared/src/providers.ts`) | the round robin's next position | complete: one model after another | it fails only if every model has, and in bounded time |
| Configuration, contracts | none | formats | type declarations and settings |

**Interactions.** `server.ts` starts `runPipeline` without waiting for it and
keeps its events and end in the job map; pages poll it, streams read it on a
200 ms timer, and a brief's save is fire-and-forget. Every run of the process
shares one breaker per provider, one vault and one claims collection. The
driver calls the Python services through `resilientFetch`. FastAPI runs
`/ingest` in a thread pool, so a call the driver has given up on goes on beside
its successor.

**What is hard.** Callers that give up on calls which go on; calls of several
runs over one Qdrant collection that is dropped and created on a stale read; an
in-memory job map that dies with its process while pages poll it; a lock-free
worker pool; timers against late answers; a numbering that is rewritten while
the text is; text by a model that may write anything. The list, line by line,
is under `hazards` in `PROJECT.json`.

## 2. The modules

Each module models one component; one action is what the code does from one
await, or one request to another process, up to the next. Data is abstracted to
what the properties tell apart.

| Module | Models | Proofs |
|---|---|---|
| `ClaimIngest` | `POST /ingest` and the claims collection | `ClaimIngest_proofs` |
| `PipelineRun` | the Phase 5 loop and Phase 6 call of concurrent runs, over `ClaimIngest` | `PipelineRun_proofs` |
| `FullTextResolution` | Phase 4 over several runs of a query | `FullTextResolution_proofs` |
| `ResearchServer` | job map, streams, saves, pages, crashes | `ResearchServer_proofs` |
| `ResearchLifecycle` | what the server promises to whoever holds a research id (abstract) | refined by `ResearchServer` |
| `ProviderDispatch` | the breaker and the searches that share it | `ProviderDispatch_proofs` |
| `Discovery` | Phases 1 to 3 of a run, over `ProviderDispatch` | the same |
| `ResilientFetch` | one call of `resilientFetch`, with time | `ResilientFetch_proofs` |
| `LlmFailover` | a run's completions over a list of models, over `ResilientFetch` | the same |
| `CitationWeaving` | Phase 7 | with `Synthesis` |
| `Synthesis` | Phase 6, its caller's retries, and the graph it gives to `CitationWeaving` | `Synthesis_proofs` |
| `PassageChat` | the passages' collection and `POST /ask` | `PassageChat_proofs` |
| `PaperTable` | the table's component, routes, cache and scroll, over `PassageChat` | the same |

A module that EXTENDS another composes with it: it takes the other's actions as
they are and adds its own variables. The MC modules (`MCDiscovery` and the like)
only give the constants of the outermost module their values.

### ClaimIngest

A document is a pair of project and DOI; a stored point is a document and a
content, because the code derives a claim's id from both. `stored[d]` is the
points of `d`, `coll` the collection's dimension (0: missing), `dim` and `ready`
the process's embedding dimension and `_ready_dim`. A call goes through
`Receive`, `Parse`, `Extract`, `Delete`, `Embed`, `Ensure`, perhaps
`DropCollection` and `CreateCollection`, `Upsert`. The model may propose any
set of claims, `Kept` is the quote anchor and the class check. Any request but
those the code swallows errors of may fail; an answer can be lost after the
request took effect; `Restart` kills every call and may change the embedding
model. `Overlap` says which calls the environment may have in progress together.
The raw-passage collection, best-effort in the code, is in `PassageChat`; the
in-memory store of the tests is left out.

### PipelineRun

EXTENDS `ClaimIngest`, with every overlap allowed in the service. `Proceed` is
the body of `for (const entry of resolution.manifest)`: skip, cap, send.
`Answered` and `GiveUp` are the two ends of `postJson`, the second at any moment
(a timeout, a refused connection, a 500), and leaves the call where it is in the
service; a call that was sent may even arrive after its run is over.
`Synthesize` reads the findings of the run's project, and fails while there is
no collection. A run has a project of its own, which is what `server.ts:137`
gives a request that names none; a request that names the project of another
run leaves this model (and meets the finding of section 5). Phase 2 leaves a
paper once in a manifest, so a document has one place.

### FullTextResolution

The workers of `mapWithConcurrency`, the tracks of `resolveOne` as the requests
they await, the vault by `storageKey`. A run is followed by another run of the
query; an upload answers what a finished run has reported (`offered`), under the
key of that run, and may come while a later one is under way; `OtherSession` is a
concurrent run that puts the same paper. HEAD and PUT may fail, a PUT also after
it took effect. The upload is taken to be stored: one that fails is answered with
an error and changes nothing.

### ResearchServer and ResearchLifecycle

The promise chain at the end of `startJob` is one action (`End`), as nothing
interleaves with it. A save waits for the store's CREATE TABLE statements, then
an INSERT goes out and Postgres executes it, even for a client that has died. A
stream's timer callback, a page's poll and the answer to its database look-up
are actions; `Crash` empties the map and breaks streams. A poll that finds its job
in the map is one action with its answer (`Poll`), so that no older answer of the map
overtakes a newer one; only the look-up in the database takes time.
`ResearchLifecycle` has no memory, database or requests, only the current answer
for each id; the server implements it under the mapping `State`, `Present`, `db`.
What it promises is: while a process lives an answer only goes forward; a crash
takes back every answer that is not saved (so a brief its reader has seen may
become a 404, and be there again when a save that was on its way commits); what is
saved stays.

### ProviderDispatch and Discovery

`failures` and `left` are the breaker's count and the rest of `openUntil - now`;
the count stops at the threshold, a bound of the model: the code counts on, and
compares it with the threshold only.
`results` and `since` are history, from which the promise is stated. Searches of
several runs are sent, answered, timed out, or turned away; `refused` are those
whose query the provider will not take. A timer fires within its tick.

`Discovery` is one of these runs, from the question on. `Understand` ends with the
model's concepts, the words of the question, or neither; a query without concepts
compiles to an empty filter, which OpenAlex refuses, and the failure counts in
the breaker the other runs share (`Begin`). Every provider returns one of a few
sequences of records or nothing; a record has a DOI in one of the forms the
adapters meet, a paper (its fuzzy key: normalized title, author), lengths of its
texts and a citation count. `Collected` is the phase's pipeline in the code's order:
validate, deduplicate with `Merge`, sort, cut. `Rerank` gives any score to any
candidate, lists them in any order and keeps the best. A title is taken to tell
papers apart; which titles the normalization confuses is left out. A paper that
one graph has with a DOI and another without has two keys (`Key`), and the code
does not join them: `Represented` speaks of keys, and the run has such a paper.

### ResilientFetch and LlmFailover

`attempt`, the pending timer `due`, the caller's signal. Timers fire up to `Lag`
late, so an answer may beat an overdue timer. The timer covers a request up to
the response's headers, as in the code: **reading the body is not covered by any
timer of the code**; `CompleteEnds` rests on the body timeout of the platform's
`fetch`, and the bounds in time are of requests and pauses only.

`LlmFailover` makes such calls in turn. `CreateLLMProvider` reads the list of
models and the keys: one missing key makes the whole list unusable. `Complete`
takes the round robin's position before its first await, `ProviderThrows` goes
on to the next model, and `SdkContent` and `SdkThrows` are the vendor's library,
whose retries are its own. An empty list stands for the other callers of
`resilientFetch`, which make one call and may abort it.

### CitationWeaving and Synthesis

A sentence is the sequence of its tags, a text the sequence of its sentences;
the model writes any text within the bounds, invented tags included. The retry
of a section, the 30 % threshold, the filter, the summary, the numbering by
first appearance and the bibliography are modelled. Splitting prose into
sentences is not.

The graph that Phase 7 begins with (`Begin`) comes from `Synthesis`: `Fetch` reads
any of the findings, `Cluster` takes any partition of them, `Judge` gives a
cluster a polarity, by the model if it has two findings or more, as the code's
`Valid` reads what the model said, of all its findings (the code shows it the first
15). `Lost` is an attempt that failed for the orchestrator, which asks again up to
twice, or gives up at once. The weaver's counter, map and list are one sequence of
claims here (`biblio`), and `Number` is its inverse: that the three agree, as the
code updates them together, is taken from it.

### PassageChat and PaperTable

A passage is a document, a position and the ingest that wrote it, `chunks` the
collection of them. `Embed` to `Upsert` are the best-effort part of an ingest,
in which an error ends the part and not the ingest; `chunks` may have been wiped
by a drop, as in `ClaimIngest`. A question's `stage` is the next request of its
handler; the search and the re-ranking are one action, because only the first
reads the store, and it is assumed to read one state of it. What a search ranks
first, the grades and the numbers a grade lists are arbitrary. `Abandon` is the
client's failed or expired attempt; what the abandoned handler still does is of
no consequence, as it only reads. `looked` and `verdicts` are history, and so is
`overlaps`, the pairs of ingests of one document that were in progress together:
nothing in the service prevents it (`ingest.py:71-80`), and of `PipelineRun`, where
runs have projects of their own, only that one run does not do it follows. Ingests
that overlap may leave passages of both, each at positions of its own, until the
document is ingested again, and the properties say exactly that (`Coherent`).
`Before` are ingests that were over when the behaviour begins.

`PaperTable` adds the table, made of the same passages. `Mount` to `Disconnect` are
the React component, with its states; `Read`, `SaveTable`,
`Respond` and `Refuse` a handler of the orchestrator's POST, which goes on when its view
is left, and may save after a later one. A table is the set of passages it was
made from (none, or a sequence of one set), as what the model fills in is
arbitrary. The chat and the table only read the store, so that a behaviour has one
or the other (`reader`): every behaviour of each is there, without their product. The
scroll is taken to read all of a project's passages: its limits (1000 passages,
12 of a document) cut a large project's table without notice, and no property says otherwise.

## 3. What the runs check

| Run | Instance | Shows |
|---|---|---|
| `ingest` | 3 calls, 2 documents, 3 contents (one a hallucination), 2 embedding dimensions, all faults but lost deletions, one call per document at a time | `ClaimsAnchored`, `WholeOrNone`: claims are verbatim in their document, and those of one call or none; `SettledIsolation`: once the collection is settled a step touches its own document only |
| `ingest_overlap` | 2 calls on one document, no faults | **violated** `WholeOrNone`, section 5 |
| `ingest_first_calls` | 2 calls on 2 documents, fresh database, no faults | **violated** `NoEviction`, section 5 |
| `pipeline` | 2 runs, 5 documents, one without a file, one beyond the cap, one without claims | `UsesSerially`: the composition implements `ClaimIngest` with `Overlap = "documents"`; `GraphSound`, `AcknowledgedKept`: a synthesis reads whole findings of its own papers, all of the acknowledged ones; `EveryRunEnds` |
| `resolution` | 3 papers (arXiv, without DOI, publisher), 2 workers, 3 runs, uploads between and during them | `NoDoubleWork`, `Complete`, `PointersResolve`, `UploadHonouredByDoi` |
| `resolution_no_doi` | 2 papers, one without DOI | **violated** `UploadHonoured`, section 5 |
| `server` | 2 jobs, a stream, a page, crashes and failing inserts | `Chronicle`, `StreamFaithful`, `PageSettles`, `StreamEnds`, and `KeepsPromise`, the refinement of `ResearchLifecycle` |
| `dispatch` | 2 runs, one of them with 3 providers, which find 3 papers in 7 records (one of them with its DOI and without), or nothing; threshold, cooldown and timeout 2 | `OpenMeansOutage`, `Recovers`: the shared breaker; `DoiOnce`, `Represented`: what was found under a key, a DOI or else title and author, is a candidate with the best that is known under it, and yields only to candidates that outrank it; `Settles`: a run goes on without a provider that is down |
| `fetch` | lists of 1 or 2 models, 2 completions, or one plain call; 3 attempts, 6 `Retry-After` headers, timers up to 1 tick late | `CompleteBounded`, `StallsOnlyIfAll`: a completion takes bounded time and fails only if each model has failed it; `AbortIsFinal`, `NotTooSoon`; `CompleteEnds` |
| `weaving` | 3 findings in any partition, 1 invented tag, 2 sentences of 2 tags a section, 1 in the summary | `Sourced`, `ReferencesKept`, `FirstAppearance`; `NothingFabricated`: a sentence under the consensus cites a cluster that the model judged so, in the attempt that was answered |
| `chat` | a paper ingested twice, one after the other or together, one of another project that may be there from before; a question, or a view of the table with two POSTs, restarts; 2 positions a paper, 2 passages an answer | `Grounded`: an answer's citations were in the store together, and of a document from one ingest or from ingests in progress together; `AbstainsRightly`: it abstains exactly after two useless gradings, and no failing grader withholds an answer; `RowPerPaper`: the table has rows of its own papers only, as coherent as an answer; `ReadsEnd` |
| `chat_guess` | the same | **violated** `NeverGuesses`, section 5 |

Each run also checks the type invariant of its outermost module, except `ingest`
and `resolution`, whose type invariants are proved and whose variables the other
invariants pin down.

**Bounds.** In `ingest`, two calls suffice for a race and the third for a call
between the two; two dimensions give a change of the embedding model. In
`pipeline` the first manifest makes the loop skip, send, send and stop at the
cap; the second run shares the collection, with a paper without claims that
still deletes. `resolution` has more papers than workers, so the cursor passes
the end while a worker is busy. In `dispatch` both searches can be under way
when the circuit opens, and one that was sent before can close it; one paper is
in three providers' records with its DOI in three forms, one in two without any, one in one with and in another without,
and there are more candidates than the pool holds and more in the pool than
are read. In `fetch` a `Retry-After` is negative, zero, shorter and longer than
the cap, and a date in the past and in the future; the second completion begins at
another position of the list; a list mixes both kinds of provider, in either
order. In `weaving` three findings make a cluster of two beside a single one, and
one of three; they are interchangeable, hence the symmetry. In `chat` the second
ingest of the paper may come between the two searches or between two tables, or
beside the first, with fewer passages or others; the view can leave while a POST
works and send the other, so that either is cached or answered first; and there are
more candidates than an answer takes. The other project's paper was ingested before
(or is not there), as what it could do while in progress the other two do. In
`resolution` the third run is there for an upload made during the second.
`MaxRuns`, `MaxSentences`, `MaxTags`, `MaxSummary`, `MaxPassages`, `MaxRelevant`,
`Calls` are bounds of the models; `Threshold`, `TopCount`, `MaxCandidates` and their like
are the code's, made small. `CHECK_DEADLOCK FALSE` is used where every call,
run or paper may simply be finished.

**Fairness.** Only what the code's scheduler owes: timers fire and time passes
(`ResilientFetch`, `ProviderDispatch`, streams), an awaited call or statement
ends because it has a timeout (`ResearchServer`; in `Discovery` a search, in
`PaperTable` the page's GET and what a handler awaits after its read), the driver goes on
(`PipelineRun`, where giving up on a call is fair and nothing at all is assumed
of the services; likewise the chat's client, and `PaperTable`'s handler, for which
giving up is one of its fair ends). `LlmFailover` adds that a
body is read or breaks, see above, and that the vendor's library answers or
throws. Nobody has to post, connect, open a page, press a button or abort, no model has
to answer, and nothing is assumed of the re-ranking service. `ResearchServer`'s fairness of a
job rests on what `EveryRunEnds`, `Settles` and `CompleteEnds` show below it.

## 4. What is proved

For every value of the constants that meets the named assumptions
(`ConstantsOK`, `RunAssumption`, `ParameterAssumption`, `ChatAssumption`,
`DiscoveryAssumption`, `FailoverAssumption`, `TableAssumption`):

- **`ClaimIngest_proofs`**. `Traceability` (`ClaimsAnchored`) from the invariant
  that what a call has extracted is anchored in its document, under any faults
  and overlaps. `Idempotency` (`WholeOrNone`) when deletions are reliable and no
  two calls for one document overlap; it needs to know that a call past its
  deletion finds its document empty. Both conditions are necessary: without the
  second `ingest_overlap` refutes it. `Isolation` (`SettledIsolation`) is an
  action property, with the settled collection as its hypothesis. What
  `ingest_first_calls` refutes, `NoEviction`, holds with one embedding model and
  look-ups that do not fail if calls do not overlap (`SerialNoEviction`: a call at
  its drop then finds no collection, `AloneInv`); and if they do, from the moment
  the collection exists and no call is rebuilding it, for good, also through
  restarts (`FoundedForGood`). The danger is the first calls and nothing else.
- **`PipelineRun_proofs`**. `UsedSerially`: the composition refines
  `ClaimIngest` with `Overlap = "documents"`, although the service allows any
  overlap; the invariant is that a document has one call and only calls that
  were sent are under way, which is where `retries: 0` enters. `DocumentsWhole`
  needs no assumption on deletions, unlike `Idempotency`: a document is empty
  until its one call is over (`WrittenInv`), so that there is nothing a lost
  deletion could leave behind. `StepsBounded`: a run has a number of steps left
  (`Left`), which every step of the orchestrator for it decreases, no other step
  increases, and which is 0 exactly when it is over; that is what there is to
  prove of `EveryRunEnds` apart from fairness. `GraphCorrect`
  and `AcknowledgedCorrect` need more: a document's points are those of its call
  or none and none without a collection (`StoreInv`), what a run has read was in
  the store and its call extracts nothing any more (`GraphInv`), and a run that
  was not wiped still finds the claims of every call that ended well
  (`KeptInv`). They hold with lost deletions too.
- **`FullTextResolution_proofs`**. For any number of papers, workers and runs:
  `Distinct`, `Completeness`, `SingleAssignment`, `GoodPointers`, from the
  invariant that a paper below the cursor is on exactly one worker or settled;
  `UploadsFound` when HEAD does not fail.
- **`ResearchServer_proofs`**. `ReportsInOrder`, `HistorySound`,
  `StreamsFaithful`, and `PromisesKept`: the initial states and each step map to
  `ResearchLifecycle`, for any jobs, streams, pages and faults (the run has two
  of the five).
- **`ProviderDispatch_proofs`**. `BreakerCorrect`: the circuit is open exactly in
  an outage, from the invariant that the count is the failures since the last
  success. `SharedBreaker`: `Discovery` implements the breaker's specification, as its
  steps are the breaker's or leave it alone, and `SharedBreakerCorrect` follows:
  the records and queries of a run cannot upset it. Of the records themselves, for
  any providers and any records they return, `DoiOnceCorrect`,
  `RepresentedCorrect` and `DiscoveryTypeCorrect`. The argument: what the
  deduplication has made of a paper is the sum of its records so far, and no two
  results share a key (`Pooled`, kept by each step of the recursive function); a
  stable sort lists every index once and in descending rank, because the places it
  gives are an injection of a finite set into as many numbers (`OrderFacts`), so
  that the cut keeps the best (`PoolFacts`); and the stages of a run leave that alone
  (`RunInv`, which TLC checked first). A DOI appears once because equal DOIs have
  equal keys.
- **`ResilientFetch_proofs`**. Of one call: `BoundedCorrect` (`Bounded`) and
  `OutcomeCorrect` (`OutcomeIsLast`) for any retries, delays, headers and lag; the
  invariant bounds the clock by attempt and by what is pending. Of
  `LlmFailover`, for any list of models: `CompleteBoundedCorrect`, by adding what
  the earlier models' calls took (each at most `CallTime`), `StallsCorrect`, because the
  positions of the turns so far are those that failed and `N` turns visit all
  `N` positions, `FailoverAbortCorrect` and `FailoverPauseCorrect`.
- **`PassageChat_proofs`**, for `PaperTable` and with it the chat.
  `PaperAbstainsCorrect`, under all faults, from what a question has looked up
  and been told at each request (`TrailOf`). `PaperGroundedCorrect` and
  `RowPerPaperCorrect` when deletions are reliable, for ingests that overlap in any
  way: an ingest past its deletion finds passages of its document only from ingests
  it was in progress together with (`StoreInv`), and writes over those at its own
  positions, so the store is `Coherent`; `overlaps` only grows, so it stays so;
  what a handler goes on with is part of one of its searches (`SourceOf`), and
  so is every table read, cached or shown. Type correctness itself needs
  `HasHits`, because a grade's numbers are looked up in the passages.
- **`Synthesis_proofs`**, for any findings. `EarnedCorrect`: a brief has a section of consensus or of conflicts only
  if the model judged a cluster of several findings to be just that. Of the
  brief, for any sentences with any tags, `SourcedCorrect`, `ReferencesCorrect`,
  `NumberingCorrect` and `NothingFabricatedCorrect`: the filter keeps the
  sentences that may stay and no others (`Select`); the bibliography grows by a claim
  when it is first cited and never otherwise (`Bibliography`), so that a number is a
  position in it and the positions follow the first appearances (`BriefInv`).

Each also proves type correctness. With the conditions named above, every safety and
action property of every passing run is proved for all constants. `CitationWeaving`
and `Discovery` state their filter, numbering and deduplication as recursive
functions on initial segments. The induction about them is not the library's, whose
theorems have an operator as a parameter: it is over a *set* of numbers, by the
least number outside it (`Least`, `Induction`), and such a function exists because
finite chains of its steps do (`Chain`, `ChainExists`).

**Only model-checked**: the liveness properties (`PageSettles`, `StreamEnds`, `Recovers`,
`Settles`, `CompleteEnds`, `EveryRunEnds`, `ReadsEnd`), because fairness and ENABLED are
outside the prover. Of three loops the half that is not fairness is proved: a measure
(`Left`) that their own steps decrease and no other step increases (`StepsBounded`
of the driver, `WorkBounded` of a Phase 4 worker in one run of it, `AskBounded` of a
question). They bound the steps; that the steps are taken is for TLC and the fairness.
**Only proved**, and in no passing run: `WrittenOnce`, `HistoryIsBriefs`, `OutcomeIsLast`,
`Bounded`, `Earned`, `NoEviction` under its conditions and the three measures.

## 5. Disagreements found

- `parsing/ingest.py:90`: deletion, embedding and upsert are not one step, so
  two calls on one document can leave a mixture of their claims, where the
  comment above says that a re-run "converges on exactly the current set"
  (`ingest_overlap`). The driver avoids it within a run (`UsesSerially`); two
  runs that name one project do not.
- `parsing/store.py:85`: the first calls on a fresh database can wipe one
  another's documents when they both create the collection, where
  `test_idempotency.py:96` has that ingesting one document must not evict
  another's claims (`ingest_first_calls`). `pipeline` records such a drop in
  `wiped`, and `AcknowledgedKept` excepts the runs it hit.
- `full-text-resolution/storage.ts:20`: an uploaded paper without a DOI is not
  found again, as its key is an id that each search makes up (`server.ts:293`
  says that a re-run finds it; `resolution_no_doi`).
- `parsing/app.py:309`: when the grader finds the passages useless and the
  rewritten query fails or is the same, the answer is made from those passages
  (and also when the second search finds nothing, `app.py:319`), where
  `README.md:88-90` has "one corrective retry with a reworded query, or **abstain**
  instead of guessing" (`chat_guess`).

Also met while modelling, and not refuted by a run:

- Claims and synthesis. A run on a fresh database whose papers yield no claims
  fails in Phase 6, because the collection it reads does not exist
  (`services/synthesis/udaan_synthesis/source.py:43`); a scroll there returns at most 10,000 findings. A judge sees the
  first 15 findings of a cluster only (`synthesize.py:41`). A cluster the model calls
  noise gets no section, silently (`generation-citation-weaving/generate.ts:17`).
- Search. A paper with a DOI in one graph and without in another stays two
  candidates (`phases/open-graph-gateway/dedupe.ts:31-32`). A question of which no concept is left compiles to a filter that OpenAlex refuses, and
  the refusal counts in the breaker all runs share.
- Models. One missing key makes a list of models unusable, although the others have theirs
  (`packages/shared/src/providers.ts:122`).
- Chat. A search that fails reads as "no passages"; a grade that repeats a number
  repeats a citation; and two ingests of one document that overlap (two runs that
  name one project, the first of which gave up on its call) may leave a mixture of
  their passages (`parsing/ingest.py:77`).
- Brief. A sentence with one valid and one invented tag stays
  (`generation-citation-weaving/filter.ts:32`) and the weaver removes the invented
  one, where `docs/phase-7-generation-and-citation-weaving.md:90` says that the
  sentence is dropped.
- Table. A scroll that fails reads as a project without papers (`parsing/store.py:345`),
  the empty table is cached, and the view of it has no button to make another
  (`packages/web/src/components/ExtractionTable.tsx:74`). A failed save is
  swallowed, and overlapping saves end in any order.
- Server and page. When the CREATE TABLE statements fail, every later save and read of
  the process does (`orchestrator/researchStore.ts:53`). One failed poll makes the page give up on
  a run that goes on (`packages/web/src/pages/ResearchDetailPage.tsx:40`). A POST that
  fails on its configuration (`orchestrator/server.ts:78`) leaves a job that never ends. A crash
  or a failing insert between the end of a run and the commit loses a brief that was shown
  (`orchestrator/server.ts:92`). Jobs
  are never removed from the map and nothing states a bound for it.

## 6. Not modelled, and why

- The parser (`parsing/parser.py` and the hosted one): text layout without state.
- The wording of prompts, queries and briefs, the splitting of prose, URLs, and
  which partition an embedding yields. What a language model or a service answers
  is an arbitrary choice wherever it is used.
- The probing of the services' declared quality (`orchestrator/pipeline/clients.ts:125`):
  a report to the reader that nothing depends on. Its plain `fetch` has only the
  platform's timeout.
- The chat's thread in the browser (`ChatPanel.tsx`), the upload form, the History page and
  all rendering: the routes behind them are modelled.
- The Python services' own clients of language and embedding models: their
  failures are those of the requests they serve.
- Configuration, beyond the list of models, and the contracts: declarations. A store that
  throws as it is created (`orchestrator/server.ts:93`), which would set a job's error beside
  its result, is a configuration that is not valid.
- The lazy creation of a Python process's dependencies by concurrent first requests
  (`parsing/app.py:46`): a request that finds them half made fails, as one of the model's
  faults; and two that both make them have a store each, with a memo of its own, where the model has one.

## 7. Plan

Done, in the order of importance: the shared claims collection, Phase 4, the
server and its promise, the breaker, Phase 7, outbound calls, the composition of
Phases 5 and 6, the chat; then Phases 1 to 3 over the breaker, the failover of the
language models, Phase 6 before Phase 7, and the table. Left:

1. `Embed` and `Upsert` of `PassageChat` composed with `ClaimIngest`, so that the
   two collections of one ingest can be compared.
2. The Python services' model clients and their retries, in the way of `LlmFailover`.
3. The chat's thread in the browser: a question asked while another is answered.
4. Proofs: an abstract specification of the claims collection, a document's claims
   replaced in one step, which `ClaimIngest` implements when it is used serially; the
   measure of the server's streams and pages.
