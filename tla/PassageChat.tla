---------------------------- MODULE PassageChat ----------------------------
(***************************************************************************)
(* The chat with the papers behind a brief: the second collection of the   *)
(* parsing service, which holds the raw passages of each document, the     *)
(* part of an ingest that replaces them, and POST /ask, which searches     *)
(* them, has a language model grade what it found, searches once more if   *)
(* that was no use, and answers with citations or abstains.                *)
(*                                                                         *)
(* A passage is a document, a position in it and the ingest that wrote it; *)
(* its id in the store is derived from the first two.  What a question     *)
(* finds first, and what the models say, is arbitrary.  Each request to    *)
(* Qdrant or to a model is one action, and questions, which only read,     *)
(* interleave with ingests of the documents they are about.  Nothing keeps *)
(* two ingests of one document apart: a second run that names the project  *)
(* may send one while an ingest that the first gave up on goes on.  There  *)
(* is one embedding model; ClaimIngest has its change, of the same code.   *)
(***************************************************************************)
EXTENDS Naturals, FiniteSets, Sequences, SequencesExt, FiniteSetsExt

CONSTANTS
  Docs,         \* the documents
  Project,      \* Project[d]: the project of d
  Writes,       \* the ingests, as far as they store passages
  WriteDoc,     \* WriteDoc[w]: the document of w
  Before,       \* those of them that were over before the behaviour begins
  MaxPassages,  \* bound: passages of a document
  Asks,         \* the questions
  AskProject,   \* AskProject[a]: the project a is asked about
  TopK,         \* how many passages an answer is given (top_k, clamped to 1..12)
  CandidateK,   \* how many the vector search returns, CHAT_CANDIDATE_K
  MaxRelevant,  \* bound: numbers a grade lists
  CragEnabled,  \* ENABLE_CRAG
  Faults        \* a subset of FaultPoints

FaultPoints == {"delete", "lookup", "drop", "create", "upsert", "search", "crash"}

Positions == 1..MaxPassages
Passages == Docs \X Positions \X Writes

ASSUME ChatAssumption ==
  /\ WriteDoc \in [Writes -> Docs]
  /\ Before \subseteq Writes
  /\ \A v, w \in Before : WriteDoc[v] = WriteDoc[w] => v = w
  /\ MaxPassages \in Nat /\ MaxRelevant \in Nat
  /\ TopK \in Nat \ {0} /\ CandidateK \in Nat \ {0}
  /\ CragEnabled \in BOOLEAN
  /\ Faults \subseteq FaultPoints

VARIABLES
  chunks,   \* the passages in the collection
  coll,     \* the collection exists
  ready,    \* QdrantChunkStore._ready_dim of the running process is set
  pc,       \* the next request of each ingest's passage part
  parsed,   \* the positions it has passages with a vector for
  overlaps, \* history: the pairs of ingests of one document in progress together
  stage,    \* the next request of each question's handler
  try,      \* the attempts the orchestrator has made of a question
  hits,     \* the passages the handler goes on with
  reply,    \* what the orchestrator got in the end
  looked,   \* history: the project's passages at each search of the attempt
  verdicts  \* history: the grades the model gave in the attempt

store == <<chunks, coll, ready>>
ingest == <<pc, parsed, overlaps>>
ask   == <<stage, try, hits, reply, looked, verdicts>>
vars  == <<store, ingest, ask>>

Writing == {"delete", "ensure", "drop", "create", "upsert"}
Handling == {"search", "grade", "rewrite", "search again", "grade again", "answer"}
Grades == {"correct", "ambiguous", "incorrect"}

ToWrite(w) == pc[w] \in Writing
Asking(a) == stage[a] \in Handling \cup {"lost"}

PassagesOf(d) == {p \in chunks : p[1] = d}

\* The service starts without a collection, or with what earlier ingests left in it.
Init ==
  /\ \/ chunks = {} /\ coll = FALSE
     \/ chunks = {p \in Passages : p[3] \in Before /\ p[1] = WriteDoc[p[3]]} /\ coll = TRUE
  /\ ready = FALSE
  /\ pc = [w \in Writes |-> IF w \in Before THEN "gone" ELSE "idle"]
  /\ parsed = [w \in Writes |-> {}]
  /\ overlaps = {}
  /\ stage = [a \in Asks |-> "idle"]
  /\ try = [a \in Asks |-> 0]
  /\ hits = [a \in Asks |-> <<>>]
  /\ reply = [a \in Asks |-> "none"]
  /\ looked = [a \in Asks |-> <<>>]
  /\ verdicts = [a \in Asks |-> <<>>]

-----------------------------------------------------------------------------
(* Ingests: best-effort, so any failure just ends this part of them. *)

Goto(w, label) == pc' = [pc EXCEPT ![w] = label]

\* The part is over, and what it was about to write is forgotten.
Gone(w) == Goto(w, "gone") /\ parsed' = [parsed EXCEPT ![w] = {}]

Fails(w, fault) == fault \in Faults /\ Gone(w) /\ UNCHANGED store

\* The ingests of w's document that are in progress.
Beside(w) == {v \in Writes : ToWrite(v) /\ WriteDoc[v] = WriteDoc[w]}

\* The passages are parsed and embedded.
Embed(w) ==
  /\ pc[w] = "idle"
  /\ overlaps' = overlaps \cup {{v, w} : v \in Beside(w)}
  /\ \E ps \in SUBSET Positions : parsed' = [parsed EXCEPT ![w] = ps]
  /\ Goto(w, "delete")
  /\ UNCHANGED <<store, ask>>

\* Mutant: the document's old passages are left to be overwritten.
Delete_Nothing(w) ==
  /\ pc[w] = "delete"
  /\ Goto(w, IF parsed[w] = {} THEN "gone" ELSE "ensure")
  /\ UNCHANGED <<store, parsed, overlaps, ask>>

\* delete_document_chunks, which swallows its errors.
Delete(w) ==
  /\ pc[w] = "delete"
  /\ \/ chunks' = chunks \ PassagesOf(WriteDoc[w])
     \/ "delete" \in Faults /\ UNCHANGED chunks
  /\ Goto(w, IF parsed[w] = {} THEN "gone" ELSE "ensure")
  /\ UNCHANGED <<coll, ready, parsed, overlaps, ask>>

Ensure(w) ==
  /\ pc[w] = "ensure"
  /\ \/ /\ ready \/ coll
        /\ ready' = TRUE
        /\ Goto(w, "upsert")
     \/ /\ ~ready
        /\ ~coll \/ "lookup" \in Faults
        /\ Goto(w, "drop")
        /\ UNCHANGED ready
  /\ UNCHANGED <<chunks, coll, parsed, overlaps, ask>>

DropCollection(w) ==
  /\ pc[w] = "drop"
  /\ \/ coll' = FALSE /\ chunks' = {}
     \/ "drop" \in Faults /\ UNCHANGED <<coll, chunks>>
  /\ Goto(w, "create")
  /\ UNCHANGED <<ready, parsed, overlaps, ask>>

CreateCollection(w) ==
  /\ pc[w] = "create"
  /\ \/ ~coll /\ coll' = TRUE /\ ready' = TRUE /\ Goto(w, "upsert") /\ UNCHANGED <<chunks, parsed>>
     \/ coll /\ Gone(w) /\ UNCHANGED store
     \/ Fails(w, "create")
  /\ UNCHANGED <<overlaps, ask>>

\* The points at the positions parsed are written over; those at others stay.
Upsert(w) ==
  /\ pc[w] = "upsert"
  /\ \/ /\ coll
        /\ chunks' = {p \in chunks : p[1] # WriteDoc[w] \/ p[2] \notin parsed[w]}
                       \cup ({WriteDoc[w]} \X parsed[w] \X {w})
        /\ Gone(w)
        /\ UNCHANGED <<coll, ready>>
     \/ ~coll /\ Gone(w) /\ UNCHANGED store
     \/ Fails(w, "upsert")
  /\ UNCHANGED <<overlaps, ask>>

Write(w) ==
  \/ Embed(w) \/ Delete(w) \/ Ensure(w) \/ DropCollection(w)
  \/ CreateCollection(w) \/ Upsert(w)

-----------------------------------------------------------------------------
(* Questions *)

AskRetries == 1

OfProject(a) == {p \in chunks : Project[p[1]] = AskProject[a]}

\* The passages the query_filter of a search lets through.
Searched(a) == OfProject(a)

\* What a search and the re-ranking of its candidates leave: passages, each once,
\* best first, and all of them unless there are too many.
Ranked(a) ==
  LET n == Min({TopK, CandidateK})
  IN  {s \in BoundedSeq(Searched(a), n) :
         IsInjective(s) /\ (Len(s) = n \/ ToSet(s) = Searched(a))}

\* Any error of the search, a missing collection included, reads as no passages.
Found(a) == Ranked(a) \cup (IF coll /\ "search" \notin Faults THEN {} ELSE {<<>>})

Look(a) == looked' = [looked EXCEPT ![a] = Append(@, OfProject(a))]

To(a, next) == stage' = [stage EXCEPT ![a] = next]

Reply(a, answer) ==
  /\ reply' = [reply EXCEPT ![a] = answer]
  /\ To(a, "done")

\* POST /research/:id/ask.  The follow-up's rewriting fails open and only
\* changes the query.
Ask(a) ==
  /\ stage[a] = "idle"
  /\ To(a, "search")
  /\ try' = [try EXCEPT ![a] = 1]
  /\ UNCHANGED <<store, ingest, hits, reply, looked, verdicts>>

Search(a) ==
  /\ stage[a] = "search"
  /\ Look(a)
  /\ \E found \in Found(a) :
       /\ hits' = [hits EXCEPT ![a] = found]
       /\ \/ found = <<>> /\ Reply(a, "no passages")
          \/ found # <<>> /\ To(a, IF CragEnabled THEN "grade" ELSE "answer") /\ UNCHANGED reply
  /\ UNCHANGED <<store, ingest, try, verdicts>>

\* The passages a grade lists as relevant, by number, or all of them when it
\* lists none there is.
Relevant(a) ==
  {hits[a]} \cup
    {[k \in DOMAIN r |-> hits[a][r[k]]] : r \in BoundedSeq(DOMAIN hits[a], MaxRelevant) \ {<<>>}}

\* Mutant: a grade that cannot be read counts as "incorrect".
Judged_Closed(grade) == IF grade = "none" THEN "incorrect" ELSE grade

\* The grader fails open: when the model fails or its answer cannot be read, the
\* passages are taken to be good.
Judged(grade) == IF grade = "none" THEN "correct" ELSE grade

\* The model grades the passages; the next request depends on whether they are of use.
Judge(a, grade) ==
  /\ verdicts' = [verdicts EXCEPT ![a] = IF grade = "none" THEN @ ELSE Append(@, grade)]
  /\ \E relevant \in IF Judged(grade) = "ambiguous" THEN Relevant(a) ELSE {hits[a]} :
       hits' = [hits EXCEPT ![a] = relevant]

Grade(a) ==
  /\ stage[a] = "grade"
  /\ \E grade \in Grades \cup {"none"} :
       /\ Judge(a, grade)
       /\ To(a, IF Judged(grade) = "incorrect" THEN "rewrite" ELSE "answer")
  /\ UNCHANGED <<store, ingest, try, reply, looked>>

\* The query is rewritten; if that fails or changes nothing, the passages found
\* have to do.
Rewrite(a) ==
  /\ stage[a] = "rewrite"
  /\ To(a, "search again") \/ To(a, "answer")
  /\ UNCHANGED <<store, ingest, try, hits, reply, looked, verdicts>>

\* The second search, whose passages replace those of the first if there are any.
SearchAgain(a) ==
  /\ stage[a] = "search again"
  /\ Look(a)
  /\ \E found \in Found(a) :
       \/ found = <<>> /\ To(a, "answer") /\ UNCHANGED hits
       \/ found # <<>> /\ To(a, "grade again") /\ hits' = [hits EXCEPT ![a] = found]
  /\ UNCHANGED <<store, ingest, try, reply, verdicts>>

GradeAgain(a) ==
  /\ stage[a] = "grade again"
  /\ \E grade \in Grades \cup {"none"} :
       /\ Judge(a, grade)
       /\ \/ Judged(grade) = "incorrect" /\ Reply(a, "abstained")
          \/ Judged(grade) # "incorrect" /\ To(a, "answer") /\ UNCHANGED reply
  /\ UNCHANGED <<store, ingest, try, looked>>

\* The model answers from the passages, which are the citations.
Answer(a) ==
  /\ stage[a] = "answer"
  /\ Reply(a, "answered")
  /\ UNCHANGED <<store, ingest, try, hits, looked, verdicts>>

\* Mutant: one attempt too many.
Abandon_OneMore(a) ==
  /\ Asking(a)
  /\ hits' = [hits EXCEPT ![a] = <<>>]
  /\ looked' = [looked EXCEPT ![a] = <<>>]
  /\ verdicts' = [verdicts EXCEPT ![a] = <<>>]
  /\ \/ /\ try[a] <= AskRetries + 1
        /\ try' = [try EXCEPT ![a] = @ + 1]
        /\ To(a, "search")
        /\ UNCHANGED reply
     \/ Reply(a, "unavailable") /\ UNCHANGED try
  /\ UNCHANGED <<store, ingest>>

\* The attempt fails for the orchestrator: the query's embedding or the answer
\* raises, the service is gone, or 60 seconds have passed.  It asks once more, unless
\* it has, or the answer is one that is not asked for again; an abandoned handler,
\* which only reads, is of no further consequence.
Abandon(a) ==
  /\ Asking(a)
  /\ hits' = [hits EXCEPT ![a] = <<>>]
  /\ looked' = [looked EXCEPT ![a] = <<>>]
  /\ verdicts' = [verdicts EXCEPT ![a] = <<>>]
  /\ \/ /\ try[a] <= AskRetries
        /\ try' = [try EXCEPT ![a] = @ + 1]
        /\ To(a, "search")
        /\ UNCHANGED reply
     \/ Reply(a, "unavailable") /\ UNCHANGED try
  /\ UNCHANGED <<store, ingest>>

Chat(a) ==
  \/ Ask(a) \/ Search(a) \/ Grade(a) \/ Rewrite(a) \/ SearchAgain(a)
  \/ GradeAgain(a) \/ Answer(a) \/ Abandon(a)

\* The service dies and is started again.
Restart ==
  /\ "crash" \in Faults
  /\ ready' = FALSE
  /\ pc' = [w \in Writes |-> IF ToWrite(w) THEN "gone" ELSE pc[w]]
  /\ parsed' = [w \in Writes |-> {}]
  /\ stage' = [a \in Asks |-> IF stage[a] \in Handling THEN "lost" ELSE stage[a]]
  /\ UNCHANGED <<chunks, coll, overlaps, try, hits, reply, looked, verdicts>>

Next ==
  \/ Restart
  \/ \E w \in Writes : Write(w)
  \/ \E a \in Asks : Chat(a)

\* Only the orchestrator's timer is fair: a handler may hang for ever.
Spec == Init /\ [][Next]_vars /\ \A a \in Asks : WF_vars(Abandon(a))

-----------------------------------------------------------------------------
(* Properties *)

TypeOK ==
  /\ chunks \subseteq Passages
  /\ coll \in BOOLEAN
  /\ ready \in BOOLEAN
  /\ pc \in [Writes -> Writing \cup {"idle", "gone"}]
  /\ parsed \in [Writes -> SUBSET Positions]
  /\ overlaps \subseteq SUBSET Writes
  /\ stage \in [Asks -> Handling \cup {"idle", "lost", "done"}]
  /\ try \in [Asks -> 0..(AskRetries + 1)]
  /\ hits \in [Asks -> Seq(Passages)]
  /\ reply \in [Asks -> {"none", "answered", "abstained", "no passages", "unavailable"}]
  /\ looked \in [Asks -> Seq(SUBSET Passages)]
  /\ verdicts \in [Asks -> Seq(Grades)]

\* Of a document, S has the passages of one ingest, or of ingests that were in
\* progress together, and then of one of them at each position.
Coherent(S) ==
  \A p, q \in S : p[1] = q[1] /\ p[3] # q[3] =>
    p[2] # q[2] /\ {p[3], q[3]} \in overlaps

\* What an answer cites was, all of it, in the store under the question's project
\* at one and the same moment of the question, and of one ingest of each document:
\* neither the passages of the two searches nor those of an ingest and of a later
\* one are mixed.  Only ingests of a document that were in progress together, which
\* nothing prevents, may have left passages of both, each at positions of its own;
\* the next ingest of the document that overlaps neither clears that up.
Grounded ==
  \A a \in Asks : reply[a] = "answered" =>
    /\ hits[a] # <<>>
    /\ \E n \in DOMAIN looked[a] : ToSet(hits[a]) \subseteq looked[a][n]
    /\ Coherent(ToSet(hits[a]))

\* app.py:251: an answer is never blocked by the grader's failures, and there is at
\* most one corrective retry: the chat abstains when and only when two gradings, of
\* two searches, came back "incorrect", and says that there are no passages only
\* when its first search found none.  That it also answers when there was nothing
\* better than passages graded useless is as the code has it (NeverGuesses).
AbstainsRightly ==
  \A a \in Asks : stage[a] = "done" =>
    /\ reply[a] = "abstained" <=> verdicts[a] = <<"incorrect", "incorrect">>
    /\ reply[a] = "abstained" => Len(looked[a]) = 2
    /\ reply[a] = "answered" /\ Len(looked[a]) = 2 => verdicts[a][1] = "incorrect"
    /\ reply[a] = "no passages" => Len(looked[a]) = 1

\* README.md:89: after the corrective retry the chat has found something better, or
\* it abstains "instead of guessing": no answer is made from the passages of the only
\* search when the model graded those useless.
NeverGuesses ==
  \A a \in Asks : reply[a] = "answered" /\ Len(looked[a]) = 1 => verdicts[a] # <<"incorrect">>

\* A question comes to an end, whatever the store and the models do.
AskEnds == \A a \in Asks : stage[a] = "search" ~> stage[a] = "done"
=============================================================================
