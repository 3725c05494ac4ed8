----------------------------- MODULE Discovery -----------------------------
(***************************************************************************)
(* Phases 1 to 3 of one run: a question becomes a query, the academic      *)
(* graphs are searched, their records are merged into a pool of candidates *)
(* and the re-ranking service picks the papers to read.  One provider is   *)
(* searched through the circuit breaker of ProviderDispatch, which the     *)
(* run shares with others; what the rest return, or that they return       *)
(* nothing, is arbitrary.                                                  *)
(*                                                                         *)
(* Of a record's texts only the length matters here, which is what a merge *)
(* compares; a paper's fuzzy key (its title and first author, normalized)  *)
(* is a value of its own.                                                  *)
(***************************************************************************)
EXTENDS ProviderDispatch, FiniteSets, SequencesExt, FiniteSetsExt

CONSTANTS
  Run,           \* the search of the run modelled
  Providers,     \* the adapters, in their order
  Ours,          \* the one ProviderDispatch models, which is OpenAlex
  Papers,        \* fuzzy keys
  Returns,       \* Returns[p]: what p may find, sequences of records
  Scores,        \* relevance scores
  RelevanceFloor, MaxCandidates, TopCount,   \* RELEVANCE_FLOOR, MAX_CANDIDATES, TOP_K
  MinAbstract    \* MIN_ABSTRACT_LENGTH

Fields == {"title", "abstract", "authors"}
Doi == [name : STRING, form : {"bare", "url", "upper"}]
NoDoi == [name |-> "", form |-> "bare"]

\* CandidatePaper
Record ==
  [doi : Doi, paper : Papers, dated : BOOLEAN, cites : Nat,
   length : [Fields -> Nat], providers : SUBSET ToSet(Providers)]

ASSUME DiscoveryAssumption ==
  /\ Run \in Searches
  /\ Providers \in Seq(ToSet(Providers)) /\ Ours \in ToSet(Providers)
  /\ \A p \in ToSet(Providers) : Returns[p] \subseteq Seq(Record)
  /\ Scores \cup {RelevanceFloor, MaxCandidates, TopCount, MinAbstract} \subseteq Nat

VARIABLES
  stage,   \* what the run does next
  terms,   \* where the concepts of its query come from, once it is compiled
  found,   \* found[p]: the records of p as the run got them, once p's search has ended
  pool,    \* the candidates
  score,   \* history: the score of each candidate
  ranked   \* the ranked manifest

run == <<stage, terms, found, pool, score, ranked>>
all == <<vars, run>>

Others == ToSet(Providers) \ {Ours}
DiscoveryTypeOK ==
  /\ TypeOK
  /\ stage \in {"asked", "search", "rank", "done", "rejected", "failed"}
  /\ terms \in {"none yet", "model", "words", "none"}
  /\ DOMAIN found \subseteq ToSet(Providers)
  /\ Len(pool) <= MaxCandidates
  /\ score = <<>> \/ score \in [DOMAIN pool -> Scores]
  /\ Len(ranked) <= TopCount /\ ToSet(ranked) \subseteq ToSet(pool)

DiscoveryInit ==
  /\ Init
  /\ stage = "asked"
  /\ terms = "none yet"
  /\ found = <<>>
  /\ pool = <<>>
  /\ score = <<>>
  /\ ranked = <<>>

----------------------------------------------------------------------------
(* Phase 1 *)

\* The guard turns the question down, by its length or its wording.
Reject ==
  /\ stage = "asked"
  /\ stage' = "rejected"
  /\ UNCHANGED <<vars, terms, found, pool, score, ranked>>

\* extractIntent: the model's concepts, or else the words of the question, if the
\* tokenizer leaves any.  The query cache is new in every run and never hits.
Understand ==
  /\ stage = "asked"
  /\ terms' \in {"model", "words", "none"}
  /\ stage' = "search"
  /\ UNCHANGED <<vars, found, pool, score, ranked>>

----------------------------------------------------------------------------
(* Phase 2: the search of every provider, at the same time *)

Got(p, records) ==
  found' = [q \in DOMAIN found \cup {p} |-> IF q = p THEN records ELSE found[q]]

\* The filter is compiled of the concepts alone: without any, OpenAlex refuses it,
\* while the others are asked with the question itself.
Begin ==
  /\ ~Sent(Run)
  /\ \/ /\ Send(Run)
        /\ terms = "none" => Run \in refused'
        /\ UNCHANGED found
     \/ Skip(Run) /\ Got(Ours, <<>>)

\* The adapter's toCandidate leaves a DOI in its bare form; mutant: as it is.
NormalizeDoi_AsIs(doi) == doi
NormalizeDoi(doi) == [doi EXCEPT !.form = "bare"]

Candidates(records) == [i \in DOMAIN records |-> [records[i] EXCEPT !.doi = NormalizeDoi(@)]]

SearchOurs ==
  /\ stage = "search"
  /\ Ours \notin DOMAIN found
  /\ \/ Begin
     \/ Succeed(Run) /\ \E records \in Returns[Ours] : Got(Ours, Candidates(records))
     \/ Fail(Run) /\ Got(Ours, <<>>)
  /\ UNCHANGED <<stage, terms, pool, score, ranked>>

\* Another provider answers, fails, is abandoned or is not asked.
SearchOther(p) ==
  /\ stage = "search"
  /\ p \notin DOMAIN found
  /\ \E records \in Returns[p] \cup {<<>>} : Got(p, Candidates(records))
  /\ UNCHANGED <<vars, stage, terms, pool, score, ranked>>

----------------------------------------------------------------------------
(* Phase 2: normalization, entity resolution and truncation *)

\* isValidCandidate
Valid(r) ==
  r.length["title"] > 0 /\ r.length["abstract"] >= MinAbstract /\ r.dated

\* What tells papers apart: the DOI or else, of a record without one, the fuzzy key.
Key(r) ==
  IF NormalizeDoi(r.doi) # NoDoi THEN <<"doi", NormalizeDoi(r.doi)>> ELSE <<"fuzzy", r.paper>>

Larger(m, n) == IF m >= n THEN m ELSE n

MergePair(a, b) ==
  [a EXCEPT !.length = [f \in Fields |-> Larger(a.length[f], b.length[f])],
            !.cites = Larger(a.cites, b.cites),
            !.providers = a.providers \cup b.providers]

\* One round of deduplicate's loop: the Map keeps its keys in the order they came.
Merge(merged, r) ==
  LET same == {i \in DOMAIN merged : Key(merged[i]) = Key(r)}
  IN  IF same = {} THEN Append(merged, r)
      ELSE [i \in DOMAIN merged |-> IF i \in same THEN MergePair(merged[i], r) ELSE merged[i]]

Deduplicate(records) ==
  LET merged[n \in 0 .. Len(records)] ==
        IF n = 0 THEN <<>> ELSE Merge(merged[n - 1], records[n])
  IN  merged[Len(records)]

\* The indices of I as a stable sort lists them, the highest rank first.
Order(I, rank) ==
  LET before(i) == {j \in I : rank[j] > rank[i] \/ (j < i /\ rank[j] = rank[i])}
  IN  [k \in 1 .. Cardinality(I) |-> CHOOSE i \in I : Cardinality(before(i)) = k - 1]

\* The elements of s with their index in I, the highest rank first.
Ordered(s, I, rank) == LET order == Order(I, rank) IN [k \in DOMAIN order |-> s[order[k]]]

ByCitations(records) ==
  Ordered(records, DOMAIN records, [i \in DOMAIN records |-> records[i].cites])

DropInvalid(records) ==
  LET kept == {i \in DOMAIN records : Valid(records[i])} IN Ordered(records, kept, [i \in kept |-> 0])

\* The records of all providers, in the adapters' order.
Batch ==
  LET upTo[k \in 0 .. Len(Providers)] ==
        IF k = 0 THEN <<>> ELSE upTo[k - 1] \o found[Providers[k]]
  IN  upTo[Len(Providers)]

First(n, s) == SubSeq(s, 1, IF Len(s) < n THEN Len(s) ELSE n)

\* Mutant: the pool is cut before it is sorted.
Collected_CutFirst == ByCitations(First(MaxCandidates, Deduplicate(DropInvalid(Batch))))

Collected == First(MaxCandidates, ByCitations(Deduplicate(DropInvalid(Batch))))

\* Every provider has answered or was given up on.
Collect ==
  /\ stage = "search"
  /\ ToSet(Providers) = DOMAIN found
  /\ pool' = Collected
  /\ stage' = "rank"
  /\ UNCHANGED <<vars, terms, found, score, ranked>>

----------------------------------------------------------------------------
(* Phase 3 *)

\* Mutant: the list is not cut.
Stratify_All(scored) ==
  LET relevant == {i \in DOMAIN scored : scored[i].score >= RelevanceFloor}
  IN  Ordered(scored, relevant, [i \in relevant |-> scored[i].score])

\* stratify: the best first, in the order given if equal, from the floor up, and not
\* too many.
Stratify(scored) ==
  LET relevant == {i \in DOMAIN scored : scored[i].score >= RelevanceFloor}
  IN  First(TopCount, Ordered(scored, relevant, [i \in relevant |-> scored[i].score]))

\* The service's model scores every candidate, and lists them in an order of its own.
Rerank ==
  /\ stage = "rank"
  /\ score' \in [DOMAIN pool -> Scores]
  /\ \E shown \in SetToSeqs(DOMAIN pool) :
       LET best == Stratify([k \in DOMAIN shown |-> [index |-> shown[k], score |-> score'[shown[k]]]])
       IN  ranked' = [k \in DOMAIN best |-> pool[best[k].index]]
  /\ stage' = "done"
  /\ UNCHANGED <<vars, terms, found, pool>>

\* The service or its model fails, for as long as it is asked.
RerankFails ==
  /\ stage = "rank"
  /\ stage' = "failed"
  /\ UNCHANGED <<vars, terms, found, pool, score, ranked>>

----------------------------------------------------------------------------
Elsewhere ==
  /\ Tick \/ Flip \/ \E s \in Searches \ {Run} : Dispatch(s) \/ Succeed(s) \/ Fail(s)
  /\ UNCHANGED run

RunNext ==
  \/ Reject \/ Understand
  \/ SearchOurs \/ \E p \in Others : SearchOther(p)
  \/ Collect \/ Rerank \/ RerankFails

DiscoveryNext == RunNext \/ Elsewhere

\* Time passes, and a search that is sent ends.
DiscoverySpec ==
  /\ DiscoveryInit /\ [][DiscoveryNext]_all
  /\ WF_all(Tick /\ UNCHANGED run)
  /\ WF_all(SearchOurs) /\ \A p \in Others : WF_all(SearchOther(p))
  /\ \A s \in Searches \ {Run} : WF_all((Succeed(s) \/ Fail(s)) /\ UNCHANGED run)

----------------------------------------------------------------------------
(* Properties *)

Returned == {r \in UNION {ToSet(found[p]) : p \in ToSet(Providers)} : Valid(r)}

\* What dedupe.ts:2 asks of the record of a key: of everything found under it, the
\* longest texts and the highest citation count, and all those who found it.
Super(k) ==
  LET same == {r \in Returned : Key(r) = k}
  IN  [length |-> [f \in Fields |-> Max({r.length[f] : r \in same})],
       cites |-> Max({r.cites : r \in same}),
       providers |-> UNION {r.providers : r \in same}]

\* No DOI is in the ranked manifest twice, in whatever forms the providers write it:
\* Phases 4 and 5 would work on one paper twice (PipelineRun assumes they do not).
DoiOnce ==
  \A i, j \in DOMAIN ranked :
    ranked[i].doi.name = ranked[j].doi.name /\ ranked[i].doi # NoDoi => i = j

\* Whatever key any provider found, in a record that can be ranked, is that of a
\* candidate with the best that is known under it, from whichever providers and in
\* whatever order they came, unless the pool is full of others cited as much; and
\* the candidate is read unless it is not relevant or there are enough others that
\* are as relevant.  This is of keys and not of papers: a paper that one graph has
\* with a DOI and another without has two keys, and is two candidates, each with
\* what is known under its own.
Represented ==
  stage \in {"rank", "done"} => \A k \in {Key(r) : r \in Returned} :
    \/ /\ Len(pool) = MaxCandidates
       /\ \A c \in ToSet(pool) : Key(c) # k /\ c.cites >= Super(k).cites
    \/ \E i \in DOMAIN pool :
         /\ Key(pool[i]) = k
         /\ [f \in {"length", "cites", "providers"} |-> pool[i][f]] = Super(k)
         /\ \/ stage = "rank" \/ pool[i] \in ToSet(ranked) \/ score[i] < RelevanceFloor
            \/ /\ Len(ranked) = TopCount
               /\ \A j \in DOMAIN pool : pool[j] \in ToSet(ranked) => score[j] >= score[i]

\* docs/phase-2-open-graph-gateway.md:132: a provider that is down, hangs or refuses the
\* query is abandoned, and the run proceeds with what the others found.
Settles == stage = "search" ~> ToSet(Providers) = DOMAIN found
=============================================================================
