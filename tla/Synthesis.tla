----------------------------- MODULE Synthesis -----------------------------
(***************************************************************************)
(* Phase 6 and the run's call of it: POST /synthesize reads a project's    *)
(* findings, clusters them, and has a language model judge each cluster of *)
(* two or more; the orchestrator asks again when the call fails.  The      *)
(* graph goes to Phase 7 (CitationWeaving), whose brief the properties are *)
(* about.                                                                  *)
(*                                                                         *)
(* The findings are what the store has at the time (module PipelineRun).   *)
(* Either clusterer returns a partition of them; which one depends on the  *)
(* embeddings and is arbitrary here, and so is what the model says.        *)
(***************************************************************************)
EXTENDS CitationWeaving

SynthesizeRetries == 2   \* postJson's retries
MinClusterSize == 2      \* MIN_CLUSTER_SIZE

VARIABLES
  asked,   \* how often the orchestrator has asked for the graph
  at,      \* what the service does next: "fetch", "cluster", "judge", "idle"
  groups,  \* the clusters found, and not judged yet
  judged,  \* the clusters in the graph so far, and their polarity
  said     \* history: what the model said of each cluster it was shown

synthesis == <<asked, at, groups, judged, said>>
synthesisVars == <<vars, synthesis>>

SynthesisInit ==
  /\ Init
  /\ asked = 1 /\ at = "fetch"
  /\ groups = {} /\ judged = <<>> /\ said = <<>>

\* The partitions of a set of claims.
Partitions(claims) ==
  {gs \in SUBSET (SUBSET claims \ {{}}) :
     UNION gs = claims /\ \A g, h \in gs : g # h => g \cap h = {}}

\* fetch_findings.  Only those of the project, and with an embedding, take part.
Fetch ==
  /\ at = "fetch"
  /\ \E findings \in SUBSET Claims : groups' = {findings} \ {{}}
  /\ at' = "cluster"
  /\ UNCHANGED <<vars, asked, judged, said>>

Cluster ==
  /\ at = "cluster"
  /\ groups' \in Partitions(UNION groups)
  /\ at' = "judge"
  /\ UNCHANGED <<vars, asked, judged, said>>

\* A mutant of Valid: what cannot be read counts as agreement.
Valid_Hopeful(word) == IF word \in Polarities THEN word ELSE "AGREEMENT"

\* A polarity there is none of, and no answer at all, read as thin evidence.
Valid(word) == IF word \in Polarities THEN word ELSE "THIN_EVIDENCE"

With(f, g, word) == [h \in DOMAIN f \cup {g} |-> IF h = g THEN word ELSE f[h]]

\* One cluster joins the graph: a single finding as it is, another judged.
Judge(g) ==
  /\ at = "judge"
  /\ g \in groups
  /\ \/ /\ Cardinality(g) < MinClusterSize
        /\ judged' = With(judged, g, "THIN_EVIDENCE")
        /\ UNCHANGED said
     \/ /\ Cardinality(g) >= MinClusterSize
        /\ \E word \in Polarities \cup {"nothing"} :
             /\ judged' = With(judged, g, Valid(word))
             /\ said' = With(said, g, word)
  /\ groups' = groups \ {g}
  /\ UNCHANGED <<vars, asked, at>>

\* The graph is answered, and Phase 7 begins with it.
Answer ==
  /\ at = "judge" /\ groups = {}
  /\ Begin(judged)
  /\ at' = "idle" /\ asked' = 0 /\ judged' = <<>>
  /\ UNCHANGED <<groups, said>>

\* A new attempt starts from nothing.
AskAgain ==
  /\ at' = "fetch"
  /\ groups' = {} /\ judged' = <<>> /\ said' = <<>>

\* The attempt fails for the orchestrator: the store raises (also when no claim
\* was ever stored), or the time is up.  It asks again, or gives up: in the end, and
\* at once when the answer is one that is not asked for again or is no graph.
Lost ==
  /\ at # "idle"
  /\ \/ /\ asked <= SynthesizeRetries
        /\ asked' = asked + 1
        /\ AskAgain
        /\ UNCHANGED vars
     \/ /\ pc' = "failed" /\ at' = "idle"
        /\ UNCHANGED <<asked, groups, judged, said, polarity, turn, tries, themed, sections,
                       brief, biblio>>

SynthesisNext ==
  \/ Fetch \/ Cluster \/ Answer \/ Lost
  \/ \E g \in groups : Judge(g)
  \/ Write /\ UNCHANGED synthesis

SynthesisSpec == SynthesisInit /\ [][SynthesisNext]_synthesisVars

----------------------------------------------------------------------------
(* Properties *)

SynthesisTypeOK ==
  /\ TypeOK
  /\ asked \in 0 .. SynthesizeRetries + 1
  /\ at \in {"fetch", "cluster", "judge", "idle"}
  /\ groups \subseteq SUBSET Claims
  /\ DOMAIN judged \subseteq SUBSET Claims
  /\ DOMAIN said \subseteq SUBSET Claims

\* polarity.py:149, "never fabricate consensus": every sentence under the brief's
\* consensus, and under its conflicts, cites a finding whose cluster has at least
\* one other finding and was called just that by the model: not because a judgement
\* failed, nor for a finding on its own, nor out of an attempt that was given up.
NothingFabricated ==
  \A k \in DOMAIN brief : brief[k].heading \in {"AGREEMENT", "CONTRADICTION"} =>
    \A s \in DOMAIN brief[k].body : \E n \in ToSet(brief[k].body[s]) :
      \E g \in DOMAIN said :
        biblio[n] \in g /\ g # {biblio[n]} /\ said[g] = brief[k].heading
=============================================================================
