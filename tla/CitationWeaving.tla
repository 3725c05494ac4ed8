-------------------------- MODULE CitationWeaving --------------------------
(***************************************************************************)
(* Phase 7: the clusters of the synthesis graph (module Synthesis) become  *)
(* a brief.  An LLM writes a section per polarity and then a summary; a    *)
(* filter drops the sentences that cite nothing they may cite; the weaver  *)
(* turns the claim tags into numbers and compiles the bibliography.        *)
(*                                                                         *)
(* A sentence is the sequence of the tags in it, a text the sequence of    *)
(* its sentences: everything else the LLM writes is carried along as is.   *)
(***************************************************************************)
EXTENDS Naturals, Sequences, FiniteSets, Functions, SequencesExt

CONSTANTS
  Claims,         \* the claim ids
  Invented,       \* other tags the LLM may write
  MaxSentences, MaxTags, MaxSummary   \* bounds on what the LLM writes

Order == <<"AGREEMENT", "CONTRADICTION", "THIN_EVIDENCE">>   \* SECTION_CONFIGS

Polarities == ToSet(Order) \cup {"NOISE"}   \* ClusterPolarity

ASSUME ConstantsOK ==
  /\ Claims \cap Invented = {}
  /\ {MaxSentences, MaxTags, MaxSummary} \subseteq Nat

VARIABLES
  polarity,  \* the synthesis graph: its clusters, sets of claims, and their polarity
  pc,      \* "graph", "section", "summary" or "weave": what comes next; "done" or "failed"
  turn,    \* the section being written: an index into Order
  tries,   \* how often it was written
  themed,  \* the sections that passed the filter
  sections,  \* the texts the weaver is given: the summary, then themed
  brief,   \* the woven sections: numbers for tags
  biblio   \* biblio[n]: the claim numbered n

vars == <<polarity, pc, turn, tries, themed, sections, brief, biblio>>

Sentences == BoundedSeq(Claims \cup Invented, MaxTags)
Texts == BoundedSeq(Sentences, MaxSentences)
Summaries == BoundedSeq(Sentences, MaxSummary)

\* The claims the writer is given, of which the others know nothing.
InGraph == UNION DOMAIN polarity

TypeOK ==
  /\ DOMAIN polarity \subseteq SUBSET Claims
  /\ \A g \in DOMAIN polarity : polarity[g] \in Polarities
  /\ pc \in {"graph", "section", "summary", "weave", "done", "failed"}
  /\ turn \in 1 .. Len(Order) + 1
  /\ tries \in 0 .. 1
  /\ \A s \in ToSet(themed \o sections) : s.body \in Texts \cup Summaries /\ s.body # <<>>
  /\ Len(themed) <= 3 /\ Len(sections) <= 4
  /\ Len(brief) = IF pc = "done" THEN Len(sections) ELSE 0
  /\ biblio \in Seq(InGraph)

Init ==
  /\ polarity = <<>>
  /\ pc = "graph"
  /\ turn = 1
  /\ tries = 0
  /\ themed = <<>>
  /\ sections = <<>>
  /\ brief = <<>>
  /\ biblio = <<>>

\* The claims of the clusters that have this section's polarity.
Allowed == UNION {g \in DOMAIN polarity : turn <= Len(Order) /\ polarity[g] = Order[turn]}

\* The elements of a sequence that are in a set, in their order.
Select(s, S) ==
  LET f[n \in 0 .. Len(s)] ==
        IF n = 0 THEN <<>> ELSE IF s[n] \in S THEN Append(f[n - 1], s[n]) ELSE f[n - 1]
  IN  f[Len(s)]

\* Mutant: a sentence without tags passes.
Keep_Untagged(sentence, allowed) == sentence = <<>> \/ ToSet(sentence) \cap allowed # {}

\* filterHallucinations: at least one of the sentence's tags is allowed.
Keep(sentence, allowed) == ToSet(sentence) \cap allowed # {}

Filter(text, allowed) == Select(text, {sentence \in ToSet(text) : Keep(sentence, allowed)})

\* Some sentences were dropped, and more than 30% of them.
DropsTooMany(text, kept) == 10 * (Len(text) - Len(kept)) > 3 * Len(text)

----------------------------------------------------------------------------
\* runGeneration is called with the graph of Phase 6.
Begin(graph) ==
  /\ pc = "graph"
  /\ polarity' = graph
  /\ pc' = "section"
  /\ UNCHANGED <<turn, tries, themed, sections, brief, biblio>>

\* The next polarity has no cluster, or there is none left.
SkipSection ==
  /\ pc = "section"
  /\ Allowed = {}
  /\ IF turn > Len(Order)
       THEN pc' = (IF themed = <<>> THEN "weave" ELSE "summary") /\ UNCHANGED turn
       ELSE turn' = turn + 1 /\ UNCHANGED pc
  /\ UNCHANGED <<polarity, tries, themed, sections, brief, biblio>>

\* A section is written and filtered; the second attempt stands, whatever it is.
WriteSection ==
  /\ pc = "section"
  /\ Allowed # {}
  /\ \E text \in Texts : LET kept == Filter(text, Allowed) IN
       \/ /\ DropsTooMany(text, kept) /\ tries = 0
          /\ tries' = 1
          /\ UNCHANGED <<turn, themed>>
       \/ /\ ~DropsTooMany(text, kept) \/ tries = 1
          /\ themed' = IF kept = <<>> THEN themed
                       ELSE Append(themed, [heading |-> Order[turn], body |-> kept])
          /\ turn' = turn + 1
          /\ tries' = 0
  /\ UNCHANGED <<polarity, pc, sections, brief, biblio>>

\* The summary may cite any claim of the graph.
WriteSummary ==
  /\ pc = "summary"
  /\ \E text \in Summaries : LET kept == Filter(text, InGraph) IN
       sections' = IF kept = <<>> THEN themed
                   ELSE <<[heading |-> "summary", body |-> kept]>> \o themed
  /\ pc' = "weave"
  /\ UNCHANGED <<polarity, turn, tries, themed, brief, biblio>>

\* The provider fails: the whole run does.
Fail ==
  /\ pc \in {"section", "summary"}
  /\ pc = "section" => Allowed # {}
  /\ pc' = "failed"
  /\ UNCHANGED <<polarity, turn, tries, themed, sections, brief, biblio>>

\* Mutants: an unknown tag gets a number as well; every occurrence a new one.
Assign_Unknown(order, id) == IF id \in ToSet(order) THEN order ELSE Append(order, id)
Assign_Always(order, id) == IF id \in InGraph THEN Append(order, id) ELSE order

\* A tag is numbered where it first appears, if it is a claim's.
Assign(order, id) ==
  IF id \in InGraph /\ id \notin ToSet(order) THEN Append(order, id) ELSE order

\* The claims in the order of their numbers, once a text with these tags is read.
Bibliography(tags) ==
  LET order[n \in 0 .. Len(tags)] ==
        IF n = 0 THEN <<>> ELSE Assign(order[n - 1], tags[n])
  IN  order[Len(tags)]

\* Mutant: numbers start anew.
Number_FromZero(order, id) == SelectInSeq(order, LAMBDA c : c = id) - 1

Number(order, id) == SelectInSeq(order, LAMBDA c : c = id)

\* The tags of a sentence are replaced by their numbers, unknown ones removed.
Woven(sentence, order) ==
  LET known == Select(sentence, InGraph)
  IN  [k \in DOMAIN known |-> Number(order, known[k])]

Tags(ss) == FlattenSeq(FlattenSeq([k \in DOMAIN ss |-> ss[k].body]))

Weave ==
  /\ pc = "weave"
  /\ biblio' = Bibliography(Tags(sections))
  /\ brief' = [k \in DOMAIN sections |->
       [heading |-> sections[k].heading,
        body |-> [s \in DOMAIN sections[k].body |-> Woven(sections[k].body[s], biblio')]]]
  /\ pc' = "done"
  /\ UNCHANGED <<polarity, turn, tries, themed, sections>>

Write == SkipSection \/ WriteSection \/ WriteSummary \/ Fail \/ Weave

----------------------------------------------------------------------------
(* Properties *)

\* README "zero hallucination": every sentence of the brief carries a reference
\* whose bibliography entry is a claim of the graph, in a section one of clusters of
\* the section's polarity only.
Sourced ==
  \A k \in DOMAIN brief : \A s \in DOMAIN brief[k].body :
    \E n \in ToSet(brief[k].body[s]) :
      /\ n \in DOMAIN biblio /\ biblio[n] \in InGraph
      /\ \A g \in DOMAIN polarity :
           biblio[n] \in g => brief[k].heading \in {"summary", polarity[g]}

\* A reference still points at the claim the writer cited there: nothing is
\* renumbered, shifted or swapped between sections.
ReferencesKept ==
  \A k \in DOMAIN brief : \A s \in DOMAIN brief[k].body :
    LET numbers == brief[k].body[s]
        cited   == Select(sections[k].body[s], InGraph)
    IN  /\ Len(numbers) = Len(cited)
        /\ \A i \in DOMAIN numbers : numbers[i] \in DOMAIN biblio /\ biblio[numbers[i]] = cited[i]

\* weaver.ts:3: read from the top, the brief's references count up from 1 without
\* gaps, and the bibliography has an entry for each, no claim twice.
FirstAppearance ==
  pc = "done" =>
    LET refs == Tags(brief)
    IN  /\ \A i \in DOMAIN refs :
             refs[i] \in 1 .. 1 + Cardinality({refs[j] : j \in 1 .. i - 1})
        /\ ToSet(refs) = DOMAIN biblio
        /\ IsInjective(biblio)
=============================================================================
