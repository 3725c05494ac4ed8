---------------------------- MODULE ClaimIngest ----------------------------
(***************************************************************************)
(* Phase 5 of the pipeline: the parsing service's POST /ingest, from the   *)
(* vault read to the upsert of the extracted claims, over the one Qdrant   *)
(* collection every research run shares.                                   *)
(*                                                                         *)
(* FastAPI runs the handler in a thread pool, so the calls of two runs, or *)
(* a call the orchestrator gave up on and the one that follows it,         *)
(* interleave at every request to Qdrant or to a provider.  Each such      *)
(* request is one action; what happens between two requests touches only   *)
(* the thread's own variables and is folded into the action before it.     *)
(*                                                                         *)
(* A document is a pair (projectId, documentDoi).  A claim's id is derived *)
(* from the document and the claim's content, so a stored point is a       *)
(* document and a content, and writing the same claim twice is one point.  *)
(***************************************************************************)
EXTENDS Naturals, FiniteSets

CONSTANTS
  Ingests,    \* the /ingest calls the service receives
  Docs,       \* the documents they name
  Contents,   \* (classification, quote, restatement) triples an LLM may propose
  Anchored,   \* Anchored[d]: those whose quote is verbatim in d and whose class is valid
  Dims,       \* embedding dimensions a deployment may be configured with
  Faults,     \* the requests that may fail: a subset of FaultPoints
  Overlap     \* the calls that may be in progress together: "any" two, two on
              \* different "documents", or "none"

NoDim == 0    \* no collection / nothing verified yet (None in the code)

FaultPoints == {"parse", "extract", "delete", "embed", "lookup", "drop",
                "create", "upsert", "crash"}

ASSUME ConstantsOK ==
  /\ Anchored \in [Docs -> SUBSET Contents]
  /\ Dims \subseteq Nat \ {NoDim}
  /\ Faults \subseteq FaultPoints
  /\ Overlap \in {"any", "documents", "none"}

VARIABLES
  stored,   \* stored[d]: the contents of d's points in the "claims" collection
  coll,     \* the dimension of that collection, NoDim when it does not exist
  dim,      \* the dimension of the running process's embedding provider
  ready,    \* QdrantClaimStore._ready_dim of the running process
  pc,       \* the next request of each call
  doc,      \* the document of each call
  found,    \* the claims each call has extracted
  last      \* history: the claims of the last call on d that wrote them, or had none

vars == <<stored, coll, dim, ready, pc, doc, found, last>>
thread == <<doc, found>>
space == <<stored, coll, ready>>

\* A call has dropped the document's old claims and not yet written the new ones.
Replacing == {"embed", "ensure", "drop", "create", "upsert"}
Running   == {"parse", "extract", "delete"} \cup Replacing
Stopped   == {"idle", "ok", "failed", "lost"}

Active(i) == pc[i] \in Running

TypeOK ==
  /\ stored \in [Docs -> SUBSET Contents]
  /\ coll \in Dims \cup {NoDim}
  /\ dim \in Dims
  /\ ready \in Dims \cup {NoDim}
  /\ pc \in [Ingests -> Running \cup Stopped]
  /\ doc \in [Ingests -> Docs]
  /\ found \in [Ingests -> SUBSET Contents]
  /\ last \in [Docs -> SUBSET Contents]

Init ==
  /\ stored = [d \in Docs |-> {}]
  /\ coll = NoDim
  /\ dim \in Dims
  /\ ready = NoDim
  /\ pc = [i \in Ingests |-> "idle"]
  /\ doc \in [Ingests -> Docs]
  /\ found = [i \in Ingests |-> {}]
  /\ last = [d \in Docs |-> {}]

Goto(i, label) == pc' = [pc EXCEPT ![i] = label]

\* An exception that the handler does not catch: the caller gets a 500.
Raise(i, fault) ==
  /\ fault \in Faults
  /\ Goto(i, "failed")
  /\ UNCHANGED <<space, dim, thread, last>>

----------------------------------------------------------------------------
MayOverlap(i, j) ==
  \/ Overlap = "any"
  \/ Overlap = "documents" /\ doc[i] # doc[j]

\* The endpoint is called.
Receive(i) ==
  /\ pc[i] = "idle"
  /\ \A j \in Ingests : Active(j) => MayOverlap(i, j)
  /\ Goto(i, "parse")
  /\ UNCHANGED <<space, dim, thread, last>>

\* Vault read and LlamaParse.  Storing the raw passages is best-effort and
\* concerns another collection; it cannot change what follows.
Parse(i) ==
  /\ pc[i] = "parse"
  /\ \/ /\ Goto(i, "extract")
        /\ UNCHANGED <<space, dim, thread, last>>
     \/ Raise(i, "parse")

\* Mutant: the quote anchor is not applied.
Kept_Unchecked(i, proposed) == proposed

\* The proposals that pass the quote anchor and the class check.
Kept(i, proposed) == proposed \cap Anchored[doc[i]]

\* One LLM call per passage; the model may propose anything, and only what is
\* anchored in the document is kept.
Extract(i) ==
  /\ pc[i] = "extract"
  /\ \/ /\ \E proposed \in SUBSET Contents :
             found' = [found EXCEPT ![i] = Kept(i, proposed)]
        /\ Goto(i, "delete")
        /\ UNCHANGED <<space, dim, doc, last>>
     \/ Raise(i, "extract")

\* Mutants: a filter that matches nothing; a filter without the documentDoi condition.
DocumentFilter_Nothing(i) == {}
DocumentFilter_Project(i) == Docs

\* The documents whose claims delete_document_claims removes.
DocumentFilter(i) == {doc[i]}

\* delete_document_claims swallows every error; a call with no claims ends here.
Delete(i) ==
  /\ pc[i] = "delete"
  /\ \/ stored' = [d \in Docs |-> IF d \in DocumentFilter(i) THEN {} ELSE stored[d]]
     \/ "delete" \in Faults /\ UNCHANGED stored
  /\ \/ found[i] # {} /\ Goto(i, "embed") /\ UNCHANGED last
     \/ found[i] = {} /\ Goto(i, "ok") /\ last' = [last EXCEPT ![doc[i]] = {}]
  /\ UNCHANGED <<coll, dim, ready, thread>>

Embed(i) ==
  /\ pc[i] = "embed"
  /\ \/ Goto(i, "ensure") /\ UNCHANGED <<space, dim, thread, last>>
     \/ Raise(i, "embed")

\* _ensure_collection: the process's memo, then get_collection, any error of
\* which reads as "there is no collection".
Ensure(i) ==
  /\ pc[i] = "ensure"
  /\ \/ /\ dim \in {ready, coll}
        /\ ready' = dim
        /\ Goto(i, "upsert")
     \/ /\ ready # dim
        /\ coll # dim \/ "lookup" \in Faults
        /\ Goto(i, "drop")
        /\ UNCHANGED ready
  /\ UNCHANGED <<stored, coll, dim, thread, last>>

\* delete_collection, on what Ensure saw; its errors are swallowed too.
DropCollection(i) ==
  /\ pc[i] = "drop"
  /\ \/ coll' = NoDim /\ stored' = [d \in Docs |-> {}]
     \/ "drop" \in Faults /\ UNCHANGED <<coll, stored>>
  /\ Goto(i, "create")
  /\ UNCHANGED <<dim, ready, thread, last>>

\* create_collection is refused when the collection exists.  Its error may be that
\* of an answer that got lost.
CreateCollection(i) ==
  /\ pc[i] = "create"
  /\ \/ /\ coll = NoDim
        /\ coll' = dim
        /\ \/ ready' = dim /\ Goto(i, "upsert")
           \/ "create" \in Faults /\ UNCHANGED ready /\ Goto(i, "failed")
        /\ UNCHANGED <<stored, dim, thread, last>>
     \/ /\ coll # NoDim
        /\ Goto(i, "failed")
        /\ UNCHANGED <<space, dim, thread, last>>
     \/ Raise(i, "create")

\* The upsert is refused when the collection is missing or of another dimension.
\* A call whose upsert is executed and whose answer is lost fails all the same.
Upsert(i) ==
  /\ pc[i] = "upsert"
  /\ \/ /\ coll = dim
        /\ stored' = [stored EXCEPT ![doc[i]] = @ \cup found[i]]
        /\ last' = [last EXCEPT ![doc[i]] = found[i]]
        /\ Goto(i, "ok") \/ ("upsert" \in Faults /\ Goto(i, "failed"))
        /\ UNCHANGED <<coll, dim, ready, thread>>
     \/ /\ coll # dim
        /\ Goto(i, "failed")
        /\ UNCHANGED <<space, dim, thread, last>>
     \/ Raise(i, "upsert")

\* The dimension a started process embeds with.
BootDims == Dims

\* The service dies and is started again, perhaps with another embedding model:
\* its threads and its memo are gone, the collection stays.
Restart ==
  /\ "crash" \in Faults
  /\ pc' = [i \in Ingests |-> IF Active(i) THEN "lost" ELSE pc[i]]
  /\ ready' = NoDim
  /\ dim' \in BootDims
  /\ UNCHANGED <<stored, coll, thread, last>>

Step(i) ==
  \/ Parse(i) \/ Extract(i) \/ Delete(i) \/ Embed(i)
  \/ Ensure(i) \/ DropCollection(i) \/ CreateCollection(i) \/ Upsert(i)

Next == Restart \/ \E i \in Ingests : Receive(i) \/ Step(i)

Spec == Init /\ [][Next]_vars

----------------------------------------------------------------------------
(* Properties *)

\* Zero-hallucination traceability (extract.py:83): whatever the LLM proposes and
\* however calls interleave, a stored claim is anchored in the document it is
\* stored under.
ClaimsAnchored == \A d \in Docs : stored[d] \subseteq Anchored[d]

\* Idempotency of re-ingestion (ingest.py:86): the claims of a document are those
\* of the last call that wrote its own, all of them, or none; never a mixture of
\* two calls, whatever fails, crashes or races on other documents.
WholeOrNone == \A d \in Docs : stored[d] \in {{}, last[d]}

\* The collection is the process's and nobody is about to rebuild it.
Settled ==
  /\ ready = dim
  /\ coll = dim
  /\ \A i \in Ingests : pc[i] \notin {"drop", "create"}

\* Ingesting one document leaves the others alone (store.py:127): once the
\* collection is settled, a step changes the claims of the document it works on
\* and of no other, and only a restart unsettles it.
SettledIsolation ==
  [][Settled =>
       /\ \A d \in Docs : stored'[d] # stored[d] =>
            \E i \in Ingests : doc[i] = d /\ Active(i) /\ pc'[i] # pc[i]
       /\ Settled' \/ ready' = NoDim]_vars

\* A claim leaves the store only when its own document is ingested again, as
\* test_idempotency.py:96 says of the in-memory store.
NoEviction ==
  [][\A d \in Docs : stored[d] \subseteq stored'[d]
       \/ \E i \in Ingests : doc[i] = d /\ Active(i) /\ pc'[i] # pc[i]]_vars
=============================================================================
