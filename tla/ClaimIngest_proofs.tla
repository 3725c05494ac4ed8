------------------------- MODULE ClaimIngest_proofs -------------------------
(***************************************************************************)
(* What ClaimIngest guarantees for every set of calls, documents, contents *)
(* and faults.                                                             *)
(***************************************************************************)
EXTENDS ClaimIngest, TLAPS

----------------------------------------------------------------------------
(* Type correctness *)

\* The initial states are well typed.
LEMMA TypeInit == Init => TypeOK
  BY ConstantsOK DEF Init, TypeOK, Stopped

\* Every step of the service keeps the state well typed.
LEMMA TypeStep == TypeOK /\ [Next]_vars => TypeOK'
<1> SUFFICES ASSUME TypeOK, [Next]_vars PROVE TypeOK'
  OBVIOUS
<1> USE ConstantsOK DEF TypeOK, Running, Replacing, Stopped, Goto, Raise, thread, space
<1>1. CASE UNCHANGED vars
  BY <1>1 DEF vars
<1>2. CASE Restart
  BY <1>2 DEF Restart, BootDims, Active
<1>3. ASSUME NEW i \in Ingests, Receive(i) PROVE TypeOK'
  BY <1>3 DEF Receive
<1>4. ASSUME NEW i \in Ingests, Parse(i) PROVE TypeOK'
  BY <1>4 DEF Parse
<1>5. ASSUME NEW i \in Ingests, Extract(i) PROVE TypeOK'
  <2>1. CASE Raise(i, "extract")
    BY <2>1
  <2>2. ASSUME NEW proposed \in SUBSET Contents,
               found' = [found EXCEPT ![i] = Kept(i, proposed)],
               Goto(i, "delete"), UNCHANGED <<space, dim, doc, last>>
        PROVE  TypeOK'
    <3>1. Kept(i, proposed) \in SUBSET Contents
      BY DEF Kept
    <3> QED
      BY <2>2, <3>1
  <2> QED
    BY <1>5, <2>1, <2>2 DEF Extract
<1>6. ASSUME NEW i \in Ingests, Delete(i) PROVE TypeOK'
  <2>1. stored' \in [Docs -> SUBSET Contents]
    BY <1>6 DEF Delete
  <2>2. last' \in [Docs -> SUBSET Contents] /\ pc' \in [Ingests -> Running \cup Stopped]
    BY <1>6 DEF Delete
  <2> QED
    BY <1>6, <2>1, <2>2 DEF Delete
<1>7. ASSUME NEW i \in Ingests, Embed(i) PROVE TypeOK'
  BY <1>7 DEF Embed
<1>8. ASSUME NEW i \in Ingests, Ensure(i) PROVE TypeOK'
  BY <1>8 DEF Ensure
<1>9. ASSUME NEW i \in Ingests, DropCollection(i) PROVE TypeOK'
  BY <1>9 DEF DropCollection
<1>10. ASSUME NEW i \in Ingests, CreateCollection(i) PROVE TypeOK'
  BY <1>10 DEF CreateCollection
<1>11. ASSUME NEW i \in Ingests, Upsert(i) PROVE TypeOK'
  BY <1>11 DEF Upsert
<1> QED
  BY <1>1, <1>2, <1>3, <1>4, <1>5, <1>6, <1>7, <1>8, <1>9, <1>10, <1>11 DEF Next, Step

\* In every reachable state of the service the variables hold what they are
\* declared to hold.
THEOREM TypeCorrect == Spec => []TypeOK
  BY TypeInit, TypeStep, PTL DEF Spec

----------------------------------------------------------------------------
(* Zero-hallucination traceability *)

\* What a call carries is anchored too: without it a step could store a claim of
\* one document that was only checked against another.
CarriedAnchored == \A i \in Ingests : found[i] \subseteq Anchored[doc[i]]

AnchoredInv == TypeOK /\ CarriedAnchored /\ ClaimsAnchored

\* A step of the service keeps everything carried or stored anchored.
LEMMA AnchoredStep == AnchoredInv /\ [Next]_vars => AnchoredInv'
<1> SUFFICES ASSUME AnchoredInv, [Next]_vars PROVE AnchoredInv'
  OBVIOUS
<1> USE ConstantsOK DEF AnchoredInv, CarriedAnchored, ClaimsAnchored
<1>1. TypeOK'
  BY TypeStep
<1>2. CASE stored' = stored /\ doc' = doc /\ found' = found
  BY <1>1, <1>2
<1>3. ASSUME NEW i \in Ingests, Extract(i) PROVE AnchoredInv'
  <2>1. ASSUME NEW proposed \in SUBSET Contents,
               found' = [found EXCEPT ![i] = Kept(i, proposed)],
               doc' = doc, stored' = stored
        PROVE  AnchoredInv'
    <3>1. Kept(i, proposed) \subseteq Anchored[doc[i]]
      BY DEF Kept
    <3> QED
      BY <1>1, <2>1, <3>1 DEF TypeOK
  <2> QED
    BY <1>2, <1>3, <2>1 DEF Extract, Raise, thread, space
<1>4. ASSUME NEW i \in Ingests, Delete(i) PROVE AnchoredInv'
  <2>1. doc' = doc /\ found' = found
    BY <1>4 DEF Delete, thread
  <2>2. \A d \in Docs : stored'[d] \subseteq stored[d]
    BY <1>4 DEF Delete, TypeOK
  <2> QED
    BY <1>1, <2>1, <2>2
<1>5. ASSUME NEW i \in Ingests, DropCollection(i) PROVE AnchoredInv'
  BY <1>1, <1>5 DEF DropCollection, thread
<1>6. ASSUME NEW i \in Ingests, Upsert(i) PROVE AnchoredInv'
  <2>1. doc' = doc /\ found' = found
    BY <1>6 DEF Upsert, Raise, thread
  <2>2. \A d \in Docs : stored'[d] \subseteq stored[d] \cup Anchored[d]
    BY <1>6 DEF Upsert, Raise, space, TypeOK
  <2> QED
    BY <1>1, <2>1, <2>2
<1>7. CASE \E i \in Ingests : \/ Receive(i) \/ Parse(i) \/ Embed(i) \/ Ensure(i)
                                 \/ CreateCollection(i)
  BY <1>2, <1>7 DEF Receive, Parse, Embed, Ensure, CreateCollection, Raise, thread, space
<1>8. CASE Restart \/ UNCHANGED vars
  BY <1>2, <1>8 DEF Restart, vars, thread
<1> QED
  BY <1>3, <1>4, <1>5, <1>6, <1>7, <1>8 DEF Next, Step

\* Whatever the LLM proposes, however calls interleave and whatever fails, every
\* claim in the store is anchored in the document it is stored under.
THEOREM Traceability == Spec => []ClaimsAnchored
<1>1. Init => AnchoredInv
  BY TypeInit, ConstantsOK DEF Init, AnchoredInv, CarriedAnchored, ClaimsAnchored
<1>2. AnchoredInv => ClaimsAnchored
  BY DEF AnchoredInv
<1> QED
  BY <1>1, <1>2, AnchoredStep, PTL DEF Spec

----------------------------------------------------------------------------
(* Idempotency *)

\* Two calls in progress are on different documents.
Serialised ==
  \A i, j \in Ingests : i # j /\ Active(i) /\ Active(j) => doc[i] # doc[j]

\* Between its delete and its upsert, a call's document has no claims: what the
\* upsert adds is then all there is.
ReplacingEmpty == \A i \in Ingests : pc[i] \in Replacing => stored[doc[i]] = {}

IdempotentInv == TypeOK /\ Serialised /\ ReplacingEmpty /\ WholeOrNone

\* The two conditions idempotency rests on: the deletion is not lost, and calls
\* for one document do not overlap.
Orderly == "delete" \notin Faults /\ Overlap # "any"

\* Under these conditions a step keeps calls apart.
LEMMA SerialisedStep ==
  ASSUME Orderly, TypeOK, Serialised, [Next]_vars
  PROVE  Serialised'
<1> USE DEF Orderly, Serialised, Active, Running, Replacing
<1>1. CASE UNCHANGED vars
  BY <1>1 DEF vars
<1>2. CASE Restart
  BY <1>2 DEF Restart, TypeOK, thread
<1>3. ASSUME NEW i \in Ingests, Receive(i) PROVE Serialised'
  BY <1>3 DEF Receive, MayOverlap, Goto, TypeOK, thread
<1>4. ASSUME NEW i \in Ingests, Step(i) PROVE Serialised'
  <2>1. doc' = doc /\ Active(i)
    BY <1>4 DEF Step, Parse, Extract, Delete, Embed, Ensure, DropCollection,
                CreateCollection, Upsert, Raise, thread
  <2>2. \A j \in Ingests : j # i => pc'[j] = pc[j]
    BY <1>4 DEF Step, Parse, Extract, Delete, Embed, Ensure, DropCollection,
                CreateCollection, Upsert, Raise, Goto, TypeOK
  <2> QED
    BY <2>1, <2>2
<1> QED
  BY <1>1, <1>2, <1>3, <1>4 DEF Next

\* Under the same conditions a step leaves every document with the claims of one
\* whole call or with none.
LEMMA IdempotentStep ==
  ASSUME Orderly, IdempotentInv, [Next]_vars
  PROVE  IdempotentInv'
<1> USE ConstantsOK DEF IdempotentInv, ReplacingEmpty, WholeOrNone
<1>1. TypeOK' /\ Serialised'
  BY TypeStep, SerialisedStep
\* A step that brings no call into Replacing and stores nothing.
<1>2. ASSUME doc' = doc, last' = last,
             \A d \in Docs : stored'[d] \in {{}, stored[d]},
             \A i \in Ingests : pc'[i] \in Replacing => pc[i] \in Replacing
      PROVE  IdempotentInv'
  BY <1>1, <1>2 DEF TypeOK
<1>3. CASE Restart \/ UNCHANGED vars
  BY <1>2, <1>3 DEF Restart, vars, thread, TypeOK, Replacing
<1>4. ASSUME NEW i \in Ingests,
             Receive(i) \/ Parse(i) \/ Extract(i) \/ Embed(i) \/ Ensure(i) \/ CreateCollection(i)
      PROVE  IdempotentInv'
  <2>1. doc' = doc /\ last' = last /\ stored' = stored
    BY <1>4 DEF Receive, Parse, Extract, Embed, Ensure, CreateCollection, Raise, thread, space
  <2>2. \A j \in Ingests : pc'[j] \in Replacing => pc[j] \in Replacing
    BY <1>4 DEF Receive, Parse, Extract, Embed, Ensure, CreateCollection, Raise, Goto, TypeOK,
                Replacing
  <2> QED
    BY <1>2, <2>1, <2>2
<1>5. ASSUME NEW i \in Ingests, DropCollection(i) PROVE IdempotentInv'
  <2>1. \A d \in Docs : stored'[d] \in {{}, stored[d]}
    BY <1>5 DEF DropCollection
  <2>2. \A j \in Ingests : pc'[j] \in Replacing => pc[j] \in Replacing
    BY <1>5 DEF DropCollection, Goto, TypeOK, Replacing
  <2> QED
    BY <1>2, <1>5, <2>1, <2>2 DEF DropCollection, thread
<1>6. ASSUME NEW i \in Ingests, Delete(i) PROVE IdempotentInv'
  <2>1. /\ stored'[doc[i]] = {}
        /\ \A d \in Docs : d # doc[i] => stored'[d] = stored[d] /\ last'[d] = last[d]
    BY <1>6 DEF Delete, DocumentFilter, Orderly, TypeOK
  <2>2. doc' = doc /\ \A j \in Ingests : j # i => pc'[j] = pc[j]
    BY <1>6 DEF Delete, Goto, thread, TypeOK
  <2>3. WholeOrNone'
    BY <2>1
  <2>4. ReplacingEmpty'
    BY <2>1, <2>2 DEF TypeOK
  <2> QED
    BY <1>1, <2>3, <2>4
<1>7. ASSUME NEW i \in Ingests, Upsert(i) PROVE IdempotentInv'
  <2>1. CASE stored' = stored /\ last' = last
    BY <1>2, <1>7, <2>1 DEF Upsert, Raise, Goto, TypeOK, Replacing, thread
  <2>2. CASE /\ stored' = [stored EXCEPT ![doc[i]] = @ \cup found[i]]
             /\ last' = [last EXCEPT ![doc[i]] = found[i]]
             /\ Goto(i, "ok") \/ Goto(i, "failed")
             /\ doc' = doc
    <3>1. stored[doc[i]] = {}
      BY <1>7 DEF Upsert, Replacing
    <3>2. WholeOrNone'
      BY <2>2, <3>1 DEF TypeOK
    <3>3. ReplacingEmpty'
      <4> SUFFICES ASSUME NEW j \in Ingests, pc'[j] \in Replacing
                   PROVE  stored'[doc[j]] = {}
        BY <2>2
      <4>1. j # i /\ pc[j] \in Replacing
        BY <2>2 DEF Goto, Replacing, TypeOK
      <4>2. doc[j] # doc[i]
        BY <1>7, <4>1 DEF Upsert, Serialised, Active, Running, Replacing
      <4> QED
        BY <2>2, <4>1, <4>2 DEF TypeOK
    <3> QED
      BY <1>1, <3>2, <3>3
  <2> QED
    BY <1>7, <2>1, <2>2 DEF Upsert, Raise, space, thread
<1> QED
  BY <1>3, <1>4, <1>5, <1>6, <1>7 DEF Next, Step

\* Re-ingestion converges: when deletions are not lost and no two calls for one
\* document overlap, a document holds the claims of the last call that wrote
\* any or none, whatever else fails and however calls for other documents interleave.
THEOREM Idempotency == Orderly => (Spec => []WholeOrNone)
<1> SUFFICES ASSUME Orderly PROVE Spec => []WholeOrNone
  OBVIOUS
<1>1. Init => IdempotentInv
  BY TypeInit DEF Init, IdempotentInv, Serialised, ReplacingEmpty, WholeOrNone,
                  Active, Running, Replacing
<1>2. IdempotentInv /\ [Next]_vars => IdempotentInv'
  BY IdempotentStep
<1>3. IdempotentInv => WholeOrNone
  BY DEF IdempotentInv
<1> QED
  BY <1>1, <1>2, <1>3, PTL DEF Spec

----------------------------------------------------------------------------
(* Isolation of documents *)

\* A step of the service from a settled collection touches the claims of no
\* document but the one the step works on, and only a restart unsettles it.
LEMMA IsolationStep ==
  ASSUME TypeOK, Settled, [Next]_vars
  PROVE  /\ \A d \in Docs : stored'[d] # stored[d] =>
              \E i \in Ingests : doc[i] = d /\ Active(i) /\ pc'[i] # pc[i]
         /\ Settled' \/ ready' = NoDim
<1> USE DEF Settled
<1>1. CASE Restart \/ UNCHANGED vars
  BY <1>1 DEF Restart, vars, Settled
<1>2. ASSUME NEW i \in Ingests, Receive(i) \/ Step(i)
      PROVE  /\ \A d \in Docs : stored'[d] # stored[d] => doc[i] = d
             /\ stored' # stored => Active(i) /\ pc'[i] # pc[i]
             /\ Settled'
  <2>1. CASE Receive(i) \/ Parse(i) \/ Extract(i) \/ Embed(i)
    BY <2>1 DEF Receive, Parse, Extract, Embed, Raise, Goto, thread, space, TypeOK
  <2>2. CASE Delete(i)
    BY <2>2 DEF Delete, DocumentFilter, Goto, Active, Running, thread, TypeOK
  <2>3. CASE Ensure(i)
    BY <2>3 DEF Ensure, Goto, TypeOK
  <2>4. CASE DropCollection(i) \/ CreateCollection(i)
    BY <2>4 DEF DropCollection, CreateCollection
  <2>5. CASE Upsert(i)
    <3>1. coll' = coll /\ ready' = ready /\ dim' = dim
      BY <2>5 DEF Upsert, Raise, space, thread
    <3>2. Settled'
      BY <2>5, <3>1 DEF Upsert, Raise, Goto, TypeOK
    <3>3. \A d \in Docs : stored'[d] # stored[d] => doc[i] = d
      BY <2>5 DEF Upsert, Raise, space, TypeOK
    <3>4. Active(i) /\ pc'[i] # pc[i]
      BY <2>5 DEF Upsert, Raise, Goto, Active, Running, Replacing, TypeOK
    <3> QED
      BY <3>2, <3>3, <3>4
  <2> QED
    BY <1>2, <2>1, <2>2, <2>3, <2>4, <2>5 DEF Step
<1> QED
  BY <1>1, <1>2 DEF Next

\* Once the collection is settled, ingesting a document never disturbs another.
THEOREM Isolation == Spec => SettledIsolation
<1>1. TypeOK /\ [Next]_vars =>
        [Settled =>
           /\ \A d \in Docs : stored'[d] # stored[d] =>
                \E i \in Ingests : doc[i] = d /\ Active(i) /\ pc'[i] # pc[i]
           /\ Settled' \/ ready' = NoDim]_vars
  BY IsolationStep
<1> QED
  BY <1>1, TypeCorrect, PTL DEF Spec, SettledIsolation

----------------------------------------------------------------------------
(* Eviction *)

\* The deployment has one embedding model and looking up the collection does not fail.
OneModel == "lookup" \notin Faults /\ \E n \in Dims : Dims = {n}

\* The collection exists and nobody is about to rebuild it.
Founded ==
  /\ coll # NoDim
  /\ \A i \in Ingests : pc[i] \notin {"drop", "create"}

\* No claim leaves the store but those of a document that is ingested again.
EvictsNothing ==
  \A d \in Docs : stored[d] \subseteq stored'[d]
    \/ \E i \in Ingests : doc[i] = d /\ Active(i) /\ pc'[i] # pc[i]

\* A step evicts nothing unless it drops a collection that holds something.
LEMMA EvictionStep ==
  ASSUME TypeOK, [Next]_vars,
         \A i \in Ingests : pc[i] = "drop" => \A d \in Docs : stored[d] = {}
  PROVE  EvictsNothing
<1> USE ConstantsOK DEF EvictsNothing, Goto, Raise, thread, space
<1>1. CASE \A d \in Docs : stored[d] \subseteq stored'[d]
  BY <1>1
<1>2. CASE Restart \/ UNCHANGED vars
  BY <1>1, <1>2 DEF Restart, vars
<1>3. ASSUME NEW i \in Ingests, Receive(i) \/ Step(i) PROVE EvictsNothing
  <2>1. CASE Delete(i)
    <3>1. Active(i) /\ pc'[i] # pc[i]
      BY <2>1 DEF Delete, Active, Running, TypeOK
    <3>2. \A d \in Docs : d # doc[i] => stored'[d] = stored[d]
      BY <2>1 DEF Delete, DocumentFilter
    <3> QED
      BY <3>1, <3>2
  <2>2. CASE Upsert(i)
    BY <1>1, <2>2 DEF Upsert, TypeOK
  <2>3. CASE DropCollection(i)
    BY <1>1, <2>3 DEF DropCollection
  <2>4. CASE \/ Receive(i) \/ Parse(i) \/ Extract(i) \/ Embed(i) \/ Ensure(i)
             \/ CreateCollection(i)
    BY <1>1, <2>4 DEF Receive, Parse, Extract, Embed, Ensure, CreateCollection
  <2> QED
    BY <1>3, <2>1, <2>2, <2>3, <2>4 DEF Step
<1> QED
  BY <1>2, <1>3 DEF Next

\* Once the collection exists and no call is rebuilding it, no call ever will.
LEMMA FoundedStep ==
  ASSUME OneModel, TypeOK, Founded, [Next]_vars
  PROVE  Founded' /\ EvictsNothing
<1> USE ConstantsOK DEF Founded, Goto, Raise, thread, space
<1>1. EvictsNothing
  BY EvictionStep
<1>2. coll = dim
  BY DEF OneModel, TypeOK
<1>3. CASE Restart \/ UNCHANGED vars
  BY <1>1, <1>3 DEF Restart, vars, TypeOK
<1>4. ASSUME NEW i \in Ingests, Receive(i) \/ Step(i) PROVE Founded'
  <2>1. CASE Ensure(i)
    BY <1>2, <2>1 DEF Ensure, OneModel, TypeOK
  <2>2. CASE Receive(i) \/ Parse(i) \/ Extract(i) \/ Delete(i) \/ Embed(i) \/ Upsert(i)
    <3>1. coll' = coll /\ \E label \in (Running \cup Stopped) \ {"drop", "create"} :
                            pc' = [pc EXCEPT ![i] = label]
      BY <2>2 DEF Receive, Parse, Extract, Delete, Embed, Upsert, Running, Replacing, Stopped
    <3> QED
      BY <3>1 DEF TypeOK
  <2>3. CASE DropCollection(i) \/ CreateCollection(i)
    BY <2>3 DEF DropCollection, CreateCollection
  <2> QED
    BY <1>4, <2>1, <2>2, <2>3 DEF Step
<1> QED
  BY <1>1, <1>3, <1>4 DEF Next

\* With one embedding model and look-ups that do not fail, the collection is only
\* ever dropped before it is first used: from the moment it exists and no call is
\* rebuilding it, through overlaps, failures and restarts, an ingest evicts no
\* other document's claims.
THEOREM FoundedForGood == OneModel => (Spec => [][Founded => Founded' /\ EvictsNothing]_vars)
<1> SUFFICES ASSUME OneModel PROVE Spec => [][Founded => Founded' /\ EvictsNothing]_vars
  OBVIOUS
<1>1. TypeOK /\ [Next]_vars => [Founded => Founded' /\ EvictsNothing]_vars
  BY FoundedStep
<1> QED
  BY <1>1, TypeCorrect, PTL DEF Spec

\* One call at a time never drops a collection that holds anything.
AloneInv ==
  /\ TypeOK
  /\ \A i, j \in Ingests : Active(i) /\ Active(j) => i = j
  /\ coll = NoDim => \A d \in Docs : stored[d] = {}
  /\ \A i \in Ingests : pc[i] = "drop" => coll = NoDim

LEMMA AloneStep ==
  ASSUME OneModel, Overlap = "none", AloneInv, [Next]_vars
  PROVE  AloneInv'
<1> USE ConstantsOK DEF Goto, Raise, thread, space
<1>1. TypeOK'
  BY TypeStep DEF AloneInv
<1> USE DEF AloneInv, Active, Running, Replacing
<1>2. CASE Restart \/ UNCHANGED vars
  BY <1>1, <1>2 DEF Restart, vars, TypeOK
<1>3. ASSUME NEW i \in Ingests, Receive(i) PROVE AloneInv'
  BY <1>1, <1>3 DEF Receive, MayOverlap, TypeOK
<1>4. ASSUME NEW i \in Ingests, Step(i) PROVE AloneInv'
  <2>1. /\ pc[i] \in Running
        /\ \E label \in Running \cup Stopped : pc' = [pc EXCEPT ![i] = label]
    BY <1>4 DEF Step, Parse, Extract, Delete, Embed, Ensure, DropCollection,
                CreateCollection, Upsert, Stopped
  <2>2. \A j, k \in Ingests : Active(j)' /\ Active(k)' => j = k
    BY <2>1 DEF TypeOK
  <2>3. coll' = NoDim => \A d \in Docs : stored'[d] = {}
    BY <1>4 DEF Step, Parse, Extract, Delete, Embed, Ensure, DropCollection,
                CreateCollection, Upsert, TypeOK
  <2>4. \A j \in Ingests : pc'[j] = "drop" => j = i
    BY <2>1 DEF TypeOK
  <2>5. pc'[i] = "drop" => Ensure(i)
    BY <1>4 DEF Step, Parse, Extract, Delete, Embed, Ensure, DropCollection,
                CreateCollection, Upsert, TypeOK
  <2>6. Ensure(i) /\ pc'[i] = "drop" => coll' = NoDim
    BY DEF Ensure, OneModel, TypeOK
  <2> QED
    BY <1>1, <2>2, <2>3, <2>4, <2>5, <2>6
<1> QED
  BY <1>2, <1>3, <1>4 DEF Next

\* When calls do not overlap either, a claim leaves the store only when its own
\* document is ingested again: it takes two calls that both find no collection, as
\* in the run ingest_first_calls, to break what the idempotency test says.
THEOREM SerialNoEviction == OneModel /\ Overlap = "none" => (Spec => NoEviction)
<1> SUFFICES ASSUME OneModel, Overlap = "none" PROVE Spec => NoEviction
  OBVIOUS
<1>1. Init => AloneInv
  BY TypeInit DEF Init, AloneInv, Active, Running, Replacing
<1>2. AloneInv /\ [Next]_vars => AloneInv'
  BY AloneStep
<1>3. AloneInv /\ [Next]_vars => [EvictsNothing]_vars
  BY EvictionStep DEF AloneInv
<1> QED
  BY <1>1, <1>2, <1>3, PTL DEF Spec, NoEviction, EvictsNothing
=============================================================================
