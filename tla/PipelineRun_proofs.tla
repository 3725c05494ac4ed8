------------------------- MODULE PipelineRun_proofs -------------------------
(***************************************************************************)
(* Proofs about PipelineRun, for any runs, manifests, documents, faults    *)
(* and cap: the orchestrator never has two calls for one document in       *)
(* progress, so that what ClaimIngest guarantees under that assumption     *)
(* holds of the whole; and what a synthesis reads is sound and complete.   *)
(***************************************************************************)
EXTENDS PipelineRun, ClaimIngest_proofs

\* The one call a document has.
CallOf(d) == <<d, 1>>

LEMMA CallOfType ==
  ASSUME NEW d \in Docs
  PROVE  CallOf(d) \in Ingests /\ CallOf(d)[1] = d
  BY RunAssumption DEF CallOf, CallsOf, IngestRetries

-----------------------------------------------------------------------------
(* Calls: each document has one, and only calls that were sent are under way. *)

CallInv ==
  /\ doc = [i \in Ingests |-> i[1]]
  /\ sent \subseteq {CallOf(d) : d \in Docs}
  /\ \A i \in Ingests : pc[i] # "idle" => i \in sent

RunInv ==
  /\ phase \in [Runs -> {"waiting", "ingest", "synthesis", "done", "failed"}]
  /\ place \in [Runs -> Nat]
  /\ attempted \in [Runs -> Nat]
  /\ MaxDocs # 0 => \A r \in Runs : attempted[r] <= MaxDocs
  /\ try \in [Runs -> 0..(SynthesisRetries + 1)]
  /\ \A r \in Runs : phase[r] = "ingest" => place[r] \in Places(r) /\ try[r] = 1

CallsInv == TypeOK /\ CallInv /\ RunInv

LEMMA PlacesType ==
  ASSUME NEW r \in Runs, NEW k \in Places(r)
  PROVE  k \in Nat /\ Manifest[r][k] \in Docs /\ Manifest[r][k] \in Papers(r)
  BY RunAssumption DEF Places, Papers

\* What a step of the loop does.
LEMMA ProceedStep ==
  ASSUME RunInv, CallInv, NEW r \in Runs, NEW k \in Nat, Proceed(r, k)
  PROVE  /\ RunInv'
         /\ sent' \subseteq {CallOf(d) : d \in Docs}
         /\ sent \subseteq sent'
         /\ phase' \in {[phase EXCEPT ![r] = "ingest"], [phase EXCEPT ![r] = "synthesis"]}
         /\ sent' \ sent \subseteq {CallOf(d) : d \in Papers(r)}
<1> USE DEF RunInv
<1>0. 1 \in 0..(SynthesisRetries + 1)
  BY DEF SynthesisRetries
<1>1. CASE /\ MaxDocs = 0 \/ attempted[r] < MaxDocs
           /\ \E l \in Eligible(r, k) :
                /\ place' = [place EXCEPT ![r] = l]
                /\ sent' = sent \cup {<<Manifest[r][l], 1>>}
           /\ attempted' = [attempted EXCEPT ![r] = @ + 1]
           /\ phase' = [phase EXCEPT ![r] = "ingest"]
  <2>1. PICK l \in Eligible(r, k) :
          /\ place' = [place EXCEPT ![r] = l]
          /\ sent' = sent \cup {<<Manifest[r][l], 1>>}
    BY <1>1
  <2>2. l \in Places(r) /\ l \in Nat /\ Manifest[r][l] \in Docs /\ Manifest[r][l] \in Papers(r)
    BY PlacesType DEF Eligible
  <2>3. attempted[r] + 1 \in Nat /\ (MaxDocs # 0 => attempted[r] + 1 <= MaxDocs)
    BY <1>1, RunAssumption
  <2>4. RunInv'
    BY <1>0, <1>1, <2>1, <2>2, <2>3 DEF Proceed, Places
  <2> QED
    BY <1>1, <2>1, <2>2, <2>4 DEF CallInv, CallOf
<1>2. CASE phase' = [phase EXCEPT ![r] = "synthesis"] /\ UNCHANGED <<place, attempted, sent>>
  BY <1>0, <1>2 DEF Proceed, CallInv, Places
<1> QED
  BY <1>1, <1>2 DEF Proceed

\* A step of the orchestrator leaves the service alone.
LEMMA OrchestratorStep ==
  ASSUME CallsInv, NEW r \in Runs, Orchestrator(r)
  PROVE  CallsInv' /\ UNCHANGED vars /\ sent \subseteq sent'
<1> USE DEF CallsInv
<1>0. UNCHANGED vars
  BY DEF Orchestrator, Begin, Answered, GiveUp, Synthesize, SynthesisFails
<1>1. TypeOK'
  BY <1>0 DEF vars, TypeOK
<1>2. RunInv' /\ sent' \subseteq {CallOf(d) : d \in Docs} /\ sent \subseteq sent'
  <2>1. CASE Begin(r)
    BY <2>1, ProceedStep DEF Begin
  <2>2. CASE Answered(r)
    <3>1. place[r] + 1 \in Nat
      BY DEF RunInv
    <3> QED
      BY <2>2, <3>1, ProceedStep DEF Answered
  <2>3. CASE GiveUp(r)
    <3>1. place[r] + 1 \in Nat /\ try[r] = 1 /\ ~(try[r] <= IngestRetries)
      BY <2>3 DEF RunInv, GiveUp, IngestRetries
    <3> QED
      BY <2>3, <3>1, ProceedStep DEF GiveUp
  <2>4. CASE Synthesize(r)
    BY <2>4 DEF Synthesize, RunInv, CallInv, Places
  <2>5. CASE SynthesisFails(r)
    <3>1. CASE try[r] <= SynthesisRetries /\ try' = [try EXCEPT ![r] = @ + 1] /\ UNCHANGED phase
      <4>1. try[r] + 1 \in 0..(SynthesisRetries + 1)
        BY <3>1 DEF RunInv, SynthesisRetries
      <4> QED
        BY <2>5, <3>1, <4>1 DEF SynthesisFails, RunInv, CallInv, Places
    <3>2. CASE phase' = [phase EXCEPT ![r] = "failed"] /\ UNCHANGED try
      BY <2>5, <3>2 DEF SynthesisFails, RunInv, CallInv, Places
    <3> QED
      BY <2>5, <3>1, <3>2 DEF SynthesisFails
  <2> QED
    BY <2>1, <2>2, <2>3, <2>4, <2>5 DEF Orchestrator
<1>3. CallInv'
  BY <1>0, <1>2 DEF CallInv, vars
<1> QED
  BY <1>0, <1>1, <1>2, <1>3

\* A step of the service starts a call that was sent or moves one under way.
LEMMA ServiceCalls ==
  ASSUME CallsInv, Service
  PROVE  CallsInv'
<1> USE DEF CallsInv
<1>0. sent \subseteq Ingests
  BY CallOfType DEF CallInv
<1>1. TypeOK'
  <2>1. Next
    BY <1>0 DEF Service, Next
  <2> QED
    BY <2>1, TypeStep
<1>2. RunInv'
  BY DEF Service, RunInv, Places
<1>3. sent' = sent
  BY DEF Service
<1>4. ASSUME NEW i \in sent, Receive(i) PROVE CallInv'
  BY <1>3, <1>4 DEF CallInv, Receive, Goto, thread, TypeOK
<1>5. ASSUME NEW i \in Ingests, Step(i) PROVE CallInv'
  <2>1. pc[i] # "idle" /\ doc' = doc /\ \A j \in Ingests : j # i => pc'[j] = pc[j]
    BY <1>5 DEF Step, Parse, Extract, Delete, Embed, Ensure, DropCollection,
                CreateCollection, Upsert, Raise, Goto, thread, TypeOK
  <2> QED
    BY <1>3, <2>1 DEF CallInv
<1>6. ASSUME Restart PROVE CallInv'
  BY <1>3, <1>6 DEF CallInv, Restart, Active, Running, Replacing, thread, TypeOK
<1>7. CallInv'
  BY <1>4, <1>5, <1>6 DEF Service
<1> QED
  BY <1>1, <1>2, <1>7

LEMMA CallsInit == RunInit => CallsInv
<1> SUFFICES ASSUME RunInit PROVE CallsInv
  OBVIOUS
<1>1. TypeOK
  BY TypeInit DEF RunInit
<1>2. CallInv
  BY DEF RunInit, Init, CallInv
<1>3. RunInv
  BY RunAssumption DEF RunInit, RunInv, SynthesisRetries
<1> QED
  BY <1>1, <1>2, <1>3 DEF CallsInv

LEMMA CallsStep == ASSUME CallsInv, [RunNext]_allVars PROVE CallsInv'
<1>1. CASE UNCHANGED allVars
  BY <1>1 DEF allVars, vars, runVars, CallsInv, TypeOK, CallInv, RunInv, Places
<1> QED
  BY <1>1, ServiceCalls, OrchestratorStep DEF RunNext

LEMMA CallsInvariant == RunSpec => []CallsInv
<1>1. CallsInv /\ [RunNext]_allVars => CallsInv'
  BY CallsStep
<1> QED
  BY CallsInit, <1>1, PTL DEF RunSpec

-----------------------------------------------------------------------------
(* The service is used serially for each document. *)

\* A call for a document starts only when no other for it is under way.
LEMMA SerialStep ==
  ASSUME CallsInv, [RunNext]_allVars
  PROVE  [Serial!Next]_vars
<1> USE DEF CallsInv
<1>1. ASSUME NEW i \in sent, Receive(i) PROVE Serial!Receive(i) /\ i \in Ingests
  <2>1. i \in Ingests /\ pc[i] = "idle" /\ \E d \in Docs : i = CallOf(d)
    BY <1>1, CallOfType DEF CallInv, Receive
  <2>2. ASSUME NEW j \in Ingests, Active(j) PROVE doc[i] # doc[j]
    <3>1. pc[j] # "idle"
      BY <2>2 DEF Active, Running, Replacing
    <3>2. \E d \in Docs : j = CallOf(d)
      BY <3>1 DEF CallInv
    <3> QED
      BY <2>1, <3>1, <3>2, CallOfType DEF CallInv
  <2> QED
    BY <1>1, <2>1, <2>2 DEF Receive, Serial!Receive, Serial!MayOverlap, Serial!Active,
       Active, Serial!Running, Running, Serial!Replacing, Replacing,
       Goto, Serial!Goto, thread, Serial!thread, space, Serial!space
<1>2. ASSUME NEW i \in Ingests, Step(i) PROVE Serial!Step(i)
  BY <1>2 DEF Step, Serial!Step, Parse, Serial!Parse, Extract, Serial!Extract, Delete,
     Serial!Delete, Embed, Serial!Embed, Ensure, Serial!Ensure, DropCollection,
     Serial!DropCollection, CreateCollection, Serial!CreateCollection, Upsert,
     Serial!Upsert, Raise, Serial!Raise, Goto, Serial!Goto, Kept, Serial!Kept,
     DocumentFilter, Serial!DocumentFilter, thread, Serial!thread, space, Serial!space,
     NoDim, Serial!NoDim
<1>3. ASSUME Restart PROVE Serial!Restart
  BY <1>3 DEF Restart, Serial!Restart, Active, Serial!Active, BootDims, Serial!BootDims,
     Running, Serial!Running, Replacing, Serial!Replacing, thread, Serial!thread,
     NoDim, Serial!NoDim
<1>4. CASE UNCHANGED allVars
  BY <1>4 DEF allVars
<1>5. ASSUME NEW r \in Runs, Orchestrator(r) PROVE UNCHANGED vars
  BY <1>5, OrchestratorStep
<1>6. CASE Service
  <2>1. CASE \E i \in sent : Receive(i)
    BY <2>1, <1>1 DEF Serial!Next
  <2>2. CASE \E i \in Ingests : Step(i)
    BY <2>2, <1>2 DEF Serial!Next
  <2>3. CASE Restart
    BY <2>3, <1>3 DEF Serial!Next
  <2> QED
    BY <1>6, <2>1, <2>2, <2>3 DEF Service
<1>7. CASE \E r \in Runs : Orchestrator(r)
  BY <1>5, <1>7
<1> QED
  BY <1>4, <1>6, <1>7 DEF RunNext

\* The pipeline's use of the parsing service implements the service that never
\* has two calls for one document in progress: the assumption under which a
\* document's claims are whole holds, although nothing in the service enforces it.
THEOREM UsedSerially == RunSpec => UsesSerially
<1>1. RunInit => Serial!Init
  BY DEF RunInit, Init, Serial!Init, NoDim, Serial!NoDim
<1>2. CallsInv /\ [RunNext]_allVars => [Serial!Next]_vars
  BY SerialStep
<1>4. CallsInv /\ [RunNext]_allVars => [Serial!Next]_Serial!vars
  BY <1>2 DEF Serial!vars, vars
<1> QED
  BY <1>1, <1>4, CallsInvariant, PTL DEF RunSpec, UsesSerially, Serial!Spec

-----------------------------------------------------------------------------
(* What a document's one call has written. *)

\* Two documents have different calls.
LEMMA CallOfInjective ==
  ASSUME NEW d \in Docs, NEW e \in Docs, CallOf(d) = CallOf(e)
  PROVE  d = e
  BY CallOfType

\* A document has the claims its one call wrote or none, and none until that call
\* is over: what a deletion may leave behind was never there.
WrittenInv ==
  /\ WholeOrNone
  /\ \A d \in Docs : pc[CallOf(d)] \notin {"ok", "failed", "lost"} => stored[d] = {}

LEMMA WrittenInit == RunInit => WrittenInv
  BY DEF RunInit, Init, WrittenInv, WholeOrNone

\* A step of a call under way.
LEMMA WrittenCall ==
  ASSUME CallsInv, WrittenInv, NEW i \in Ingests, Step(i)
  PROVE  WrittenInv'
<1> USE DEF CallsInv, WrittenInv, WholeOrNone, Goto, Raise, thread, space
<1>1. PICK e \in Docs : i = CallOf(e) /\ doc[i] = e
  <2>1. pc[i] # "idle"
    BY DEF Step, Parse, Extract, Delete, Embed, Ensure, DropCollection,
           CreateCollection, Upsert
  <2>2. PICK e \in Docs : i = CallOf(e)
    BY <2>1 DEF CallInv
  <2> QED
    BY <2>2, CallOfType DEF CallInv
<1>2. stored[e] = {}
  BY <1>1 DEF Step, Parse, Extract, Delete, Embed, Ensure, DropCollection,
              CreateCollection, Upsert
<1>3. \A d \in Docs : d # e => pc'[CallOf(d)] = pc[CallOf(d)]
  <2> SUFFICES ASSUME NEW d \in Docs, d # e PROVE pc'[CallOf(d)] = pc[CallOf(d)]
    OBVIOUS
  <2>1. CallOf(d) # i /\ CallOf(d) \in Ingests
    BY <1>1, CallOfInjective, CallOfType
  <2> QED
    BY <2>1 DEF Step, Parse, Extract, Delete, Embed, Ensure, DropCollection,
                CreateCollection, Upsert, TypeOK
\* A step that stores nothing leaves the call's own document empty.
<1>4. CASE (stored' = stored \/ \A d \in Docs : stored'[d] \in {{}, stored[d]}) /\
           \A d \in Docs : d # e => last'[d] = last[d]
  BY <1>2, <1>3, <1>4
<1>5. CASE Parse(i) \/ Extract(i) \/ Embed(i) \/ Ensure(i) \/ CreateCollection(i)
  <2>1. stored' = stored /\ last' = last
    BY <1>5 DEF Parse, Extract, Embed, Ensure, CreateCollection
  <2> QED
    BY <1>4, <2>1
<1>6. CASE Delete(i)
  <2>1. /\ \A d \in Docs : stored'[d] \in {{}, stored[d]}
        /\ \A d \in Docs : d # e => last'[d] = last[d]
    BY <1>1, <1>6 DEF Delete, DocumentFilter, TypeOK
  <2> QED
    BY <1>4, <2>1
<1>7. CASE DropCollection(i)
  <2>1. (\A d \in Docs : stored'[d] \in {{}, stored[d]}) /\ last' = last
    BY <1>7 DEF DropCollection
  <2> QED
    BY <1>4, <2>1
<1>8. CASE Upsert(i)
  <2>1. CASE stored' = stored /\ last' = last
    BY <1>4, <2>1
  <2>2. CASE /\ stored' = [stored EXCEPT ![doc[i]] = @ \cup found[i]]
             /\ last' = [last EXCEPT ![doc[i]] = found[i]]
             /\ Goto(i, "ok") \/ Goto(i, "failed")
    <3>1. \A d \in Docs : d # e => stored'[d] = stored[d] /\ last'[d] = last[d]
      BY <1>1, <2>2 DEF TypeOK
    <3>2. stored'[e] = found[i] /\ last'[e] = found[i]
      BY <1>1, <1>2, <2>2 DEF TypeOK
    <3>3. pc'[CallOf(e)] \in {"ok", "failed"}
      BY <1>1, <2>2 DEF TypeOK
    <3> QED
      BY <1>3, <3>1, <3>2, <3>3
  <2> QED
    BY <1>8, <2>1, <2>2 DEF Upsert
<1> QED
  BY <1>5, <1>6, <1>7, <1>8 DEF Step

LEMMA WrittenStep ==
  ASSUME CallsInv, WrittenInv, [RunNext]_allVars
  PROVE  WrittenInv'
<1> USE DEF CallsInv
<1>1. CASE UNCHANGED vars
  BY <1>1 DEF vars, WrittenInv, WholeOrNone
<1>2. CASE \E r \in Runs : Orchestrator(r)
  BY <1>1, <1>2, OrchestratorStep
<1>3. ASSUME stored' = stored, last' = last,
             \A i \in Ingests : pc'[i] \notin {"ok", "failed", "lost"} =>
                                pc[i] \notin {"ok", "failed", "lost"}
      PROVE  WrittenInv'
  BY <1>3, CallOfType DEF WrittenInv, WholeOrNone
<1>4. ASSUME NEW i \in sent, Receive(i) PROVE WrittenInv'
  BY <1>3, <1>4 DEF Receive, Goto, thread, space, TypeOK
<1>5. CASE Restart
  BY <1>3, <1>5 DEF Restart, Active, thread, TypeOK
<1>6. CASE Service
  BY <1>4, <1>5, <1>6, WrittenCall DEF Service
<1>7. CASE UNCHANGED allVars
  BY <1>1, <1>7 DEF allVars
<1> QED
  BY <1>2, <1>6, <1>7 DEF RunNext

\* With every overlap allowed in the service, with runs that go on while calls they
\* gave up on are still in progress, and although a deletion may be lost and
\* nobody told, a document's claims are those of one call, all of them, or none.
THEOREM DocumentsWhole == RunSpec => []WholeOrNone
<1>1. CallsInv /\ WrittenInv /\ [RunNext]_allVars => WrittenInv'
  BY WrittenStep
<1>2. WrittenInv => WholeOrNone
  BY DEF WrittenInv
<1> QED
  BY WrittenInit, CallsInvariant, <1>1, <1>2, PTL DEF RunSpec

-----------------------------------------------------------------------------
(* What one step of a call does to the store. *)

Early == {"idle", "parse", "extract"}

\* The store is left alone, or the old claims of the call's document go, or its
\* new claims come, or the collection goes with everything in it.
Emptied(i) ==
  /\ pc[i] = "delete"
  /\ stored' = [d \in Docs |-> IF d = doc[i] THEN {} ELSE stored[d]]
Wrote(i) ==
  /\ pc[i] = "upsert" /\ coll # NoDim
  /\ stored' = [stored EXCEPT ![doc[i]] = @ \cup found[i]]
Dropped(i) ==
  /\ pc[i] = "drop" /\ coll' = NoDim
  /\ stored' = [d \in Docs |-> {}]

\* A call that ends well has written its claims, or had none.
WellEnded(i) ==
  \/ Wrote(i)
  \/ pc[i] = "delete" /\ found[i] = {} /\ (Emptied(i) \/ stored' = stored)

Effect(i) ==
  /\ Active(i) /\ doc' = doc
  /\ \E label \in Running \cup Stopped :
       /\ pc' = [pc EXCEPT ![i] = label]
       /\ label \in Early => pc[i] \in Early
       /\ label = "ok" => WellEnded(i)
  /\ \/ found' = found
     \/ /\ pc[i] = "extract" /\ stored' = stored
        /\ \E kept \in SUBSET Anchored[doc[i]] : found' = [found EXCEPT ![i] = kept]
  /\ stored' = stored \/ Emptied(i) \/ Wrote(i) \/ Dropped(i)
  /\ coll' = NoDim => coll = NoDim \/ Dropped(i)

LEMMA StepEffect ==
  ASSUME TypeOK, NEW i \in Ingests, Step(i)
  PROVE  Effect(i)
<1> USE DEF TypeOK, Goto, Raise, Active, Running, Replacing, Stopped, Early, thread, space
<1>1. CASE Parse(i)
  BY <1>1 DEF Parse, Effect
<1>2. CASE Extract(i)
  <2>1. CASE Raise(i, "extract")
    BY <1>2, <2>1 DEF Extract, Effect
  <2>2. ASSUME NEW proposed \in SUBSET Contents,
               found' = [found EXCEPT ![i] = Kept(i, proposed)],
               Goto(i, "delete"), UNCHANGED <<space, dim, doc, last>>
        PROVE  Effect(i)
    <3>1. Kept(i, proposed) \in SUBSET Anchored[doc[i]]
      BY DEF Kept
    <3> QED
      BY <1>2, <2>2, <3>1 DEF Extract, Effect
  <2> QED
    BY <1>2, <2>1, <2>2 DEF Extract
<1>3. CASE Delete(i)
  <2>1. (stored' = stored \/ Emptied(i)) /\ pc[i] = "delete" /\ found' = found /\ doc' = doc
        /\ coll' = coll
    BY <1>3 DEF Delete, DocumentFilter, Emptied
  <2>2. CASE found[i] # {} /\ Goto(i, "embed")
    BY <2>1, <2>2 DEF Effect
  <2>3. CASE found[i] = {} /\ Goto(i, "ok")
    BY <2>1, <2>3 DEF Effect, WellEnded
  <2> QED
    BY <1>3, <2>2, <2>3 DEF Delete
<1>4. CASE Embed(i)
  BY <1>4 DEF Embed, Effect
<1>5. CASE Ensure(i)
  BY <1>5 DEF Ensure, Effect
<1>6. CASE DropCollection(i)
  BY <1>6 DEF DropCollection, Dropped, Effect
<1>7. CASE CreateCollection(i)
  BY <1>7, ConstantsOK DEF CreateCollection, Effect
<1>8. CASE Upsert(i)
  <2>1. CASE coll = dim /\ stored' = [stored EXCEPT ![doc[i]] = @ \cup found[i]]
    <3>1. Wrote(i) /\ found' = found /\ doc' = doc /\ coll' = coll /\ coll # NoDim
      BY <1>8, <2>1, ConstantsOK DEF Upsert, Wrote
    <3>2. CASE Goto(i, "ok")
      BY <1>8, <3>1, <3>2 DEF Upsert, Effect, WellEnded
    <3>3. CASE Goto(i, "failed")
      BY <1>8, <3>1, <3>3 DEF Upsert, Effect
    <3> QED
      BY <1>8, <3>2, <3>3 DEF Upsert
  <2>2. CASE Goto(i, "failed") /\ UNCHANGED <<space, dim, thread, last>>
    BY <1>8, <2>2 DEF Upsert, Effect
  <2> QED
    BY <1>8, <2>1, <2>2 DEF Upsert
<1> QED
  BY <1>1, <1>2, <1>3, <1>4, <1>5, <1>6, <1>7, <1>8 DEF Step

-----------------------------------------------------------------------------
(* What is stored, read and acknowledged. *)

\* A document has the claims its call extracted or none, and none while there
\* is no collection.
StoreInv ==
  /\ \A i \in Ingests : found[i] \subseteq Anchored[doc[i]]
  /\ \A d \in Docs : stored[d] # {} =>
       pc[CallOf(d)] \notin Early /\ stored[d] = found[CallOf(d)]
  /\ coll = NoDim => \A d \in Docs : stored[d] = {}

\* What a run has read was in the store, and its call extracts nothing any more.
GraphInv ==
  /\ graph \in [Runs -> [Docs -> SUBSET Contents]]
  /\ \A r \in Runs, d \in Docs : graph[r][d] # {} =>
       /\ d \in Papers(r)
       /\ pc[CallOf(d)] \notin Early
       /\ graph[r][d] \subseteq Anchored[d]
       /\ graph[r][d] = found[CallOf(d)] \cap Findings

\* A run that was not wiped finds the claims of its calls that ended well.
KeptInv ==
  /\ wiped \subseteq Runs
  /\ acked \subseteq Docs
  /\ \A d \in acked : pc[CallOf(d)] = "ok"
  /\ \A r \in Runs, d \in Docs :
       d \in Papers(r) /\ CallOf(d) \in sent => phase[r] # "waiting"
  /\ \A r \in Runs \ wiped, d \in Docs :
       /\ d \in Papers(r)
       /\ phase[r] \in {"ingest", "synthesis"}
       /\ pc[CallOf(d)] = "ok"
       => stored[d] = found[CallOf(d)]
  /\ AcknowledgedKept

SynthesisInv == CallsInv /\ StoreInv /\ GraphInv /\ KeptInv

\* A document is in one project.
LEMMA OneProject ==
  ASSUME NEW r \in Runs, NEW s \in Runs, NEW d \in Papers(r), d \in Papers(s)
  PROVE  r = s /\ d \in Docs
  BY RunAssumption, PlacesType DEF Papers

LEMMA SynthesisInit == RunInit => SynthesisInv
<1> SUFFICES ASSUME RunInit PROVE SynthesisInv
  OBVIOUS
<1>1. CallsInv
  BY CallsInit
<1>2. StoreInv
  BY DEF RunInit, Init, StoreInv
<1>3. GraphInv
  BY DEF RunInit, Init, GraphInv
<1>4. KeptInv
  <2>1. \A d \in Docs : pc[CallOf(d)] = "idle"
    BY CallOfType DEF RunInit, Init
  <2> QED
    BY <2>1 DEF RunInit, KeptInv, AcknowledgedKept
<1> QED
  BY <1>1, <1>2, <1>3, <1>4 DEF SynthesisInv

\* A step of a call under way.
LEMMA CallKeeps ==
  ASSUME SynthesisInv, CallsInv', Service, NEW i \in Ingests, Step(i)
  PROVE  StoreInv' /\ GraphInv' /\ KeptInv'
<1> USE DEF SynthesisInv, CallsInv
<1>1. Effect(i)
  BY StepEffect
<1>2. /\ UNCHANGED <<phase, sent, acked, graph>> /\ doc' = doc
      /\ wiped \subseteq wiped' /\ wiped' \subseteq Runs
      /\ coll # NoDim /\ coll' = NoDim =>
           \A r \in Runs : phase[r] \in {"ingest", "synthesis"} => r \in wiped'
  BY <1>1 DEF Service, KeptInv, Effect
<1>3. PICK e \in Docs : i = CallOf(e) /\ doc[i] = e
  <2>1. pc[i] # "idle"
    BY <1>1 DEF Effect, Active, Running, Replacing
  <2>2. PICK e \in Docs : i = CallOf(e)
    BY <2>1 DEF CallInv
  <2> QED
    BY <2>2, CallOfType DEF CallInv
<1>4. PICK label \in Running \cup Stopped :
        /\ pc' = [pc EXCEPT ![i] = label]
        /\ label \in Early => pc[i] \in Early
        /\ label = "ok" => WellEnded(i)
  BY <1>1 DEF Effect
<1>5. \A d \in Docs : d # e => CallOf(d) # i /\ CallOf(d) \in Ingests
  BY <1>3, CallOfInjective, CallOfType
<1>6. \A d \in Docs : pc[CallOf(d)] \notin Early =>
        pc'[CallOf(d)] \notin Early /\ found'[CallOf(d)] = found[CallOf(d)]
  <2> SUFFICES ASSUME NEW d \in Docs, pc[CallOf(d)] \notin Early
               PROVE  pc'[CallOf(d)] \notin Early /\ found'[CallOf(d)] = found[CallOf(d)]
    OBVIOUS
  <2>1. CASE d = e
    BY <1>1, <1>3, <1>4, <2>1 DEF Effect, Early, TypeOK
  <2>2. CASE d # e
    BY <1>1, <1>4, <1>5, <2>2 DEF Effect, TypeOK
  <2> QED
    BY <2>1, <2>2
<1>7. \A d \in Docs : d # e => stored'[d] = stored[d] \/ (Dropped(i) /\ stored'[d] = {})
  BY <1>1, <1>3 DEF Effect, Emptied, Wrote, Dropped, TypeOK
<1>8. stored'[e] \in {{}, stored[e]} \/ (Wrote(i) /\ stored'[e] = found[i])
  <2>1. stored[e] \in {{}, found[i]}
    BY <1>3 DEF StoreInv
  <2>2. CASE Wrote(i)
    BY <1>3, <2>1, <2>2 DEF Wrote, TypeOK
  <2> QED
    BY <1>1, <1>3, <2>2 DEF Effect, Emptied, Dropped
<1>9. StoreInv'
  <2>1. ASSUME NEW j \in Ingests PROVE found'[j] \subseteq Anchored[doc'[j]]
    BY <1>1, <1>2 DEF StoreInv, Effect, TypeOK
  <2>2. ASSUME NEW d \in Docs, stored'[d] # {}
        PROVE  pc'[CallOf(d)] \notin Early /\ stored'[d] = found'[CallOf(d)]
    <3>1. CASE stored'[d] = stored[d]
      BY <1>6, <2>2, <3>1 DEF StoreInv
    <3>2. CASE d = e /\ Wrote(i) /\ stored'[e] = found[i]
      <4>1. pc[CallOf(d)] \notin Early
        BY <1>3, <3>2 DEF Wrote, Early
      <4> QED
        BY <1>3, <1>6, <3>2, <4>1
    <3> QED
      BY <1>7, <1>8, <2>2, <3>1, <3>2
  <2>3. ASSUME coll' = NoDim, NEW d \in Docs PROVE stored'[d] = {}
    <3>1. CASE Dropped(i)
      BY <3>1 DEF Dropped
    <3>2. CASE coll = NoDim
      BY <1>7, <1>8, <3>2 DEF StoreInv, Wrote
    <3> QED
      BY <1>1, <2>3, <3>1, <3>2 DEF Effect
  <2> QED
    BY <2>1, <2>2, <2>3 DEF StoreInv
<1>10. GraphInv'
  BY <1>2, <1>6 DEF GraphInv
<1>11. KeptInv'
  <2>1. \A d \in acked : pc[CallOf(d)] \notin Early /\ CallOf(d) # i /\ CallOf(d) \in Ingests
    BY <1>1, CallOfType DEF KeptInv, Early, Effect, Active, Running, Replacing
  <2>2. \A d \in acked' : pc'[CallOf(d)] = "ok"
    BY <1>2, <1>4, <2>1 DEF KeptInv, TypeOK
  <2>3. ASSUME NEW r \in Runs \ wiped', NEW d \in Docs, d \in Papers(r),
               phase'[r] \in {"ingest", "synthesis"}, pc'[CallOf(d)] = "ok"
        PROVE  stored'[d] = found'[CallOf(d)]
    <3>1. r \in Runs \ wiped /\ phase[r] \in {"ingest", "synthesis"}
      BY <1>2, <2>3
    <3>2. CASE d # e
      <4>1. pc[CallOf(d)] = "ok"
        BY <1>4, <1>5, <2>3, <3>2 DEF TypeOK
      <4>2. stored[d] = found[CallOf(d)] /\ found'[CallOf(d)] = found[CallOf(d)]
        BY <1>6, <2>3, <3>1, <4>1 DEF KeptInv, Early
      <4>3. CASE Dropped(i)
        BY <1>2, <1>7, <2>3, <3>1, <3>2, <4>2, <4>3 DEF Dropped, StoreInv
      <4> QED
        BY <1>7, <3>2, <4>2, <4>3
    <3>3. CASE d = e
      <4>1. WellEnded(i)
        BY <1>3, <1>4, <2>3, <3>3 DEF TypeOK
      <4>2. found'[i] = found[i] /\ stored[e] \in {{}, found[i]}
        BY <1>3, <1>6, <4>1 DEF WellEnded, Wrote, Early, StoreInv
      <4>3. CASE Wrote(i)
        BY <1>3, <3>3, <4>2, <4>3 DEF Wrote, TypeOK
      <4>4. CASE found[i] = {} /\ (Emptied(i) \/ stored' = stored)
        BY <1>3, <3>3, <4>2, <4>4 DEF Emptied
      <4> QED
        BY <4>1, <4>3, <4>4 DEF WellEnded
    <3> QED
      BY <3>2, <3>3
  <2>4. ASSUME NEW r \in Runs \ wiped', phase'[r] = "done", NEW d \in Papers(r) \cap acked'
        PROVE  graph'[r][d] = found'[<<d, 1>>] \cap Findings
    <3>1. r \in Runs \ wiped /\ phase[r] = "done" /\ d \in Papers(r) \cap acked
      BY <1>2, <2>4
    <3>2. graph[r][d] = found[<<d, 1>>] \cap Findings
      BY <3>1 DEF KeptInv, AcknowledgedKept
    <3>3. found'[<<d, 1>>] = found[<<d, 1>>]
      BY <1>6, <2>1, <3>1 DEF KeptInv, CallOf
    <3> QED
      BY <1>2, <3>2, <3>3
  <2>5. AcknowledgedKept'
    BY <2>4 DEF AcknowledgedKept, Papers, Places
  <2> QED
    BY <1>2, <2>2, <2>3, <2>5 DEF KeptInv
<1> QED
  BY <1>9, <1>10, <1>11

\* A call arrives, or the service is started again.
LEMMA ArrivalKeeps ==
  ASSUME SynthesisInv, CallsInv', Service,
         (\E i \in sent : Receive(i)) \/ Restart
  PROVE  StoreInv' /\ GraphInv' /\ KeptInv'
<1> USE DEF SynthesisInv, CallsInv
<1>0. \A d \in Docs : CallOf(d) \in Ingests
  BY CallOfType
<1>a. UNCHANGED <<phase, sent, acked, graph>>
  BY DEF Service
<1>b. UNCHANGED <<stored, coll, found, doc>>
  BY DEF Receive, Restart, space, thread
<1>c. \A i \in Ingests : pc[i] \notin Early => pc'[i] \notin Early
  <2>1. ASSUME NEW i \in sent, Receive(i)
        PROVE  \A j \in Ingests : pc[j] \notin Early => pc'[j] \notin Early
    BY <2>1 DEF Receive, Goto, Early, TypeOK
  <2>2. ASSUME Restart
        PROVE  \A j \in Ingests : pc[j] \notin Early => pc'[j] \notin Early
    BY <2>2 DEF Restart, Active, Running, Replacing, Early
  <2> QED
    BY <2>1, <2>2
<1>d. \A i \in Ingests : (pc[i] = "ok") <=> (pc'[i] = "ok")
  <2>1. ASSUME NEW i \in sent, Receive(i)
        PROVE  \A j \in Ingests : (pc[j] = "ok") <=> (pc'[j] = "ok")
    BY <2>1 DEF Receive, Goto, TypeOK
  <2>2. ASSUME Restart
        PROVE  \A j \in Ingests : (pc[j] = "ok") <=> (pc'[j] = "ok")
    BY <2>2 DEF Restart, Active, Running, Replacing
  <2> QED
    BY <2>1, <2>2
<1>2. wiped' = wiped
  BY <1>a, <1>b, <1>c, <1>d DEF Service
<1>3. StoreInv'
  BY <1>0, <1>a, <1>b, <1>c, <1>d DEF StoreInv
<1>4. GraphInv'
  BY <1>0, <1>a, <1>b, <1>c, <1>d DEF GraphInv, Papers, Places
<1>5. AcknowledgedKept'
  BY <1>a, <1>b, <1>c, <1>d, <1>2 DEF KeptInv, AcknowledgedKept, Papers, Places
<1>6. KeptInv'
  BY <1>0, <1>a, <1>b, <1>c, <1>d, <1>2, <1>5 DEF KeptInv, Papers, Places
<1> QED
  BY <1>3, <1>4, <1>6

\* The service keeps it all.
LEMMA ServiceKeeps ==
  ASSUME SynthesisInv, CallsInv', Service
  PROVE  StoreInv' /\ GraphInv' /\ KeptInv'
  BY ArrivalKeeps, CallKeeps DEF Service

\* What a step of a run does to what it shares with the others.
LEMMA OrchestratorEffect ==
  ASSUME CallsInv, NEW r \in Runs, Orchestrator(r)
  PROVE  /\ UNCHANGED vars /\ wiped' = wiped
         /\ phase[r] \in {"waiting", "ingest", "synthesis"}
         /\ \E p \in {"ingest", "synthesis", "done", "failed"} :
              /\ phase' = [phase EXCEPT ![r] = p]
              /\ p = "done" => Synthesize(r)
         /\ sent' \ sent \subseteq {CallOf(d) : d \in Papers(r)}
         /\ \/ acked' = acked
            \/ \E d \in Papers(r) : acked' = acked \cup {d} /\ pc[CallOf(d)] = "ok"
         /\ graph' = graph \/ Synthesize(r)
<1> USE DEF CallsInv
<1>1. CASE Begin(r)
  BY <1>1, ProceedStep DEF Begin
<1>2. CASE Answered(r)
  <2>1. place[r] + 1 \in Nat
    BY DEF RunInv
  <2>2. Manifest[r][place[r]] \in Papers(r) /\ Current(r) = CallOf(Manifest[r][place[r]])
    BY <1>2, PlacesType DEF RunInv, Answered, Current, CallOf
  <2>3. acked' = acked \cup {Manifest[r][place[r]]} /\ pc[Current(r)] = "ok"
    BY <1>2 DEF Answered
  <2>4. \E d \in Papers(r) : acked' = acked \cup {d} /\ pc[CallOf(d)] = "ok"
    BY <2>2, <2>3
  <2> QED
    BY <1>2, <2>1, <2>4, ProceedStep DEF Answered
<1>3. CASE GiveUp(r)
  <2>1. place[r] + 1 \in Nat /\ ~(try[r] <= IngestRetries)
    BY <1>3 DEF RunInv, GiveUp, IngestRetries
  <2> QED
    BY <1>3, <2>1, ProceedStep DEF GiveUp
<1>4. CASE Synthesize(r)
  BY <1>4 DEF Synthesize
<1>5. CASE SynthesisFails(r)
  <2>1. CASE UNCHANGED phase
    <3>1. phase' = [phase EXCEPT ![r] = "synthesis"]
      BY <1>5, <2>1 DEF SynthesisFails, RunInv
    <3> QED
      BY <1>5, <3>1 DEF SynthesisFails
  <2>2. CASE phase' = [phase EXCEPT ![r] = "failed"]
    BY <1>5, <2>2 DEF SynthesisFails
  <2> QED
    BY <1>5, <2>1, <2>2 DEF SynthesisFails
<1> QED
  BY <1>1, <1>2, <1>3, <1>4, <1>5 DEF Orchestrator

\* A step of a run keeps it all; only a synthesis has something to show.
LEMMA OrchestratorKeeps ==
  ASSUME SynthesisInv, NEW r \in Runs, Orchestrator(r)
  PROVE  StoreInv' /\ GraphInv' /\ KeptInv'
<1> USE DEF SynthesisInv
<1>1. UNCHANGED vars /\ wiped' = wiped
  BY OrchestratorEffect
<1>2. PICK p \in {"ingest", "synthesis", "done", "failed"} :
        /\ phase' = [phase EXCEPT ![r] = p]
        /\ p = "done" => Synthesize(r)
  BY OrchestratorEffect
<1>3. phase[r] \in {"waiting", "ingest", "synthesis"}
  BY OrchestratorEffect
<1>4. phase \in [Runs -> {"waiting", "ingest", "synthesis", "done", "failed"}]
  BY DEF CallsInv, RunInv
<1>5. StoreInv'
  BY <1>1 DEF vars, StoreInv
<1>6. ASSUME Synthesize(r), NEW d \in Papers(r)
      PROVE  d \in Docs /\ graph'[r][d] = stored[d] \cap Findings
  <2>1. d \in Docs
    BY OneProject
  <2> QED
    BY <1>6, <2>1 DEF Synthesize, Fetched, GraphInv
<1>7. GraphInv'
  <2>1. CASE graph' = graph
    BY <1>1, <2>1 DEF vars, GraphInv, Papers, Places
  <2>2. CASE Synthesize(r)
    <3>1. graph' = [graph EXCEPT ![r] = Fetched(r)]
      BY <2>2 DEF Synthesize
    <3>2. Fetched(r) \in [Docs -> SUBSET Contents]
      BY DEF Fetched, CallsInv, TypeOK
    <3>3. graph' \in [Runs -> [Docs -> SUBSET Contents]]
      BY <3>1, <3>2 DEF GraphInv
    <3>4. ASSUME NEW s \in Runs, NEW d \in Docs, graph'[s][d] # {}
          PROVE  /\ d \in Papers(s)
                 /\ pc[CallOf(d)] \notin Early
                 /\ graph'[s][d] \subseteq Anchored[d]
                 /\ graph'[s][d] = found[CallOf(d)] \cap Findings
      <4>1. CASE s # r
        BY <3>1, <3>4, <4>1 DEF GraphInv
      <4>2. CASE s = r
        <5>1. graph'[s] = Fetched(r)
          BY <3>1, <4>2 DEF GraphInv
        <5>2. d \in Papers(s) /\ graph'[s][d] = stored[d] \cap Findings /\ stored[d] # {}
          BY <3>4, <4>2, <5>1 DEF Fetched
        <5>3. pc[CallOf(d)] \notin Early /\ stored[d] = found[CallOf(d)]
          BY <5>2 DEF StoreInv
        <5>4. found[CallOf(d)] \subseteq Anchored[d]
          BY CallOfType DEF StoreInv, CallsInv, CallInv
        <5> QED
          BY <5>2, <5>3, <5>4
      <4> QED
        BY <4>1, <4>2
    <3> QED
      BY <1>1, <3>3, <3>4 DEF vars, GraphInv, Papers, Places
  <2> QED
    BY <2>1, <2>2, OrchestratorEffect
<1>8. \A d \in acked' : d \in Docs /\ pc[CallOf(d)] = "ok" /\ (d \in acked \/ d \in Papers(r))
  <2> SUFFICES ASSUME NEW d \in acked'
               PROVE  d \in Docs /\ pc[CallOf(d)] = "ok" /\ (d \in acked \/ d \in Papers(r))
    OBVIOUS
  <2>1. CASE d \in acked
    BY <2>1 DEF KeptInv
  <2>2. CASE d \notin acked
    <3>1. \E e \in Papers(r) : acked' = acked \cup {e} /\ pc[CallOf(e)] = "ok"
      BY <2>2, OrchestratorEffect
    <3>2. d \in Papers(r) /\ pc[CallOf(d)] = "ok"
      BY <2>2, <3>1
    <3> QED
      BY <3>2, OneProject
  <2> QED
    BY <2>1, <2>2
<1>9. ASSUME NEW s \in Runs, NEW d \in Docs, d \in Papers(s), CallOf(d) \in sent'
      PROVE  phase'[s] # "waiting"
  <2>1. CASE CallOf(d) \in sent
    BY <1>2, <1>4, <1>9, <2>1 DEF KeptInv
  <2>2. CASE CallOf(d) \notin sent
    <3>1. PICK e \in Papers(r) : CallOf(d) = CallOf(e)
      BY <1>9, <2>2, OrchestratorEffect
    <3>2. s = r
      BY <1>9, <3>1, OneProject, CallOfInjective
    <3> QED
      BY <1>2, <1>4, <3>2
  <2> QED
    BY <2>1, <2>2
<1>10. ASSUME NEW s \in Runs \ wiped, NEW d \in Docs, d \in Papers(s),
              phase'[s] \in {"ingest", "synthesis"}, pc[CallOf(d)] = "ok"
       PROVE  stored[d] = found[CallOf(d)]
  <2>1. CASE phase[s] \in {"ingest", "synthesis"}
    BY <1>10, <2>1 DEF KeptInv
  <2>2. CASE phase[s] \notin {"ingest", "synthesis"}
    <3>1. phase[s] = "waiting"
      BY <1>2, <1>3, <1>4, <1>10, <2>2
    <3>2. CallOf(d) \in sent
      BY <1>10, CallOfType DEF CallsInv, CallInv
    <3> QED
      BY <1>10, <3>1, <3>2 DEF KeptInv
  <2> QED
    BY <2>1, <2>2
<1>11. ASSUME NEW s \in Runs \ wiped, phase'[s] = "done", NEW d \in Papers(s) \cap acked'
       PROVE  graph'[s][d] = found[<<d, 1>>] \cap Findings
  <2>1. CASE s # r
    <3>1. phase[s] = "done" /\ d \in acked
      BY <1>2, <1>4, <1>8, <1>11, <2>1, OneProject
    <3>2. graph'[s] = graph[s]
      BY <2>1, OrchestratorEffect DEF Synthesize, GraphInv
    <3> QED
      BY <1>11, <3>1, <3>2 DEF KeptInv, AcknowledgedKept
  <2>2. CASE s = r
    <3>1. Synthesize(r)
      BY <1>2, <1>4, <1>11, <2>2
    <3>2. phase[r] = "synthesis" /\ pc[CallOf(d)] = "ok"
      BY <1>8, <1>11, <3>1 DEF Synthesize
    <3>3. d \in Docs /\ graph'[r][d] = stored[d] \cap Findings
      BY <1>6, <1>11, <2>2, <3>1
    <3>4. stored[d] = found[CallOf(d)]
      BY <1>11, <2>2, <3>2, <3>3 DEF KeptInv
    <3> QED
      BY <2>2, <3>3, <3>4 DEF CallOf
  <2> QED
    BY <2>1, <2>2
<1>12. AcknowledgedKept'
  BY <1>1, <1>11 DEF AcknowledgedKept, vars, Papers, Places
<1>13. KeptInv'
  BY <1>1, <1>8, <1>9, <1>10, <1>12 DEF KeptInv, vars, Papers, Places
<1> QED
  BY <1>5, <1>7, <1>13

LEMMA SynthesisStep == ASSUME SynthesisInv, [RunNext]_allVars PROVE SynthesisInv'
<1>1. CallsInv'
  BY CallsStep DEF SynthesisInv
<1>2. StoreInv' /\ GraphInv' /\ KeptInv'
  <2>1. CASE UNCHANGED allVars
    BY <2>1 DEF allVars, vars, runVars, SynthesisInv, StoreInv, GraphInv, KeptInv,
                AcknowledgedKept, Papers, Places
  <2> QED
    BY <1>1, <2>1, ServiceKeeps, OrchestratorKeeps DEF RunNext
<1> QED
  BY <1>1, <1>2 DEF SynthesisInv

LEMMA SynthesisInvariant == RunSpec => []SynthesisInv
<1>1. SynthesisInv /\ [RunNext]_allVars => SynthesisInv'
  BY SynthesisStep
<1> QED
  BY SynthesisInit, <1>1, PTL DEF RunSpec

\* The variables of the composition keep their types, and no run ever sends more
\* papers than the cap.
THEOREM RunTypeCorrect == RunSpec => []RunTypeOK
<1>1. SynthesisInv => RunTypeOK
  <2> SUFFICES ASSUME SynthesisInv PROVE RunTypeOK
    OBVIOUS
  <2>1. sent \subseteq Ingests
    BY CallOfType DEF SynthesisInv, CallsInv, CallInv
  <2> QED
    BY <2>1 DEF SynthesisInv, CallsInv, RunInv, GraphInv, KeptInv, RunTypeOK
<1> QED
  BY <1>1, SynthesisInvariant, PTL

\* What a run synthesizes are findings of its own papers, anchored in them, and of
\* each paper all that its call extracted or none, even if the call was given up
\* on and still works, and even if deletions get lost.
THEOREM GraphCorrect == RunSpec => []GraphSound
<1>1. SynthesisInv => GraphSound
  BY DEF SynthesisInv, GraphInv, GraphSound, CallOf
<1> QED
  BY <1>1, SynthesisInvariant, PTL

\* The findings of every paper answered in time reach the graph of a run, unless
\* the collection was dropped while it was under way.
THEOREM AcknowledgedCorrect == RunSpec => []AcknowledgedKept
<1>1. SynthesisInv => AcknowledgedKept
  BY DEF SynthesisInv, KeptInv
<1> QED
  BY <1>1, SynthesisInvariant, PTL

-----------------------------------------------------------------------------
(* What a run still has to do: the part of its termination that is not fairness. *)

\* The steps the orchestrator may still take for r: one for each place left and for
\* each attempt of the synthesis.
Left(r) ==
  CASE phase[r] = "waiting"   -> Len(Manifest[r]) + SynthesisRetries + 3
    [] phase[r] = "ingest"    -> (Len(Manifest[r]) - place[r]) + SynthesisRetries + 3
    [] phase[r] = "synthesis" -> SynthesisRetries + 2 - try[r]
    [] OTHER                  -> 0

LeftInv ==
  \A r \in Runs : /\ Left(r) \in 0..(Len(Manifest[r]) + SynthesisRetries + 3)
                  /\ Left(r) = 0 <=> Over(r)

LEMMA LeftType == CallsInv => LeftInv
<1> SUFFICES ASSUME CallsInv, NEW r \in Runs
             PROVE  /\ Left(r) \in 0..(Len(Manifest[r]) + SynthesisRetries + 3)
                    /\ Left(r) = 0 <=> Over(r)
  BY DEF LeftInv
<1> USE DEF CallsInv
<1>1. Len(Manifest[r]) \in Nat /\ Places(r) = 1..Len(Manifest[r])
  BY RunAssumption DEF Places
<1>2. phase[r] \in {"waiting", "ingest", "synthesis", "done", "failed"} /\ try[r] \in 0..3
  BY DEF RunInv, SynthesisRetries
<1>3. CASE phase[r] = "ingest"
  <2>1. place[r] \in 1..Len(Manifest[r])
    BY <1>1, <1>3 DEF RunInv
  <2> QED
    BY <1>1, <1>3, <2>1 DEF Left, Over, SynthesisRetries
<1> QED
  BY <1>1, <1>2, <1>3 DEF Left, Over, SynthesisRetries

\* The loop goes on from a place further on, or ends.
LEMMA ProceedAdvances ==
  ASSUME RunInv, NEW r \in Runs, NEW k \in Nat, Proceed(r, k),
         \/ phase[r] = "waiting" /\ k = 1
         \/ phase[r] = "ingest" /\ k = place[r] + 1
  PROVE  Left(r)' < Left(r)
<1>1. Len(Manifest[r]) \in Nat /\ Places(r) = 1..Len(Manifest[r])
  BY RunAssumption DEF Places
<1>2. place[r] \in Nat /\ (phase[r] = "ingest" => place[r] <= Len(Manifest[r]))
  BY <1>1 DEF RunInv
<1>3. CASE \E l \in Eligible(r, k) : place' = [place EXCEPT ![r] = l]
           /\ phase' = [phase EXCEPT ![r] = "ingest"]
  <2>1. PICK l \in Eligible(r, k) : place' = [place EXCEPT ![r] = l]
           /\ phase' = [phase EXCEPT ![r] = "ingest"]
    BY <1>3
  <2>2. l \in 1..Len(Manifest[r]) /\ l >= k
    BY <1>1 DEF Eligible
  <2>3. phase'[r] = "ingest" /\ place'[r] = l
    BY <2>1 DEF RunInv
  <2>4. Left(r)' = (Len(Manifest[r]) - l) + 2 + 3
    BY <2>3 DEF Left, SynthesisRetries
  <2>5. CASE phase[r] = "waiting"
    <3>1. Left(r) = Len(Manifest[r]) + 2 + 3
      BY <2>5 DEF Left, SynthesisRetries
    <3> QED
      BY <1>1, <2>2, <2>4, <3>1
  <2>6. CASE phase[r] = "ingest" /\ k = place[r] + 1
    <3>1. Left(r) = (Len(Manifest[r]) - place[r]) + 2 + 3
      BY <2>6 DEF Left, SynthesisRetries
    <3> QED
      BY <1>1, <1>2, <2>2, <2>4, <2>6, <3>1
  <2> QED
    BY <2>5, <2>6
<1>4. CASE phase' = [phase EXCEPT ![r] = "synthesis"]
  <2>1. phase'[r] = "synthesis" /\ try'[r] = 1
    BY <1>4 DEF RunInv, Proceed
  <2> QED
    BY <1>1, <1>2, <2>1 DEF Left, SynthesisRetries
<1> QED
  BY <1>3, <1>4 DEF Proceed

\* A step of the orchestrator for r is one fewer to come, and leaves the others alone.
LEMMA OrchestratorAdvances ==
  ASSUME CallsInv, NEW r \in Runs, Orchestrator(r)
  PROVE  Left(r)' < Left(r) /\ \A s \in Runs \ {r} : Left(s)' = Left(s)
<1> USE DEF CallsInv
<1>1. Left(r)' < Left(r)
  <2>1. CASE Begin(r)
    BY <2>1, ProceedAdvances DEF Begin
  <2>2. CASE Answered(r)
    <3>1. place[r] + 1 \in Nat
      BY DEF RunInv
    <3> QED
      BY <2>2, <3>1, ProceedAdvances DEF Answered
  <2>3. CASE GiveUp(r)
    <3>1. place[r] + 1 \in Nat /\ ~(try[r] <= IngestRetries)
      BY <2>3 DEF RunInv, GiveUp, IngestRetries
    <3> QED
      BY <2>3, <3>1, ProceedAdvances DEF GiveUp
  <2>4. CASE Synthesize(r) \/ SynthesisFails(r)
    <3>1. phase[r] = "synthesis" /\ try[r] \in 0..3
      BY <2>4 DEF Synthesize, SynthesisFails, RunInv, SynthesisRetries
    <3>2. CASE phase'[r] \in {"done", "failed"}
      BY <3>1, <3>2 DEF Left, SynthesisRetries
    <3>3. CASE phase'[r] = "synthesis" /\ try'[r] = try[r] + 1
      BY <3>1, <3>3 DEF Left, SynthesisRetries
    <3> QED
      BY <2>4, <3>2, <3>3 DEF Synthesize, SynthesisFails, RunInv
  <2> QED
    BY <2>1, <2>2, <2>3, <2>4 DEF Orchestrator
<1>2. ASSUME NEW s \in Runs \ {r} PROVE Left(s)' = Left(s)
  <2>1. phase'[s] = phase[s] /\ place'[s] = place[s] /\ try'[s] = try[s]
    BY DEF Orchestrator, Begin, Answered, GiveUp, Synthesize, SynthesisFails, Proceed, RunInv
  <2> QED
    BY <2>1 DEF Left
<1> QED
  BY <1>1, <1>2

Advances ==
  \A r \in Runs : Left(r)' <= Left(r) /\ (Orchestrator(r) => Left(r)' < Left(r))

\* A run that is over stays over, and until then every step of the orchestrator for
\* it uses up one of at most Len(Manifest[r]) + SynthesisRetries + 3, whatever the
\* services and the other runs do: with the fairness of its timers this is why
\* every run ends.
THEOREM StepsBounded ==
  RunSpec => /\ []LeftInv
             /\ [][Advances]_allVars
<1>1. ASSUME CallsInv, LeftInv, LeftInv', RunNext PROVE Advances
  <2> SUFFICES ASSUME NEW r \in Runs
               PROVE  Left(r)' <= Left(r) /\ (Orchestrator(r) => Left(r)' < Left(r))
    BY DEF Advances
  <2>1. Left(r) \in Nat /\ Left(r)' \in Nat
    <3>1. Len(Manifest[r]) + SynthesisRetries + 3 \in Nat
      BY RunAssumption DEF SynthesisRetries
    <3> QED
      BY <1>1, <3>1 DEF LeftInv
  <2>2. CASE Service
    <3>1. Left(r)' = Left(r) /\ phase' = phase /\ place' = place /\ try' = try
      BY <2>2 DEF Service, Left
    <3>2. ~Orchestrator(r)
      <4>1. Orchestrator(r) => Left(r)' < Left(r)
        BY <1>1, OrchestratorAdvances
      <4> QED
        BY <2>1, <3>1, <4>1
    <3> QED
      BY <2>1, <3>1, <3>2
  <2>3. ASSUME NEW s \in Runs, Orchestrator(s)
        PROVE  Left(r)' <= Left(r) /\ (Orchestrator(r) => Left(r)' < Left(r))
    <3>1. Orchestrator(r) => Left(r)' < Left(r)
      BY <1>1, OrchestratorAdvances
    <3>2. s # r => Left(r)' = Left(r)
      BY <1>1, <2>3, OrchestratorAdvances
    <3> QED
      BY <2>1, <2>3, <3>1, <3>2
  <2> QED
    BY <1>1, <2>2, <2>3 DEF RunNext
<1>2. CallsInv /\ LeftInv /\ LeftInv' /\ [RunNext]_allVars => [Advances]_allVars
  BY <1>1
<1> QED
  BY <1>2, LeftType, CallsInvariant, PTL DEF RunSpec
=============================================================================
