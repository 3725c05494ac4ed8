------------------------ MODULE PassageChat_proofs ------------------------
(***************************************************************************)
(* Proofs about PassageChat and PaperTable, for any documents, ingests,    *)
(* questions, views, bounds and faults: their types; that the chat         *)
(* abstains only when it may; and, provided that deletions are reliable,   *)
(* that an answer's citations are of one moment, and of each document of   *)
(* one ingest or of ingests that were in progress together, and so are the *)
(* rows of a table.                                                        *)
(***************************************************************************)
EXTENDS PaperTable, SequenceTheorems, TLAPS

\* A list of at most n members of S is a sequence over S.
LEMMA BoundedSeqType ==
  ASSUME NEW S, NEW n \in Nat, NEW s \in BoundedSeq(S, n)
  PROVE  s \in Seq(S)
<1>1. PICK m \in 0..n : s \in [1..m -> S]
  BY DEF BoundedSeq, SeqOf
<1> QED
  BY <1>1

LEMMA LimitType == Min({TopK, CandidateK}) \in Nat
<1>1. TopK \in Nat /\ CandidateK \in Nat
  BY ChatAssumption
<1>2. \E x \in {TopK, CandidateK} : \A y \in {TopK, CandidateK} : x =< y
  BY <1>1
<1> QED
  BY <1>1, <1>2 DEF Min

\* A search returns passages of the question's project.
LEMMA FoundType ==
  ASSUME NEW a \in Asks, NEW s \in Found(a)
  PROVE  s \in Seq(OfProject(a)) /\ ToSet(s) \subseteq OfProject(a)
<1>1. s = <<>> \/ s \in BoundedSeq(OfProject(a), Min({TopK, CandidateK}))
  BY DEF Found, Ranked, Searched
<1>2. s \in Seq(OfProject(a))
  BY <1>1, LimitType, BoundedSeqType, EmptySeq
<1> QED
  BY <1>2 DEF ToSet

\* The relevant passages are some of those that were graded.
LEMMA RelevantType ==
  ASSUME NEW a \in Asks, hits[a] \in Seq(Passages), hits[a] # <<>>, NEW s \in Relevant(a)
  PROVE  s \in Seq(Passages) /\ s # <<>> /\ ToSet(s) \subseteq ToSet(hits[a])
<1>1. CASE s = hits[a]
  BY <1>1
<1>2. CASE s # hits[a]
  <2>1. PICK r \in BoundedSeq(DOMAIN hits[a], MaxRelevant) \ {<<>>} :
          s = [k \in DOMAIN r |-> hits[a][r[k]]]
    BY <1>2 DEF Relevant
  <2>2. r \in Seq(DOMAIN hits[a]) /\ r # <<>>
    BY <2>1, BoundedSeqType, ChatAssumption
  <2>3. /\ DOMAIN r = 1..Len(r) /\ Len(r) \in Nat /\ Len(r) # 0
        /\ \A k \in DOMAIN r : r[k] \in DOMAIN hits[a] /\ hits[a][r[k]] \in Passages
    BY <2>2, EmptySeq
  <2>4. s \in Seq(Passages) /\ Len(s) = Len(r)
    BY <2>1, <2>3
  <2>5. ToSet(s) \subseteq ToSet(hits[a])
    BY <2>1, <2>3 DEF ToSet
  <2> QED
    BY <2>3, <2>4, <2>5
<1> QED
  BY <1>1, <1>2

-----------------------------------------------------------------------------
(* Types.  That a handler past its first search has passages is needed for *)
(* them, because a grade's numbers are looked up among the passages.       *)

HasHits ==
  \A a \in Asks :
    stage[a] \in {"grade", "rewrite", "search again", "grade again", "answer"} => hits[a] # <<>>

TypeInv == TypeOK /\ HasHits

LEMMA WriteTypes ==
  ASSUME TypeInv, NEW w \in Writes, Write(w)
  PROVE  TypeInv'
<1> USE DEF TypeInv, TypeOK, HasHits, store, ask, Goto, Fails, Gone, Writing
<1>0. WriteDoc[w] \in Docs
  BY ChatAssumption
<1>1. CASE Embed(w)
  <2>1. overlaps' \subseteq SUBSET Writes
    <3>1. \A v \in Beside(w) : {v, w} \in SUBSET Writes
      BY DEF Beside
    <3>2. overlaps' = overlaps \cup {{v, w} : v \in Beside(w)}
      BY <1>1 DEF Embed
    <3>3. overlaps \subseteq SUBSET Writes
      OBVIOUS
    <3> QED
      <4>1. ASSUME NEW pair \in overlaps'
            PROVE  pair \in SUBSET Writes
        <5>1. pair \in overlaps \/ \E v \in Beside(w) : pair = {v, w}
          BY <3>2, <4>1
        <5> QED
          BY ONLY <3>1, <3>3, <5>1
      <4> QED
        BY <4>1
  <2>2. UNCHANGED <<store, ask>> /\ pc' \in [Writes -> Writing \cup {"idle", "gone"}]
    BY <1>1 DEF Embed
  <2>3. parsed' \in [Writes -> SUBSET Positions]
    BY <1>1 DEF Embed
  <2> QED
    BY <2>1, <2>2, <2>3
<1>2. CASE Delete(w)
  BY <1>2 DEF Delete
<1>3. CASE Ensure(w)
  BY <1>3 DEF Ensure
<1>4. CASE DropCollection(w)
  BY <1>4 DEF DropCollection
<1>5. CASE CreateCollection(w)
  BY <1>5 DEF CreateCollection
<1>6. CASE Upsert(w)
  BY <1>0, <1>6 DEF Upsert, Passages
<1> QED
  BY <1>1, <1>2, <1>3, <1>4, <1>5, <1>6 DEF Write

\* A grading keeps passages, and of those graded only.
LEMMA JudgeTypes ==
  ASSUME TypeInv, NEW a \in Asks, hits[a] # <<>>,
         NEW grade \in Grades \cup {"none"}, Judge(a, grade)
  PROVE  /\ verdicts' \in [Asks -> Seq(Grades)]
         /\ hits' \in [Asks -> Seq(Passages)]
         /\ hits'[a] # <<>> /\ ToSet(hits'[a]) \subseteq ToSet(hits[a])
         /\ \A b \in Asks \ {a} : hits'[b] = hits[b] /\ verdicts'[b] = verdicts[b]
         /\ verdicts'[a] = IF grade = "none" THEN verdicts[a] ELSE Append(verdicts[a], grade)
<1> USE DEF TypeInv, TypeOK
<1>1. PICK s \in Relevant(a) \cup {hits[a]} : hits' = [hits EXCEPT ![a] = s]
  BY DEF Judge
<1>2. s \in Seq(Passages) /\ s # <<>> /\ ToSet(s) \subseteq ToSet(hits[a])
  BY <1>1, RelevantType
<1>3. hits' \in [Asks -> Seq(Passages)] /\ hits'[a] = s /\ \A b \in Asks \ {a} : hits'[b] = hits[b]
  BY <1>1, <1>2
<1>4. (IF grade = "none" THEN verdicts[a] ELSE Append(verdicts[a], grade)) \in Seq(Grades)
  <2>1. verdicts[a] \in Seq(Grades)
    OBVIOUS
  <2>2. grade \in Grades => Append(verdicts[a], grade) \in Seq(Grades)
    BY <2>1, AppendProperties
  <2> QED
    BY <2>1, <2>2
<1>5. verdicts' = [verdicts EXCEPT ![a] = IF grade = "none" THEN @ ELSE Append(@, grade)]
  BY DEF Judge
<1> QED
  BY <1>2, <1>3, <1>4, <1>5

\* A search's history gains the project's passages, its candidates are among them.
LEMMA LookTypes ==
  ASSUME TypeInv, NEW a \in Asks, Look(a)
  PROVE  /\ looked' \in [Asks -> Seq(SUBSET Passages)]
         /\ looked'[a] = Append(looked[a], OfProject(a))
         /\ \A b \in Asks \ {a} : looked'[b] = looked[b]
         /\ \A s \in Found(a) : s \in Seq(Passages)
<1> USE DEF TypeInv, TypeOK
<1>1. OfProject(a) \in SUBSET Passages
  BY DEF OfProject
<1>2. \A s \in Found(a) : s \in Seq(Passages)
  BY <1>1, FoundType, SeqMonotonic
<1>3. Append(looked[a], OfProject(a)) \in Seq(SUBSET Passages)
  <2>1. looked[a] \in Seq(SUBSET Passages)
    OBVIOUS
  <2> QED
    BY <1>1, <2>1, AppendProperties
<1> QED
  BY <1>2, <1>3 DEF Look

\* What becomes of the attempts.
LEMMA TryType ==
  /\ 0 \in 0..(AskRetries + 1) /\ 1 \in 0..(AskRetries + 1)
  /\ \A n \in 0..(AskRetries + 1) : n <= AskRetries => n + 1 \in 0..(AskRetries + 1)
  BY DEF AskRetries

LEMMA ChatTypes ==
  ASSUME TypeInv, NEW a \in Asks, Chat(a)
  PROVE  TypeInv'
<1> USE DEF TypeInv, TypeOK, HasHits, store, ingest, To, Reply, Handling
<1>1. CASE Ask(a)
  BY TryType, <1>1 DEF Ask
<1>2. CASE Search(a)
  <2>1. Look(a)
    BY <1>2 DEF Search
  <2>2. looked' \in [Asks -> Seq(SUBSET Passages)] /\ \A s \in Found(a) : s \in Seq(Passages)
    BY <2>1, LookTypes
  <2>3. hits' \in [Asks -> Seq(Passages)]
    BY <1>2, <2>2 DEF Search
  <2>4. HasHits'
    BY <1>2 DEF Search
  <2> QED
    BY <1>2, <2>2, <2>3, <2>4 DEF Search
<1>3. CASE Grade(a)
  <2>1. PICK grade \in Grades \cup {"none"} :
          Judge(a, grade) /\ To(a, IF Judged(grade) = "incorrect" THEN "rewrite" ELSE "answer")
    BY <1>3 DEF Grade
  <2>2. /\ verdicts' \in [Asks -> Seq(Grades)] /\ hits' \in [Asks -> Seq(Passages)]
        /\ hits'[a] # <<>> /\ \A b \in Asks \ {a} : hits'[b] = hits[b]
    BY <1>3, <2>1, JudgeTypes DEF Grade
  <2> QED
    BY <1>3, <2>1, <2>2 DEF Grade
<1>4. CASE Rewrite(a)
  BY <1>4 DEF Rewrite
<1>5. CASE SearchAgain(a)
  <2>1. Look(a)
    BY <1>5 DEF SearchAgain
  <2>2. looked' \in [Asks -> Seq(SUBSET Passages)] /\ \A s \in Found(a) : s \in Seq(Passages)
    BY <2>1, LookTypes
  <2>3. hits' \in [Asks -> Seq(Passages)]
    BY <1>5, <2>2 DEF SearchAgain
  <2>4. HasHits'
    BY <1>5 DEF SearchAgain
  <2> QED
    BY <1>5, <2>2, <2>3, <2>4 DEF SearchAgain
<1>6. CASE GradeAgain(a)
  <2>1. PICK grade \in Grades \cup {"none"} :
          /\ Judge(a, grade)
          /\ \/ Judged(grade) = "incorrect" /\ Reply(a, "abstained")
             \/ Judged(grade) # "incorrect" /\ To(a, "answer") /\ UNCHANGED reply
    BY <1>6 DEF GradeAgain
  <2>2. /\ verdicts' \in [Asks -> Seq(Grades)] /\ hits' \in [Asks -> Seq(Passages)]
        /\ hits'[a] # <<>> /\ \A b \in Asks \ {a} : hits'[b] = hits[b]
    BY <1>6, <2>1, JudgeTypes DEF GradeAgain
  <2> QED
    BY <1>6, <2>1, <2>2 DEF GradeAgain
<1>7. CASE Answer(a)
  BY <1>7 DEF Answer
<1>8. CASE Abandon(a)
  <2>1. <<>> \in Seq(Passages) /\ <<>> \in Seq(SUBSET Passages) /\ <<>> \in Seq(Grades)
    BY EmptySeq
  <2>2. /\ hits' \in [Asks -> Seq(Passages)]
        /\ looked' \in [Asks -> Seq(SUBSET Passages)]
        /\ verdicts' \in [Asks -> Seq(Grades)]
    BY <1>8, <2>1 DEF Abandon
  <2>3. try' \in [Asks -> 0..(AskRetries + 1)]
    <3>1. CASE try[a] <= AskRetries /\ try' = [try EXCEPT ![a] = @ + 1]
      <4>1. try[a] + 1 \in 0..(AskRetries + 1)
        BY <3>1, TryType
      <4> QED
        BY <3>1, <4>1
    <3>2. CASE UNCHANGED try
      BY <3>2
    <3> QED
      BY <1>8, <3>1, <3>2 DEF Abandon
  <2>4. /\ stage' \in [Asks -> Handling \cup {"idle", "lost", "done"}]
        /\ reply' \in [Asks -> {"none", "answered", "abstained", "no passages", "unavailable"}]
    BY <1>8 DEF Abandon
  <2>5. HasHits'
    BY <1>8 DEF Abandon
  <2> QED
    BY <1>8, <2>2, <2>3, <2>4, <2>5 DEF Abandon
<1> QED
  BY <1>1, <1>2, <1>3, <1>4, <1>5, <1>6, <1>7, <1>8 DEF Chat

LEMMA TypeStep ==
  ASSUME TypeInv, [Next]_vars
  PROVE  TypeInv'
<1>1. CASE Restart
  BY <1>1 DEF Restart, TypeInv, TypeOK, HasHits, Handling, store, ask, ToWrite, Writing
<1>2. CASE \E w \in Writes : Write(w)
  BY <1>2, WriteTypes
<1>3. CASE \E a \in Asks : Chat(a)
  BY <1>3, ChatTypes
<1>4. CASE UNCHANGED vars
  BY <1>4 DEF vars, store, ingest, ask, TypeInv, TypeOK, HasHits
<1> QED
  BY <1>1, <1>2, <1>3, <1>4 DEF Next

LEMMA TypeInit == Init => TypeInv
<1>1. <<>> \in Seq(Passages) /\ <<>> \in Seq(SUBSET Passages) /\ <<>> \in Seq(Grades)
  BY EmptySeq
<1>2. Init => HasHits
  BY DEF Init, HasHits
<1>3. Init => try \in [Asks -> 0..(AskRetries + 1)]
  BY TryType DEF Init
<1>4. Init => /\ hits \in [Asks -> Seq(Passages)]
              /\ looked \in [Asks -> Seq(SUBSET Passages)]
              /\ verdicts \in [Asks -> Seq(Grades)]
  BY <1>1 DEF Init
<1>5. Init => coll \in BOOLEAN /\ ready \in BOOLEAN
  BY DEF Init
<1>6. Init => /\ chunks \subseteq Passages
              /\ pc \in [Writes -> Writing \cup {"idle", "gone"}]
              /\ parsed \in [Writes -> SUBSET Positions]
              /\ overlaps \subseteq SUBSET Writes
  BY DEF Init
<1>7. Init => /\ stage \in [Asks -> Handling \cup {"idle", "lost", "done"}]
              /\ reply \in [Asks -> {"none", "answered", "abstained", "no passages", "unavailable"}]
  BY DEF Init
<1>8. Init => TypeOK
  BY <1>3, <1>4, <1>6, <1>7, <1>5 DEF TypeOK
<1> QED
  BY <1>2, <1>8 DEF TypeInv

LEMMA TypeAlways == Spec => []TypeInv
  BY TypeInit, TypeStep, PTL DEF Spec

\* The chat's variables keep their types, and a question is tried at most twice.
THEOREM TypeCorrect == Spec => []TypeOK
<1>1. TypeInv => TypeOK
  BY DEF TypeInv
<1> QED
  BY <1>1, TypeAlways, PTL

-----------------------------------------------------------------------------
(* Abstaining.  What a question has looked up and been told when it comes to *)
(* each of its requests.                                                     *)

\* What the model told a handler.
Nothing == <<>>
Once(g) == <<g>>
Then(g) == <<"incorrect", g>>

TrailOf(a) ==
  /\ stage[a] \in {"idle", "search"} => Len(looked[a]) = 0 /\ verdicts[a] = Nothing
  /\ stage[a] = "grade" => Len(looked[a]) = 1 /\ verdicts[a] = Nothing
  /\ stage[a] \in {"rewrite", "search again"} =>
       Len(looked[a]) = 1 /\ verdicts[a] = Once("incorrect")
  /\ stage[a] = "grade again" => Len(looked[a]) = 2 /\ verdicts[a] = Once("incorrect")
  /\ stage[a] = "answer" =>
       /\ verdicts[a] # Then("incorrect")
       /\ Len(looked[a]) = 2 => verdicts[a][1] = "incorrect"
  /\ stage[a] = "done" =>
       /\ reply[a] = "abstained" <=> verdicts[a] = Then("incorrect")
       /\ reply[a] = "abstained" => Len(looked[a]) = 2
       /\ reply[a] = "answered" /\ Len(looked[a]) = 2 => verdicts[a][1] = "incorrect"
       /\ reply[a] = "no passages" => Len(looked[a]) = 1

TrailInv == TypeInv /\ \A a \in Asks : TrailOf(a)

LEMMA Verdicts ==
  ASSUME NEW g
  PROVE  /\ Append(Nothing, g) = Once(g) /\ Append(Once("incorrect"), g) = Then(g)
         /\ Nothing # Then("incorrect") /\ Once(g) # Then("incorrect")
         /\ g # "incorrect" => Then(g) # Then("incorrect")
         /\ Once(g)[1] = g /\ Then(g)[1] = "incorrect"
<1>1. Append(Nothing, g) = Once(g)
  BY DEF Nothing, Once
<1>2. Append(Once("incorrect"), g) = Then(g)
  <2> DEFINE S == {"incorrect", g}
  <2>1. /\ Once("incorrect") \in Seq(S) /\ Len(Once("incorrect")) = 1
        /\ Once("incorrect")[1] = "incorrect"
    BY DEF Once
  <2>2. /\ Append(Once("incorrect"), g) \in Seq(S)
        /\ Len(Append(Once("incorrect"), g)) = 2
        /\ Append(Once("incorrect"), g)[1] = "incorrect"
        /\ Append(Once("incorrect"), g)[2] = g
    <3>1. g \in S
      OBVIOUS
    <3>2. /\ Append(Once("incorrect"), g) \in Seq(S)
          /\ Len(Append(Once("incorrect"), g)) = Len(Once("incorrect")) + 1
          /\ \A i \in 1..Len(Once("incorrect")) :
               Append(Once("incorrect"), g)[i] = Once("incorrect")[i]
          /\ Append(Once("incorrect"), g)[Len(Once("incorrect")) + 1] = g
      <4> HIDE DEF S
      <4> QED
        BY <2>1, <3>1, AppendProperties
    <3> QED
      <4> HIDE DEF S
      <4> QED
        BY <2>1, <3>2
  <2>3. Then(g) \in Seq(S) /\ Len(Then(g)) = 2 /\ Then(g)[1] = "incorrect" /\ Then(g)[2] = g
    BY DEF Then
  <2> QED
    BY <2>2, <2>3, SeqEqual
<1>3. Nothing # Then("incorrect")
  BY DEF Nothing, Then
<1>4. Once(g) # Then("incorrect")
  <2>1. Len(Once(g)) = 1 /\ Len(Then("incorrect")) = 2
    BY DEF Once, Then
  <2> QED
    BY <2>1
<1>5. g # "incorrect" => Then(g) # Then("incorrect")
  <2>1. Then(g)[2] = g /\ Then("incorrect")[2] = "incorrect"
    BY DEF Then
  <2> QED
    BY <2>1
<1>6. Once(g)[1] = g /\ Then(g)[1] = "incorrect"
  BY DEF Once, Then
<1> QED
  BY <1>1, <1>2, <1>3, <1>4, <1>5, <1>6

LEMMA LookCounts ==
  ASSUME TypeInv, NEW a \in Asks, Look(a)
  PROVE  /\ Len(looked'[a]) = Len(looked[a]) + 1
         /\ Len(looked[a]) \in Nat
         /\ \A b \in Asks \ {a} : looked'[b] = looked[b]
<1>1. looked[a] \in Seq(SUBSET Passages) /\ OfProject(a) \in SUBSET Passages
  BY DEF TypeInv, TypeOK, OfProject
<1>2. looked'[a] = Append(looked[a], OfProject(a)) /\ \A b \in Asks \ {a} : looked'[b] = looked[b]
  BY LookTypes
<1> QED
  BY <1>1, <1>2, AppendProperties

\* A step of a question is a step on its own trail only.
LEMMA TrailChat ==
  ASSUME TrailInv, NEW a \in Asks, Chat(a)
  PROVE  \A b \in Asks : TrailOf(b)'
<1>0. TypeInv /\ TrailOf(a) /\ a \in DOMAIN stage /\ a \in DOMAIN reply
  BY DEF TrailInv, TypeInv, TypeOK
<1>1. \A b \in Asks \ {a} : /\ stage'[b] = stage[b] /\ reply'[b] = reply[b]
                            /\ looked'[b] = looked[b] /\ verdicts'[b] = verdicts[b]
  BY DEF TrailInv, TypeInv, TypeOK, Chat, Ask, Search, Grade, Rewrite, SearchAgain, GradeAgain,
         Answer, Abandon, Judge, Look, To, Reply
<1>2. \A b \in Asks \ {a} : TrailOf(b)'
  <2> SUFFICES ASSUME NEW b \in Asks \ {a}
               PROVE  TrailOf(b)'
    OBVIOUS
  <2>1. TrailOf(b)
    BY DEF TrailInv
  <2>2. /\ stage'[b] = stage[b] /\ reply'[b] = reply[b]
        /\ looked'[b] = looked[b] /\ verdicts'[b] = verdicts[b]
    BY <1>1
  <2> QED
    BY <2>1, <2>2 DEF TrailOf
<1>3. TrailOf(a)'
  <2> USE DEF To, Reply
  <2>1. CASE Ask(a)
    BY <1>0, <2>1 DEF Ask, TrailOf
  <2>2. CASE Search(a)
    <3>1. Look(a) /\ Len(looked[a]) = 0 /\ verdicts'[a] = Nothing
      BY <1>0, <2>2 DEF Search, TrailOf
    <3>2. Len(looked'[a]) = 1
      <4>1. Len(looked'[a]) = Len(looked[a]) + 1
        BY <1>0, <3>1, LookCounts
      <4> QED
        BY <3>1, <4>1
    <3>3. stage'[a] \in {"grade", "answer"} \/ (stage'[a] = "done" /\ reply'[a] = "no passages")
      BY <1>0, <2>2 DEF Search
    <3>4. Nothing # Then("incorrect")
      BY Verdicts
    <3> QED
      <4>1. CASE stage'[a] = "grade"
        BY <3>1, <3>2, <4>1 DEF TrailOf
      <4>2. CASE stage'[a] = "answer"
        BY <3>1, <3>2, <3>4, <4>2 DEF TrailOf
      <4>3. CASE stage'[a] = "done" /\ reply'[a] = "no passages"
        BY <3>1, <3>2, <3>4, <4>3 DEF TrailOf
      <4> QED
        BY <3>3, <4>1, <4>2, <4>3
  <2>3. CASE Grade(a)
    <3>1. PICK grade \in Grades \cup {"none"} :
            Judge(a, grade) /\ To(a, IF Judged(grade) = "incorrect" THEN "rewrite" ELSE "answer")
      BY <2>3 DEF Grade
    <3>2. hits[a] # <<>> /\ Len(looked'[a]) = 1 /\ verdicts[a] = Nothing
      BY <1>0, <2>3 DEF Grade, TypeInv, HasHits, TrailOf
    <3>3. verdicts'[a] = IF grade = "none" THEN verdicts[a] ELSE Append(verdicts[a], grade)
      BY <1>0, <3>1, <3>2, JudgeTypes
    <3>4. verdicts'[a] = IF grade = "none" THEN Nothing ELSE Once(grade)
      BY <3>2, <3>3, Verdicts
    <3>5. /\ verdicts'[a] # Then("incorrect")
          /\ stage'[a] = "rewrite" => verdicts'[a] = Once("incorrect")
      BY <1>0, <3>1, <3>4, Verdicts DEF Judged
    <3>6. stage'[a] \in {"rewrite", "answer"}
      BY <1>0, <3>1
    <3> QED
      <4>1. CASE stage'[a] = "rewrite"
        BY <3>2, <3>5, <4>1 DEF TrailOf
      <4>2. CASE stage'[a] = "answer"
        BY <3>2, <3>5, <4>2 DEF TrailOf
      <4> QED
        BY <3>6, <4>1, <4>2
  <2>4. CASE Rewrite(a)
    BY <1>0, <2>4, Verdicts DEF Rewrite, TrailOf
  <2>5. CASE SearchAgain(a)
    <3>1. Look(a) /\ Len(looked[a]) = 1 /\ verdicts'[a] = Once("incorrect")
      BY <1>0, <2>5 DEF SearchAgain, TrailOf
    <3>2. Len(looked'[a]) = 2
      <4>1. Len(looked'[a]) = Len(looked[a]) + 1
        BY <1>0, <3>1, LookCounts
      <4> QED
        BY <3>1, <4>1
    <3> QED
      BY <1>0, <2>5, <3>1, <3>2, Verdicts DEF SearchAgain, TrailOf
  <2>6. CASE GradeAgain(a)
    <3>1. PICK grade \in Grades \cup {"none"} :
            /\ Judge(a, grade)
            /\ \/ Judged(grade) = "incorrect" /\ Reply(a, "abstained")
               \/ Judged(grade) # "incorrect" /\ To(a, "answer") /\ UNCHANGED reply
      BY <2>6 DEF GradeAgain
    <3>2. hits[a] # <<>> /\ Len(looked'[a]) = 2 /\ verdicts[a] = Once("incorrect")
      BY <1>0, <2>6 DEF GradeAgain, TypeInv, HasHits, TrailOf
    <3>3. verdicts'[a] = IF grade = "none" THEN verdicts[a] ELSE Append(verdicts[a], grade)
      BY <1>0, <3>1, <3>2, JudgeTypes
    <3>4. verdicts'[a] = IF grade = "none" THEN Once("incorrect") ELSE Then(grade)
      BY <3>2, <3>3, Verdicts
    <3> QED
      BY <1>0, <2>6, <3>1, <3>2, <3>4, Verdicts DEF Judged, TrailOf
  <2>7. CASE Answer(a)
    BY <1>0, <2>7 DEF Answer, TrailOf
  <2>8. CASE Abandon(a)
    <3>1. Len(looked'[a]) = 0 /\ verdicts'[a] = Nothing
      BY <1>0, <2>8, EmptySeq DEF Abandon, TypeInv, TypeOK, Nothing
    <3> QED
      BY <1>0, <2>8, <3>1, Verdicts DEF Abandon, TrailOf
  <2> QED
    BY <2>1, <2>2, <2>3, <2>4, <2>5, <2>6, <2>7, <2>8 DEF Chat
<1> QED
  BY <1>2, <1>3

LEMMA TrailStep ==
  ASSUME TrailInv, [Next]_vars
  PROVE  TrailInv'
<1>0. TypeInv'
  BY TypeStep DEF TrailInv
<1>1. CASE Restart
  BY <1>0, <1>1 DEF Restart, TrailInv, TrailOf, TypeInv, TypeOK, Handling
<1>2. CASE \E w \in Writes : Write(w)
  <2>1. UNCHANGED ask
    BY <1>2 DEF Write, Embed, Delete, Ensure, DropCollection, CreateCollection, Upsert
  <2> QED
    BY <1>0, <2>1 DEF ask, TrailInv, TrailOf
<1>3. CASE \E a \in Asks : Chat(a)
  BY <1>0, <1>3, TrailChat DEF TrailInv
<1>4. CASE UNCHANGED vars
  BY <1>0, <1>4 DEF vars, ask, TrailInv, TrailOf
<1> QED
  BY <1>1, <1>2, <1>3, <1>4 DEF Next

\* The chat abstains exactly when two searches' passages were graded useless, so
\* that a grader that fails never keeps an answer from being given.
THEOREM AbstainsCorrect == Spec => []AbstainsRightly
<1>1. Init => TrailInv
  BY TypeInit, EmptySeq DEF Init, TrailInv, TrailOf, Nothing
<1>2. TrailInv => AbstainsRightly
  BY DEF TrailInv, TrailOf, AbstainsRightly, Then
<1> QED
  BY <1>1, <1>2, TrailStep, PTL DEF Spec

-----------------------------------------------------------------------------
(* Citations.  An ingest that has yet to store its passages finds those of    *)
(* its predecessors deleted: what it finds beside its own is of an ingest    *)
(* that was in progress together with it.                                    *)

Cleared == {"ensure", "drop", "create", "upsert"}

\* Ingests of one document that are both in progress are known to overlap.
Witnessed ==
  \A v, w \in Writes :
    ToWrite(v) /\ ToWrite(w) /\ v # w /\ WriteDoc[v] = WriteDoc[w] => {v, w} \in overlaps

\* The passages of its document that an ingest has not deleted came beside it.
Swept ==
  \A w \in Writes : pc[w] \in Cleared =>
    \A p \in chunks : p[1] = WriteDoc[w] => p[3] # w /\ {p[3], w} \in overlaps

StoreInv == Coherent(chunks) /\ Swept /\ Witnessed

SourceOf(a) ==
  /\ \A n \in DOMAIN looked[a] : Coherent(looked[a][n])
  /\ hits[a] # <<>> => \E n \in DOMAIN looked[a] : ToSet(hits[a]) \subseteq looked[a][n]
  /\ stage[a] # "done" => reply[a] = "none"
  /\ reply[a] = "answered" => hits[a] # <<>>

GroundInv == TypeInv /\ StoreInv /\ \A a \in Asks : SourceOf(a)

\* Ingests that were once in progress together stay so for good.
LEMMA OverlapsGrow ==
  ASSUME [Next]_vars
  PROVE  overlaps \subseteq overlaps'
<1>1. ASSUME NEW w \in Writes, Write(w)
      PROVE  overlaps \subseteq overlaps'
  BY <1>1 DEF Write, Embed, Delete, Ensure, DropCollection, CreateCollection, Upsert
<1>2. ASSUME NEW a \in Asks, Chat(a)
      PROVE  UNCHANGED ingest
  BY <1>2 DEF Chat, Ask, Search, Grade, Rewrite, SearchAgain, GradeAgain, Answer, Abandon
<1> QED
  BY <1>1, <1>2 DEF Next, Restart, vars, ingest

LEMMA StoreWrite ==
  ASSUME "delete" \notin Faults, TypeInv, StoreInv, NEW w \in Writes, Write(w)
  PROVE  StoreInv'
<1> DEFINE d == WriteDoc[w]
<1> USE DEF StoreInv, ToWrite, Goto, Fails, Gone, store
<1>0. pc \in [Writes -> Writing \cup {"idle", "gone"}] /\ d \in Docs
  BY ChatAssumption DEF TypeInv, TypeOK
<1>1. CASE Embed(w)
  <2>1. /\ chunks' = chunks /\ pc' = [pc EXCEPT ![w] = "delete"]
        /\ overlaps' = overlaps \cup {{v, w} : v \in Beside(w)}
    BY <1>1 DEF Embed
  <2>2. Coherent(chunks)' /\ Swept'
    BY <1>0, <2>1 DEF Coherent, Swept, Cleared
  <2>3. Witnessed'
    <3>1. ASSUME NEW v \in Writes, v # w, ToWrite(v), WriteDoc[v] = d
          PROVE  {v, w} \in overlaps' /\ {w, v} \in overlaps'
      BY <2>1, <3>1 DEF Beside
    <3> QED
      BY <1>0, <2>1, <3>1 DEF Witnessed
  <2> QED
    BY <2>2, <2>3
<1>2. CASE Delete(w)
  <2>1. chunks' = {p \in chunks : p[1] # d} /\ overlaps' = overlaps
    BY <1>2 DEF Delete, PassagesOf
  <2>2. pc' \in {[pc EXCEPT ![w] = "gone"], [pc EXCEPT ![w] = "ensure"]} /\ ToWrite(w)
    BY <1>2 DEF Delete, Writing
  <2> QED
    BY <1>0, <2>1, <2>2 DEF Coherent, Swept, Witnessed, Writing, Cleared
<1>3. CASE Ensure(w)
  BY <1>0, <1>3 DEF Ensure, Coherent, Swept, Witnessed, Writing, Cleared
<1>4. CASE DropCollection(w)
  <2>1. chunks' \subseteq chunks /\ overlaps' = overlaps
    BY <1>4 DEF DropCollection
  <2>2. pc[w] = "drop" /\ pc' = [pc EXCEPT ![w] = "create"]
    BY <1>4 DEF DropCollection
  <2> QED
    BY <1>0, <2>1, <2>2 DEF Coherent, Swept, Witnessed, Writing, Cleared
<1>5. CASE CreateCollection(w)
  BY <1>0, <1>5 DEF CreateCollection, Coherent, Swept, Witnessed, Writing, Cleared
<1>6. CASE Upsert(w)
  <2>1. pc[w] = "upsert" /\ pc' = [pc EXCEPT ![w] = "gone"] /\ overlaps' = overlaps
    BY <1>6 DEF Upsert
  <2>2. Witnessed'
    BY <1>0, <2>1 DEF Witnessed, Writing
  <2>3. CASE UNCHANGED chunks
    BY <1>0, <2>1, <2>2, <2>3 DEF Coherent, Swept, Cleared
  <2>4. CASE chunks' = {p \in chunks : p[1] # d \/ p[2] \notin parsed[w]} \cup ({d} \X parsed[w] \X {w})
    <3>1. \A p \in chunks' : \/ p \in chunks /\ (p[1] = d => p[2] \notin parsed[w])
                             \/ p[1] = d /\ p[2] \in parsed[w] /\ p[3] = w
      BY <2>4
    <3>2. \A p \in chunks : p[1] = d => p[3] # w /\ {p[3], w} \in overlaps /\ {w, p[3]} \in overlaps
      <4>1. \A p \in chunks : {p[3], w} = {w, p[3]}
        OBVIOUS
      <4> QED
        BY <2>1, <4>1 DEF Swept, Cleared
    <3>3. Coherent(chunks)'
      BY <2>1, <3>1, <3>2 DEF Coherent
    <3>4. ASSUME NEW v \in Writes, pc'[v] \in Cleared, NEW p \in chunks', p[1] = WriteDoc[v]
          PROVE  p[3] # v /\ {p[3], v} \in overlaps'
      <4>1. v # w /\ pc[v] \in Cleared /\ ToWrite(v) /\ ToWrite(w)
        BY <1>0, <2>1, <3>4 DEF Cleared, Writing
      <4>2. CASE p \in chunks
        BY <2>1, <3>4, <4>1, <4>2 DEF Swept
      <4>3. CASE p[1] = d /\ p[3] = w
        BY <2>1, <3>4, <4>1, <4>3 DEF Witnessed
      <4> QED
        BY <3>1, <3>4, <4>2, <4>3
    <3> QED
      BY <2>2, <3>3, <3>4 DEF Swept
  <2> QED
    BY <1>6, <2>3, <2>4 DEF Upsert
<1> QED
  BY <1>1, <1>2, <1>3, <1>4, <1>5, <1>6 DEF Write

\* A search's passages are of one moment, and coherent as the store is.
LEMMA LookSource ==
  ASSUME GroundInv, NEW a \in Asks, Look(a), UNCHANGED ingest
  PROVE  /\ \A n \in DOMAIN looked'[a] : Coherent(looked[a][n])'
         /\ \A n \in DOMAIN looked[a] : n \in DOMAIN looked'[a] /\ looked'[a][n] = looked[a][n]
         /\ \A s \in Found(a) : \E n \in DOMAIN looked'[a] : ToSet(s) \subseteq looked'[a][n]
<1>1. looked[a] \in Seq(SUBSET Passages) /\ OfProject(a) \in SUBSET Passages
  BY DEF GroundInv, TypeInv, TypeOK, OfProject
<1>2. looked'[a] = Append(looked[a], OfProject(a)) /\ looked'[a] \in Seq(SUBSET Passages)
  BY LookTypes DEF GroundInv
<1>3. /\ Len(looked[a]) \in Nat
      /\ DOMAIN looked[a] = 1..Len(looked[a])
      /\ DOMAIN looked'[a] = 1..(Len(looked[a]) + 1)
      /\ \A n \in 1..Len(looked[a]) : looked'[a][n] = looked[a][n]
      /\ looked'[a][Len(looked[a]) + 1] = OfProject(a)
  BY <1>1, <1>2, AppendProperties, LenProperties
<1>4. Coherent(OfProject(a))
  BY DEF GroundInv, StoreInv, Coherent, OfProject
<1>5. \A n \in 1..Len(looked[a]) : Coherent(looked[a][n])
  BY <1>3 DEF GroundInv, SourceOf
<1>6. \A n \in 1..(Len(looked[a]) + 1) : n \in 1..Len(looked[a]) \/ n = Len(looked[a]) + 1
  BY <1>3
<1>7. \A n \in 1..Len(looked[a]) : n \in 1..(Len(looked[a]) + 1)
  BY <1>3
<1>8. Len(looked[a]) + 1 \in 1..(Len(looked[a]) + 1)
  BY <1>3
<1>9. \A s \in Found(a) : ToSet(s) \subseteq OfProject(a)
  BY FoundType
<1>10. \A n \in DOMAIN looked'[a] : Coherent(looked[a][n])'
  <2>1. overlaps' = overlaps
    BY DEF ingest
  <2>2. ASSUME NEW n \in 1..Len(looked[a])
        PROVE  Coherent(looked[a][n])'
    BY <1>3, <1>5, <2>1, <2>2 DEF Coherent
  <2>3. ASSUME NEW n, n = Len(looked[a]) + 1
        PROVE  Coherent(looked[a][n])'
    BY <1>3, <1>4, <2>1, <2>3 DEF Coherent
  <2> QED
    BY <1>3, <1>6, <2>2, <2>3
<1> QED
  BY <1>3, <1>7, <1>8, <1>9, <1>10

LEMMA GroundChat ==
  ASSUME GroundInv, NEW a \in Asks, Chat(a)
  PROVE  \A b \in Asks : SourceOf(b)'
<1>0. TypeInv /\ SourceOf(a) /\ a \in DOMAIN stage /\ a \in DOMAIN reply
  BY DEF GroundInv, TypeInv, TypeOK
<1>1. UNCHANGED ingest /\ overlaps' = overlaps
  BY DEF ingest, Chat, Ask, Search, Grade, Rewrite, SearchAgain, GradeAgain, Answer, Abandon
<1>2. ASSUME NEW b \in Asks \ {a}
      PROVE  SourceOf(b)'
  <2>1. /\ stage'[b] = stage[b] /\ reply'[b] = reply[b]
        /\ looked'[b] = looked[b] /\ hits'[b] = hits[b]
    BY DEF GroundInv, TypeInv, TypeOK, Chat, Ask, Search, Grade, Rewrite, SearchAgain, GradeAgain,
           Answer, Abandon, Judge, Look, To, Reply
  <2>2. SourceOf(b)
    BY DEF GroundInv
  <2> QED
    BY <1>1, <2>1, <2>2 DEF SourceOf, Coherent
<1>3. SourceOf(a)'
  <2> USE DEF To, Reply
  <2>1. CASE Ask(a)
    BY <1>0, <1>1, <2>1 DEF Ask, SourceOf, Coherent
  <2>2. CASE Search(a)
    <3>1. Look(a) /\ hits'[a] \in Found(a)
      BY <1>0, <2>2 DEF Search, TypeInv, TypeOK
    <3>2. /\ stage'[a] # "done" => reply'[a] = "none"
          /\ reply'[a] # "answered"
      BY <1>0, <2>2 DEF Search, SourceOf
    <3> QED
      BY <1>1, <3>1, <3>2, LookSource DEF SourceOf
  <2>3. CASE Grade(a)
    <3>1. PICK grade \in Grades \cup {"none"} :
            Judge(a, grade) /\ To(a, IF Judged(grade) = "incorrect" THEN "rewrite" ELSE "answer")
      BY <2>3 DEF Grade
    <3>2. hits[a] # <<>> /\ looked' = looked /\ reply'[a] = "none"
      BY <1>0, <2>3 DEF Grade, TypeInv, HasHits, SourceOf
    <3>3. ToSet(hits'[a]) \subseteq ToSet(hits[a])
      BY <1>0, <3>1, <3>2, JudgeTypes
    <3> QED
      BY <1>0, <1>1, <3>2, <3>3 DEF SourceOf, Coherent
  <2>4. CASE Rewrite(a)
    <3>1. /\ looked' = looked /\ hits' = hits /\ reply' = reply
          /\ stage[a] = "rewrite" /\ reply[a] = "none"
      BY <1>0, <2>4 DEF Rewrite, SourceOf
    <3> QED
      BY <1>0, <1>1, <3>1 DEF SourceOf, Coherent
  <2>5. CASE SearchAgain(a)
    <3>1. Look(a) /\ (hits'[a] \in Found(a) \/ hits'[a] = hits[a])
      BY <1>0, <2>5 DEF SearchAgain, TypeInv, TypeOK
    <3>2. reply'[a] = "none"
      BY <1>0, <2>5 DEF SearchAgain, SourceOf
    <3> QED
      BY <1>0, <1>1, <3>1, <3>2, LookSource DEF SourceOf
  <2>6. CASE GradeAgain(a)
    <3>1. PICK grade \in Grades \cup {"none"} :
            /\ Judge(a, grade)
            /\ \/ Judged(grade) = "incorrect" /\ Reply(a, "abstained")
               \/ Judged(grade) # "incorrect" /\ To(a, "answer") /\ UNCHANGED reply
      BY <2>6 DEF GradeAgain
    <3>2. hits[a] # <<>> /\ looked' = looked /\ reply[a] = "none"
      BY <1>0, <2>6 DEF GradeAgain, TypeInv, HasHits, SourceOf
    <3>3. ToSet(hits'[a]) \subseteq ToSet(hits[a])
      BY <1>0, <3>1, <3>2, JudgeTypes
    <3>4. reply'[a] # "answered" /\ (stage'[a] # "done" => reply'[a] = "none")
      BY <1>0, <3>1, <3>2
    <3> QED
      BY <1>0, <1>1, <3>2, <3>3, <3>4 DEF SourceOf, Coherent
  <2>7. CASE Answer(a)
    <3>1. hits[a] # <<>>
      BY <2>7 DEF Answer, GroundInv, TypeInv, HasHits
    <3> QED
      BY <1>0, <1>1, <2>7, <3>1 DEF Answer, SourceOf, Coherent
  <2>8. CASE Abandon(a)
    <3>0. hits' = [hits EXCEPT ![a] = <<>>] /\ looked' = [looked EXCEPT ![a] = <<>>]
      BY <2>8 DEF Abandon
    <3>1. hits'[a] = <<>> /\ looked'[a] = <<>>
      <4>1. DOMAIN hits = Asks /\ DOMAIN looked = Asks
        BY <1>0 DEF TypeInv, TypeOK
      <4> QED
        BY <3>0, <4>1
    <3>2. /\ stage'[a] # "done" => reply'[a] = "none"
          /\ reply'[a] # "answered"
      BY <1>0, <2>8 DEF Abandon, SourceOf, Asking, Handling
    <3> QED
      BY <3>1, <3>2 DEF SourceOf
  <2> QED
    BY <2>1, <2>2, <2>3, <2>4, <2>5, <2>6, <2>7, <2>8 DEF Chat
<1> QED
  BY <1>2, <1>3

LEMMA GroundStep ==
  ASSUME "delete" \notin Faults, GroundInv, [Next]_vars
  PROVE  GroundInv'
<1>0. TypeInv'
  BY TypeStep DEF GroundInv
<1>1. CASE Restart
  <2>1. StoreInv'
    BY <1>1 DEF Restart, GroundInv, StoreInv, Coherent, Swept, Witnessed, Cleared, ToWrite, Writing,
                TypeInv, TypeOK
  <2>2. ASSUME NEW a \in Asks
        PROVE  SourceOf(a)'
    <3>1. /\ looked' = looked /\ hits' = hits /\ reply' = reply /\ overlaps' = overlaps
          /\ SourceOf(a)
      BY <1>1 DEF Restart, GroundInv
    <3>2. stage'[a] # "done" => stage[a] # "done"
      <4>1. DOMAIN stage = Asks
        BY DEF GroundInv, TypeInv, TypeOK
      <4> QED
        BY <1>1, <4>1 DEF Restart, Handling
    <3> QED
      BY <3>1, <3>2 DEF SourceOf, Coherent
  <2> QED
    BY <1>0, <2>1, <2>2 DEF GroundInv
<1>2. CASE \E w \in Writes : Write(w)
  <2>1. UNCHANGED ask /\ overlaps \subseteq overlaps'
    BY <1>2, OverlapsGrow
       DEF Write, Embed, Delete, Ensure, DropCollection, CreateCollection, Upsert
  <2>2. StoreInv'
    BY <1>2, StoreWrite DEF GroundInv
  <2>3. ASSUME NEW a \in Asks
        PROVE  SourceOf(a)'
    <3>1. /\ looked' = looked /\ hits' = hits /\ reply' = reply /\ stage' = stage
          /\ SourceOf(a)
      BY <2>1 DEF ask, GroundInv
    <3>2. ASSUME NEW n \in DOMAIN looked[a]
          PROVE  Coherent(looked[a][n])'
      BY <2>1, <3>1 DEF SourceOf, Coherent
    <3> QED
      BY <3>1, <3>2 DEF SourceOf
  <2> QED
    BY <1>0, <2>2, <2>3 DEF GroundInv
<1>3. CASE \E a \in Asks : Chat(a)
  <2>1. UNCHANGED <<store, ingest>>
    BY <1>3 DEF Chat, Ask, Search, Grade, Rewrite, SearchAgain, GradeAgain, Answer, Abandon
  <2>2. StoreInv'
    BY <2>1 DEF store, ingest, GroundInv, StoreInv, Coherent, Swept, Witnessed, ToWrite
  <2> QED
    BY <1>0, <1>3, <2>2, GroundChat DEF GroundInv
<1>4. CASE UNCHANGED vars
  <2>1. StoreInv'
    BY <1>4 DEF vars, store, ingest, GroundInv, StoreInv, Coherent, Swept, Witnessed, ToWrite
  <2>2. \A a \in Asks : SourceOf(a)'
    BY <1>4 DEF vars, ingest, ask, GroundInv, SourceOf, Coherent
  <2> QED
    BY <1>0, <2>1, <2>2 DEF GroundInv
<1> QED
  BY <1>1, <1>2, <1>3, <1>4 DEF Next

LEMMA GroundInit == Init => GroundInv
<1>1. Init => StoreInv
  <2> SUFFICES ASSUME Init
               PROVE  StoreInv
    OBVIOUS
  <2>1. \A w \in Writes : pc[w] \in {"idle", "gone"}
    BY DEF Init
  <2>2. \A p \in chunks : p[3] \in Before /\ p[1] = WriteDoc[p[3]]
    BY DEF Init
  <2>3. Coherent(chunks)
    BY <2>2, ChatAssumption DEF Coherent
  <2> QED
    BY <2>1, <2>3 DEF StoreInv, Swept, Witnessed, Cleared, ToWrite, Writing
<1>2. Init => \A a \in Asks : SourceOf(a)
  BY DEF Init, SourceOf
<1> QED
  BY <1>1, <1>2, TypeInit DEF GroundInv

\* What an answer cites was in the store under the question's project at one moment,
\* and of one ingest of each document or of ingests of it that were in progress
\* together, provided that Qdrant's deletions, whose errors the code swallows, do not
\* fail.
THEOREM GroundedCorrect ==
  ASSUME "delete" \notin Faults
  PROVE  Spec => []Grounded
<1>1. Init => GroundInv
  BY GroundInit
<1>2. GroundInv /\ [Next]_vars => GroundInv'
  BY GroundStep
<1>3. GroundInv => Grounded
  BY DEF GroundInv, SourceOf, Grounded, Coherent
<1> QED
  BY <1>1, <1>2, <1>3, PTL DEF Spec

-----------------------------------------------------------------------------
(* With the table.  A step of the chat, of an ingest or of the table is a    *)
(* step of PassageChat or leaves its variables alone.                        *)

LEMMA PaperStep ==
  ASSUME [PaperNext]_paperVars
  PROVE  [Next]_vars /\ (UNCHANGED tableVars \/ (Table /\ UNCHANGED vars))
<1>1. CASE (Restart \/ \E w \in Writes : Write(w)) /\ UNCHANGED tableVars
  BY <1>1 DEF Next
<1>2. CASE reader = "chat" /\ (\E a \in Asks : Chat(a)) /\ UNCHANGED tableVars
  BY <1>2 DEF Next
<1>3. CASE reader = "table" /\ Table /\ UNCHANGED vars
  BY <1>3
<1>4. CASE UNCHANGED paperVars
  BY <1>4 DEF paperVars
<1> QED
  BY <1>1, <1>2, <1>3, <1>4 DEF PaperNext

\* The state of the component and of its handlers, with the tables they hold.
TableTypes ==
  /\ reader \in {"chat", "table"}
  /\ view \in [Views -> Pending \cup {"away", "empty", "ready", "error"}]
  /\ awaits \in [Views -> Posts \cup {None}]
  /\ work \in [Posts -> Working \cup {"idle"}]
  /\ shown \in [Views -> Tables] /\ read \in [Posts -> Tables] /\ cached \in Tables

LEMMA TableStep ==
  ASSUME TypeInv, TableTypes, Table
  PROVE  TableTypes'
<1> USE DEF TableTypes, Pending, Working
<1>0. /\ None \in Tables
      /\ \A passages \in {Scrolled, {}} : <<passages>> \in Tables
  BY DEF Tables, Scrolled, OfTable, TypeInv, TypeOK
<1>1. ASSUME NEW v \in Views, Mount(v) \/ Load(v) \/ Leave(v) \/ Disconnect(v)
      PROVE  TableTypes'
  BY <1>0, <1>1 DEF Mount, Load, Leave, Disconnect
<1>2. ASSUME NEW v \in Views, NEW g \in Posts, Generate(v, g)
      PROVE  TableTypes'
  BY <1>0, <1>2 DEF Generate
<1>3. ASSUME NEW g \in Posts, Read(g)
      PROVE  TableTypes'
  BY <1>0, <1>3 DEF Read
<1>4. ASSUME NEW g \in Posts, SaveTable(g)
      PROVE  TableTypes'
  BY <1>4 DEF SaveTable
<1>5. ASSUME NEW g \in Posts, Respond(g)
      PROVE  TableTypes'
  BY <1>0, <1>5 DEF Respond, Told
<1>6. ASSUME NEW g \in Posts, Refuse(g)
      PROVE  TableTypes'
  BY <1>0, <1>6 DEF Refuse, Refused, Told
<1> QED
  BY <1>1, <1>2, <1>3, <1>4, <1>5, <1>6 DEF Table, Handle

LEMMA TableInit == PaperInit => TableTypes
  BY DEF PaperInit, TableTypes, Tables, Pending, Working

PaperTypes == TypeInv /\ TableTypes

LEMMA PaperTypesStep ==
  ASSUME PaperTypes, [PaperNext]_paperVars
  PROVE  PaperTypes'
<1>1. TypeInv'
  BY PaperStep, TypeStep DEF PaperTypes
<1>2. TableTypes'
  <2>1. CASE UNCHANGED tableVars
    BY <2>1 DEF tableVars, PaperTypes, TableTypes
  <2>2. CASE Table
    BY <2>2, TableStep DEF PaperTypes
  <2> QED
    BY <2>1, <2>2, PaperStep
<1> QED
  BY <1>1, <1>2 DEF PaperTypes

\* The variables of the chat and of the table keep their types, and a question is
\* tried at most twice.
THEOREM PaperTypeCorrect == PaperSpec => []PaperTypeOK
<1>1. PaperInit => PaperTypes
  BY TypeInit, TableInit DEF PaperInit, PaperTypes
<1>2. PaperTypes => PaperTypeOK
  BY DEF PaperTypes, TypeInv, TableTypes, PaperTypeOK
<1> QED
  BY <1>1, <1>2, PaperTypesStep, PTL DEF PaperSpec

\* The table does not disturb the chat: it abstains as it may ...
THEOREM PaperAbstainsCorrect == PaperSpec => []AbstainsRightly
<1>1. PaperInit => TrailInv
  BY TypeInit, EmptySeq DEF PaperInit, Init, TrailInv, TrailOf, Nothing
<1>2. TrailInv /\ [PaperNext]_paperVars => TrailInv'
  BY PaperStep, TrailStep
<1>3. TrailInv => AbstainsRightly
  BY DEF TrailInv, TrailOf, AbstainsRightly, Then
<1> QED
  BY <1>1, <1>2, <1>3, PTL DEF PaperSpec

\* ... and its citations are of one moment and not of ingests that followed each
\* other.
THEOREM PaperGroundedCorrect ==
  ASSUME "delete" \notin Faults
  PROVE  PaperSpec => []Grounded
<1>1. PaperInit => GroundInv
  BY GroundInit DEF PaperInit
<1>2. GroundInv /\ [PaperNext]_paperVars => GroundInv'
  BY PaperStep, GroundStep
<1>3. GroundInv => Grounded
  BY DEF GroundInv, SourceOf, Grounded, Coherent
<1> QED
  BY <1>1, <1>2, <1>3, PTL DEF PaperSpec

-----------------------------------------------------------------------------
(* Tables.  Every table that exists anywhere, on its way included, is sound. *)

SoundIn(table, together) ==
  table # None =>
    /\ \A p \in table[1] : Project[p[1]] = TableProject
    /\ \A p, q \in table[1] : p[1] = q[1] /\ p[3] # q[3] =>
         p[2] # q[2] /\ {p[3], q[3]} \in together

Sound(table) == SoundIn(table, overlaps)

RowInv ==
  /\ GroundInv /\ TableTypes
  /\ Sound(cached)
  /\ \A v \in Views : Sound(shown[v]) /\ (view[v] = "ready" <=> shown[v] # None)
  /\ \A g \in Posts : Sound(read[g]) /\ (work[g] \in {"save", "answer"} => read[g] # None)

LEMMA SoundNone == \A together : SoundIn(None, together)
  BY DEF SoundIn

\* What the service reads is sound, since the store is coherent; so is no passages.
LEMMA SoundRead ==
  ASSUME GroundInv, NEW passages \in {Scrolled, {}}
  PROVE  Sound(<<passages>>) /\ <<passages>> # None
<1>1. Coherent(passages) /\ \A p \in passages : Project[p[1]] = TableProject
  BY DEF Scrolled, OfTable, GroundInv, StoreInv, Coherent
<1>2. <<passages>>[1] = passages /\ <<passages>> # None
  BY DEF None
<1> QED
  BY <1>1, <1>2 DEF Sound, SoundIn, Coherent

LEMMA RowStep ==
  ASSUME "delete" \notin Faults, RowInv, [PaperNext]_paperVars
  PROVE  RowInv'
<1>1. GroundInv' /\ TableTypes'
  <2>1. PaperTypes
    BY DEF RowInv, GroundInv, PaperTypes
  <2> QED
    BY <2>1, PaperStep, GroundStep, PaperTypesStep DEF RowInv, PaperTypes
<1>0. overlaps \subseteq overlaps'
  BY PaperStep, OverlapsGrow
<1>2. CASE UNCHANGED tableVars
  BY <1>0, <1>1, <1>2 DEF tableVars, RowInv, Sound, SoundIn
<1>3. CASE Table /\ UNCHANGED vars
  <2> USE DEF TableTypes, Sound
  <2>0. overlaps' = overlaps
    BY <1>3 DEF vars, ingest
  <2>1. ASSUME NEW v \in Views, Mount(v) \/ Leave(v) \/ Disconnect(v)
        PROVE  RowInv'
    BY <1>1, <2>0, <2>1, SoundNone DEF RowInv, Mount, Leave, Disconnect, Pending
  <2>2. ASSUME NEW v \in Views, Load(v)
        PROVE  RowInv'
    BY <1>1, <2>0, <2>2 DEF RowInv, Load
  <2>3. ASSUME NEW v \in Views, NEW g \in Posts, Generate(v, g)
        PROVE  RowInv'
    BY <1>1, <2>0, <2>3, SoundNone DEF RowInv, Generate
  <2>4. ASSUME NEW g \in Posts, Read(g)
        PROVE  RowInv'
    <3>1. PICK passages \in {Scrolled, {}} : read' = [read EXCEPT ![g] = <<passages>>]
      BY <2>4 DEF Read
    <3>2. Sound(<<passages>>) /\ <<passages>> # None
      BY SoundRead DEF RowInv
    <3> QED
      BY <1>1, <2>0, <2>4, <3>1, <3>2 DEF RowInv, Read
  <2>5. ASSUME NEW g \in Posts, SaveTable(g)
        PROVE  RowInv'
    BY <1>1, <2>0, <2>5 DEF RowInv, SaveTable
  <2>6. ASSUME NEW g \in Posts, Respond(g)
        PROVE  RowInv'
    BY <1>1, <2>0, <2>6, SoundNone DEF RowInv, Respond, Told, Waiting
  <2>7. ASSUME NEW g \in Posts, Refuse(g)
        PROVE  RowInv'
    BY <1>1, <2>0, <2>7, SoundNone DEF RowInv, Refuse, Refused, Told, Waiting
  <2> QED
    BY <1>3, <2>1, <2>2, <2>3, <2>4, <2>5, <2>6, <2>7 DEF Table, Handle
<1> QED
  BY <1>2, <1>3, PaperStep

\* A table that is shown or cached has rows for the papers of its research only, each
\* made from one ingest of its paper, provided that Qdrant's deletions, whose errors
\* the code swallows, do not fail.
THEOREM RowPerPaperCorrect ==
  ASSUME "delete" \notin Faults
  PROVE  PaperSpec => []RowPerPaper
<1>1. PaperInit => RowInv
  BY GroundInit, TableInit, SoundNone DEF PaperInit, RowInv, Sound
<1>2. RowInv /\ [PaperNext]_paperVars => RowInv'
  BY RowStep
<1>3. RowInv => RowPerPaper
  BY DEF RowInv, RowPerPaper, Sound, SoundIn, Coherent
<1> QED
  BY <1>1, <1>2, <1>3, PTL DEF PaperSpec

-----------------------------------------------------------------------------
(* What a question still has to go through. *)

\* The requests to come in the attempt, at most, with its failure.
Ahead(a) ==
  CASE stage[a] = "search"       -> 7
    [] stage[a] = "grade"        -> 6
    [] stage[a] = "rewrite"      -> 5
    [] stage[a] = "search again" -> 4
    [] stage[a] = "grade again"  -> 3
    [] stage[a] = "answer"       -> 2
    [] stage[a] = "lost"         -> 1
    [] OTHER                     -> 0

\* The steps to come: those, and eight for each attempt not yet made.
Left(a) ==
  IF stage[a] = "done" THEN 0 ELSE 8 * (AskRetries + 1 - try[a]) + Ahead(a)

\* The attempts are counted from the first request on.
Counted ==
  \A a \in Asks : /\ stage[a] = "idle" => try[a] = 0
                  /\ Asking(a) => try[a] \in 1..(AskRetries + 1)

LeftInv ==
  \A a \in Asks : Left(a) \in 0..(8 * (AskRetries + 1)) /\ (Left(a) = 0 <=> stage[a] = "done")

Advances == \A a \in Asks : Left(a)' <= Left(a) /\ (Chat(a) => Left(a)' < Left(a))

AskTypes ==
  /\ stage \in [Asks -> Handling \cup {"idle", "lost", "done"}]
  /\ try \in [Asks -> 0..2]
  /\ Counted

LEMMA AheadAt ==
  ASSUME NEW a \in Asks
  PROVE  /\ stage[a] = "search"       => Ahead(a) = 7
         /\ stage[a] = "grade"        => Ahead(a) = 6
         /\ stage[a] = "rewrite"      => Ahead(a) = 5
         /\ stage[a] = "search again" => Ahead(a) = 4
         /\ stage[a] = "grade again"  => Ahead(a) = 3
         /\ stage[a] = "answer"       => Ahead(a) = 2
         /\ stage[a] = "lost"         => Ahead(a) = 1
         /\ stage[a] \in {"idle", "done"} => Ahead(a) = 0
  BY DEF Ahead

\* While the question is asked there is a request to come.
LEMMA AheadFacts ==
  ASSUME NEW a \in Asks
  PROVE  /\ Asking(a) => Ahead(a) \in 1..7 /\ stage[a] \notin {"idle", "done"}
         /\ stage[a] \in Handling => Ahead(a) \in 2..7
         /\ stage[a] \in {"idle", "done"} => Ahead(a) = 0
<1>1. ASSUME stage[a] \in Handling
      PROVE  Ahead(a) \in {2, 3, 4, 5, 6, 7} /\ stage[a] \notin {"idle", "done"}
  BY <1>1, AheadAt DEF Handling
<1>2. stage[a] = "lost" => Ahead(a) = 1
  BY DEF Ahead
<1>3. stage[a] \in {"idle", "done"} => Ahead(a) = 0
  BY DEF Ahead
<1> QED
  BY <1>1, <1>2, <1>3 DEF Asking

\* Attempts are counted from 1 to 2.
LEMMA TryFacts ==
  ASSUME AskTypes, NEW a \in Asks, Asking(a)
  PROVE  try[a] \in {1, 2}
  BY DEF AskTypes, Counted, AskRetries

LEMMA LeftType == AskTypes => LeftInv
<1> SUFFICES ASSUME AskTypes, NEW a \in Asks
             PROVE  Left(a) \in 0..(8 * (AskRetries + 1)) /\ (Left(a) = 0 <=> stage[a] = "done")
  BY DEF LeftInv
<1> USE DEF AskTypes, AskRetries
<1>1. stage[a] \in Handling \cup {"idle", "lost", "done"}
  OBVIOUS
<1>2. CASE Asking(a)
  <2>1. try[a] \in {1, 2} /\ Ahead(a) \in 1..7 /\ stage[a] # "done"
    BY <1>2, AheadFacts, TryFacts
  <2> QED
    BY <2>1 DEF Left
<1>3. CASE stage[a] = "idle"
  <2>1. try[a] = 0 /\ Ahead(a) = 0
    BY <1>3 DEF Counted, Ahead
  <2> QED
    BY <1>3, <2>1 DEF Left
<1>4. CASE stage[a] = "done"
  BY <1>4 DEF Left
<1> QED
  BY <1>1, <1>2, <1>3, <1>4 DEF Asking

\* What a step of the question's handler does to its stage and its attempts.
LEMMA ChatForms ==
  ASSUME AskTypes, NEW a \in Asks, Chat(a)
  PROVE  \/ /\ try' = try
            /\ \E next \in Handling \cup {"done"} :
                 /\ stage' = [stage EXCEPT ![a] = next]
                 /\ Asking(a)
                 /\ stage[a] = "search"       => next \in {"grade", "answer", "done"}
                 /\ stage[a] = "grade"        => next \in {"rewrite", "answer", "done"}
                 /\ stage[a] = "rewrite"      => next \in {"search again", "answer", "done"}
                 /\ stage[a] = "search again" => next \in {"grade again", "answer", "done"}
                 /\ stage[a] = "grade again"  => next \in {"answer", "done"}
                 /\ stage[a] \in {"answer", "lost"} => next = "done"
         \/ /\ \/ stage[a] = "idle" /\ try' = [try EXCEPT ![a] = 1]
               \/ Asking(a) /\ try[a] <= AskRetries /\ try' = [try EXCEPT ![a] = @ + 1]
            /\ stage' = [stage EXCEPT ![a] = "search"]
<1> USE DEF Handling, Asking
<1>1. CASE Ask(a)
  BY <1>1 DEF Ask, To
<1>2. CASE Search(a)
  BY <1>2 DEF Search, To, Reply
<1>3. CASE Grade(a)
  BY <1>3 DEF Grade, To
<1>4. CASE Rewrite(a)
  BY <1>4 DEF Rewrite, To
<1>5. CASE SearchAgain(a)
  BY <1>5 DEF SearchAgain, To
<1>6. CASE GradeAgain(a)
  BY <1>6 DEF GradeAgain, To, Reply
<1>7. CASE Answer(a)
  BY <1>7 DEF Answer, To, Reply
<1>8. CASE Abandon(a)
  BY <1>8 DEF Abandon, To, Reply
<1> QED
  BY <1>1, <1>2, <1>3, <1>4, <1>5, <1>6, <1>7, <1>8 DEF Chat

\* A step of the handler, or of the client that gives it up, brings the question
\* closer to its end.
LEMMA ChatAdvances ==
  ASSUME AskTypes, NEW a \in Asks, Chat(a)
  PROVE  Counted' /\ Left(a)' < Left(a) /\ \A b \in Asks \ {a} : Left(b)' = Left(b)
<1> USE DEF AskTypes, AskRetries
<1>1. CASE /\ \/ stage[a] = "idle" /\ try' = [try EXCEPT ![a] = 1]
              \/ Asking(a) /\ try[a] <= AskRetries /\ try' = [try EXCEPT ![a] = @ + 1]
           /\ stage' = [stage EXCEPT ![a] = "search"]
  <2>1. stage'[a] = "search" /\ Ahead(a)' = 7
    BY <1>1 DEF Ahead
  <2>2. \/ stage[a] = "idle" /\ try[a] = 0 /\ try'[a] = 1 /\ Ahead(a) = 0
        \/ Asking(a) /\ try[a] = 1 /\ try'[a] = 2 /\ Ahead(a) \in 1..7 /\ stage[a] # "done"
    <3>1. CASE stage[a] = "idle" /\ try' = [try EXCEPT ![a] = 1]
      BY <3>1, AheadFacts DEF Counted
    <3>2. CASE Asking(a) /\ try[a] <= AskRetries /\ try' = [try EXCEPT ![a] = @ + 1]
      BY <3>2, AheadFacts, TryFacts
    <3> QED
      BY <1>1, <3>1, <3>2
  <2>3. Left(a)' < Left(a)
    BY <2>1, <2>2 DEF Left
  <2>4. \A b \in Asks \ {a} : stage'[b] = stage[b] /\ try'[b] = try[b]
    BY <1>1
  <2>5. Counted'
    BY <2>1, <2>2, <2>4 DEF Counted, Asking
  <2> QED
    BY <2>3, <2>4, <2>5 DEF Left, Ahead
<1>2. ASSUME try' = try, Asking(a),
             NEW next \in Handling \cup {"done"}, stage' = [stage EXCEPT ![a] = next],
             stage[a] = "search"       => next \in {"grade", "answer", "done"},
             stage[a] = "grade"        => next \in {"rewrite", "answer", "done"},
             stage[a] = "rewrite"      => next \in {"search again", "answer", "done"},
             stage[a] = "search again" => next \in {"grade again", "answer", "done"},
             stage[a] = "grade again"  => next \in {"answer", "done"},
             stage[a] \in {"answer", "lost"} => next = "done"
      PROVE  Counted' /\ Left(a)' < Left(a) /\ \A b \in Asks \ {a} : Left(b)' = Left(b)
  <2>1. stage'[a] = next /\ try'[a] = try[a] /\ try[a] \in {1, 2} /\ stage[a] # "done"
    BY <1>2, AheadFacts, TryFacts
  <2>2. /\ next = "grade"        => Ahead(a)' = 6
        /\ next = "rewrite"      => Ahead(a)' = 5
        /\ next = "search again" => Ahead(a)' = 4
        /\ next = "grade again"  => Ahead(a)' = 3
        /\ next = "answer"       => Ahead(a)' = 2
        /\ next = "done"         => Ahead(a)' = 0
    BY <2>1 DEF Ahead
  <2>3. Ahead(a) \in 1..7
    BY <1>2, AheadFacts
  <2>4. Ahead(a)' < Ahead(a)
    <3>1. stage[a] \in {"search", "grade", "rewrite", "search again", "grade again", "answer",
                       "lost"}
      BY <1>2 DEF Asking, Handling
    <3>2. CASE stage[a] \in {"answer", "lost"} \/ next = "done"
      <4>1. Ahead(a)' = 0
        BY <1>2, <2>2, <3>2
      <4> QED
        BY <2>3, <4>1
    <3>3. CASE stage[a] = "search" /\ next \in {"grade", "answer"}
      <4>1. Ahead(a) = 7 /\ Ahead(a)' \in {2, 6}
        BY <2>2, <3>3, AheadAt
      <4> QED
        BY <4>1
    <3>4. CASE stage[a] = "grade" /\ next \in {"rewrite", "answer"}
      <4>1. Ahead(a) = 6 /\ Ahead(a)' \in {2, 5}
        BY <2>2, <3>4, AheadAt
      <4> QED
        BY <4>1
    <3>5. CASE stage[a] = "rewrite" /\ next \in {"search again", "answer"}
      <4>1. Ahead(a) = 5 /\ Ahead(a)' \in {2, 4}
        BY <2>2, <3>5, AheadAt
      <4> QED
        BY <4>1
    <3>6. CASE stage[a] = "search again" /\ next \in {"grade again", "answer"}
      <4>1. Ahead(a) = 4 /\ Ahead(a)' \in {2, 3}
        BY <2>2, <3>6, AheadAt
      <4> QED
        BY <4>1
    <3>7. CASE stage[a] = "grade again" /\ next = "answer"
      <4>1. Ahead(a) = 3 /\ Ahead(a)' \in {2}
        BY <2>2, <3>7, AheadAt
      <4> QED
        BY <4>1
    <3> QED
      BY <1>2, <3>1, <3>2, <3>3, <3>4, <3>5, <3>6, <3>7
  <2>5. Left(a)' < Left(a)
    <3>1. CASE next = "done"
      <4>1. Left(a)' = 0 /\ Left(a) = 8 * (2 - try[a]) + Ahead(a)
        BY <2>1, <3>1 DEF Left
      <4> QED
        BY <2>1, <2>3, <4>1
    <3>2. CASE next # "done"
      <4>1. Left(a)' = 8 * (2 - try[a]) + Ahead(a)' /\ Left(a) = 8 * (2 - try[a]) + Ahead(a)
        BY <2>1, <3>2 DEF Left
      <4>2. Ahead(a)' \in {0, 2, 3, 4, 5, 6}
        BY <1>2, <2>2 DEF Handling, Asking
      <4> QED
        BY <2>1, <2>3, <2>4, <4>1, <4>2
    <3> QED
      BY <3>1, <3>2
  <2>6. \A b \in Asks \ {a} : stage'[b] = stage[b] /\ try'[b] = try[b]
    BY <1>2
  <2>7. Counted'
    <3>1. next # "idle"
      BY DEF Handling
    <3> QED
      BY <2>1, <2>6, <3>1 DEF Counted, Asking
  <2> QED
    BY <2>5, <2>6, <2>7 DEF Left, Ahead
<1> QED
  BY <1>1, <1>2, ChatForms

\* The other steps take none of them back; a restart may take some away.
LEMMA OtherStep ==
  ASSUME AskTypes, UNCHANGED try,
         \/ stage' = stage
         \/ stage' = [a \in Asks |-> IF stage[a] \in Handling THEN "lost" ELSE stage[a]]
  PROVE  Counted' /\ \A a \in Asks : Left(a)' = Left(a) \/ Left(a)' < Left(a)
<1> USE DEF AskTypes
<1>1. Counted'
  BY DEF Counted, Asking, Handling
<1>2. ASSUME NEW a \in Asks PROVE Left(a)' = Left(a) \/ Left(a)' < Left(a)
  <2>1. CASE stage'[a] = stage[a]
    BY <2>1 DEF Left, Ahead
  <2>2. CASE stage[a] \in Handling /\ stage'[a] = "lost"
    <3>1. Ahead(a) \in 2..7 /\ stage[a] # "done"
      BY <2>2, AheadFacts DEF Asking
    <3>3. Ahead(a)' = 1
      BY <2>2 DEF Ahead
    <3>2. try'[a] = try[a] /\ try[a] \in 0..2
      OBVIOUS
    <3> QED
      BY <2>2, <3>1, <3>2, <3>3 DEF Left, AskRetries
  <2> QED
    BY <2>1, <2>2
<1> QED
  BY <1>1, <1>2

LEMMA AskStep ==
  ASSUME AskTypes, [Next]_vars
  PROVE  \/ \E b \in Asks : /\ Chat(b) /\ Left(b)' < Left(b)
                            /\ \A a \in Asks \ {b} : Left(a)' = Left(a)
         \/ \A a \in Asks : Left(a)' = Left(a) \/ Left(a)' < Left(a)
<1>1. CASE \E b \in Asks : Chat(b)
  BY <1>1, ChatAdvances
<1>2. CASE Restart
  BY <1>2, OtherStep DEF Restart
<1>3. ASSUME NEW w \in Writes, Write(w) PROVE UNCHANGED <<stage, try>>
  BY <1>3 DEF Write, Embed, Delete, Ensure, DropCollection, CreateCollection, Upsert, Fails, ask
<1>4. CASE UNCHANGED vars \/ \E w \in Writes : Write(w)
  BY <1>3, <1>4, OtherStep DEF vars, ask
<1> QED
  BY <1>1, <1>2, <1>4 DEF Next

LEMMA CountStep == ASSUME AskTypes, [Next]_vars PROVE Counted'
<1>1. CASE \E b \in Asks : Chat(b)
  BY <1>1, ChatAdvances
<1>2. CASE Restart
  BY <1>2, OtherStep DEF Restart
<1>3. ASSUME NEW w \in Writes, Write(w) PROVE UNCHANGED <<stage, try>>
  BY <1>3 DEF Write, Embed, Delete, Ensure, DropCollection, CreateCollection, Upsert, Fails, ask
<1>4. CASE UNCHANGED vars \/ \E w \in Writes : Write(w)
  BY <1>3, <1>4, OtherStep DEF vars, ask
<1> QED
  BY <1>1, <1>2, <1>4 DEF Next

LEMMA LeftStep ==
  ASSUME AskTypes, LeftInv, LeftInv', Next
  PROVE  Advances
<1>1. \A a \in Asks : Left(a) \in Nat /\ Left(a)' \in Nat
  BY DEF LeftInv, AskRetries
<1>2. ASSUME NEW a \in Asks PROVE Chat(a) => Left(a)' < Left(a)
  BY ChatAdvances
<1>3. ASSUME NEW a \in Asks PROVE Left(a)' <= Left(a)
  BY <1>1, AskStep
<1> QED
  BY <1>2, <1>3 DEF Advances

\* A question goes through at most 8 * (AskRetries + 1) steps, and none is left
\* exactly when it has its reply: however often the service restarts and whatever the
\* models answer, the corrective retry and the client's own never feed each other.
THEOREM AskBounded == PaperSpec => []LeftInv /\ [][Advances]_vars
<1>1. PaperInit => TypeInv /\ Counted
  BY TypeInit DEF PaperInit, Init, Counted, Asking, Handling
<1>2. TypeInv /\ Counted => AskTypes
  <2>1. TypeInv => stage \in [Asks -> Handling \cup {"idle", "lost", "done"}]
    BY DEF TypeInv, TypeOK
  <2>2. TypeInv => try \in [Asks -> 0..2]
    <3>1. AskRetries + 1 = 2
      BY DEF AskRetries
    <3> QED
      BY <3>1 DEF TypeInv, TypeOK
  <2> QED
    BY <2>1, <2>2 DEF AskTypes
<1>3. TypeInv /\ Counted /\ [PaperNext]_paperVars => TypeInv' /\ Counted'
  BY <1>2, PaperStep, TypeStep, CountStep
<1>4. TypeInv /\ Counted /\ LeftInv /\ LeftInv' /\ [PaperNext]_paperVars => [Advances]_vars
  BY <1>2, PaperStep, LeftStep
<1> QED
  BY <1>1, <1>2, <1>3, <1>4, LeftType, PTL DEF PaperSpec
=============================================================================
