--------------------- MODULE FullTextResolution_proofs ---------------------
(***************************************************************************)
(* What FullTextResolution guarantees for every manifest, every degree of  *)
(* concurrency and every number of runs.                                   *)
(***************************************************************************)
EXTENDS FullTextResolution, TLAPS

USE ConstantsOK DEF Papers, Workers

----------------------------------------------------------------------------
(* Type correctness *)

\* A paper's key is a key of the vault.
LEMMA KeyOfRun ==
  ASSUME NEW p \in Papers, NEW n \in 1 .. MaxRuns PROVE StorageKey(p, n) \in Keys
  BY DEF StorageKey, Keys

LEMMA KeyType == ASSUME NEW p \in Papers, run \in 1 .. MaxRuns PROVE Key(p) \in Keys
  BY KeyOfRun DEF Key

\* Whatever status a worker settles on, what it goes on with is well typed.
LEMMA SettleType ==
  ASSUME TypeOK, NEW w \in Workers, NEW s \in Final, Settle(w, s)
  PROVE  /\ cursor' \in 1 .. N + 1
         /\ pc' \in [Workers -> Awaits \cup {"stopped"}]
         /\ at' \in [Workers -> Papers]
         /\ status' \in [Papers -> Final \cup {"pending"}]
<1>1. status' \in [Papers -> Final \cup {"pending"}]
  BY DEF Settle, TypeOK
<1>2. CASE cursor <= N
  <2>1. cursor \in Papers /\ cursor + 1 \in 1 .. N + 1
    BY <1>2 DEF TypeOK
  <2>2. /\ at' = [at EXCEPT ![w] = cursor]
        /\ cursor' = cursor + 1
        /\ pc' = [pc EXCEPT ![w] = "exists"]
    BY <1>2, <2>1 DEF Settle, Advance
  <2> QED
    BY <1>1, <2>1, <2>2 DEF TypeOK, Awaits
<1>3. CASE cursor > N
  BY <1>1, <1>3 DEF Settle, Advance, TypeOK
<1> QED
  BY <1>2, <1>3 DEF TypeOK

\* What a worker does at an answer is to settle its paper or to send the next
\* request for it.
LEMMA WorkForms ==
  ASSUME NEW w \in Workers, Work(w)
  PROVE  \/ \E label \in Awaits : Goto(w, label)
         \/ \E s \in Final : Settle(w, s)
<1> USE DEF Final, Resolved, Awaits
<1>1. CASE Exists(w)
  BY <1>1 DEF Exists
<1>2. CASE Unpaywall(w)
  BY <1>2 DEF Unpaywall
<1>3. CASE Download(w)
  BY <1>3 DEF Download
<1>4. CASE Put(w)
  BY <1>4 DEF Put
<1> QED
  BY <1>1, <1>2, <1>3, <1>4 DEF Work

\* What others than the workers store about p in the vault.
Stored(p) == OtherSession(p) \/ \E n \in 1 .. MaxRuns : Upload(p, n)

\* The initial states are well typed.
LEMMA TypeInit == Init => TypeOK
  BY DEF Init, TypeOK, FirstCursor, Awaits, Files

\* Every step keeps the state well typed.
LEMMA TypeStep == TypeOK /\ [Next]_vars => TypeOK'
<1> SUFFICES ASSUME TypeOK, [Next]_vars PROVE TypeOK'
  OBVIOUS
<1> USE DEF TypeOK
<1>1. CASE UNCHANGED vars
  BY <1>1 DEF vars
<1>2. ASSUME NEW w \in Workers, Work(w) PROVE TypeOK'
  <2>1. /\ cursor' \in 1 .. N + 1
        /\ pc' \in [Workers -> Awaits \cup {"stopped"}]
        /\ at' \in [Workers -> Papers]
        /\ status' \in [Papers -> Final \cup {"pending"}]
    <3>1. CASE \E label \in Awaits : Goto(w, label)
      BY <3>1 DEF Goto, Awaits
    <3>2. CASE \E s \in Final : Settle(w, s)
      BY <3>2, SettleType
    <3> QED
      BY <1>2, <3>1, <3>2, WorkForms
  <2>2. body' \in [Workers -> Files]
    BY <1>2 DEF Work, Exists, Unpaywall, Download, Put
  <2>3. vault' \in [Keys -> Files \cup {"none"}]
    BY <1>2, KeyType DEF Work, Exists, Unpaywall, Download, Put
  <2>4. UNCHANGED <<run, uploaded, offered>>
    BY <1>2 DEF Work, Exists, Unpaywall, Download, Put
  <2> QED
    BY <2>1, <2>2, <2>3, <2>4
<1>3. ASSUME NEW p \in Papers, NEW n \in 1 .. MaxRuns, Upload(p, n) PROVE TypeOK'
  BY <1>3, KeyOfRun DEF Upload
<1>4. ASSUME NEW p \in Papers, OtherSession(p) PROVE TypeOK'
  BY <1>4, KeyType DEF OtherSession, Files
<1>5. CASE Rerun
  BY <1>5 DEF Rerun, FirstCursor, Awaits, Files, Paywalled
<1> QED
  BY <1>1, <1>2, <1>3, <1>4, <1>5 DEF Next

\* In every reachable state the variables hold what they are declared to hold.
THEOREM TypeCorrect == Spec => []TypeOK
  BY TypeInit, TypeStep, PTL DEF Spec

----------------------------------------------------------------------------
(* The worker pool *)

\* A busy worker is on a paper already taken and not yet answered.
OnPending ==
  \A w \in Workers : Busy(w) => at[w] < cursor /\ status[at[w]] = "pending"

\* A paper already taken is answered or has a worker on it.
TakenIsKept ==
  \A p \in Papers : p < cursor =>
    status[p] \in Final \/ \E w \in Workers : Busy(w) /\ at[w] = p

\* A paper not yet taken has no answer.
UntakenIsPending == \A p \in Papers : p >= cursor => status[p] = "pending"

\* A worker only stops when every paper has been taken.
StopsLast == \A w \in Workers : ~Busy(w) => cursor = N + 1

PoolInv ==
  /\ TypeOK
  /\ NoDoubleWork
  /\ OnPending
  /\ TakenIsKept
  /\ UntakenIsPending
  /\ StopsLast

\* The state in which a run of the phase starts.
Started ==
  /\ cursor = FirstCursor
  /\ pc = [w \in Workers |-> "exists"]
  /\ at = [w \in Workers |-> w]
  /\ status = [p \in Papers |-> "pending"]

\* The phase starts with the first papers taken, one by each worker.
LEMMA PoolStart == TypeOK /\ Started => PoolInv
<1> SUFFICES ASSUME TypeOK, Started PROVE PoolInv
  OBVIOUS
<1>1. \A w \in Workers : Busy(w) /\ at[w] = w /\ w < cursor
  BY DEF Started, Busy, FirstCursor
<1>2. \A p \in Papers : p < cursor => p \in Workers
  BY DEF Started, FirstCursor
<1> QED
  BY <1>1, <1>2
     DEF Started, PoolInv, NoDoubleWork, OnPending, TakenIsKept, UntakenIsPending, StopsLast

\* Storing a result and going on preserves the pool's invariant: this is the step
\* that a lock would guard in a threaded program.
LEMMA SettleKeepsPool ==
  ASSUME PoolInv, NEW w \in Workers, Busy(w), NEW s \in Final, Settle(w, s)
  PROVE  (NoDoubleWork /\ OnPending /\ TakenIsKept /\ UntakenIsPending /\ StopsLast)'
<1> USE DEF PoolInv, TypeOK, Busy
<1>1. /\ at[w] \in Papers /\ at[w] < cursor
      /\ status' = [status EXCEPT ![at[w]] = s]
  BY DEF OnPending, Settle
<1>2. s # "pending" /\ "exists" # "stopped"
  BY DEF Final, Resolved
<1>3. CASE cursor <= N
  <2>1. /\ cursor \in Papers
        /\ at' = [at EXCEPT ![w] = cursor]
        /\ cursor' = cursor + 1
        /\ pc' = [pc EXCEPT ![w] = "exists"]
    BY <1>3 DEF Settle, Advance
  <2>2. \A v \in Workers : Busy(v) /\ v # w => at[v] # cursor /\ at[v] # at[w]
    BY DEF OnPending, NoDoubleWork
  <2>3. NoDoubleWork'
    BY <2>1, <2>2 DEF NoDoubleWork
  <2>4. OnPending'
    <3> SUFFICES ASSUME NEW v \in Workers, Busy(v)'
                 PROVE  at'[v] < cursor' /\ status'[at'[v]] = "pending"
      BY DEF OnPending
    <3>1. CASE v = w
      <4>1. status[cursor] = "pending" /\ cursor # at[w]
        BY <1>1, <2>1 DEF UntakenIsPending
      <4> QED
        BY <1>1, <2>1, <3>1, <4>1
    <3>2. CASE v # w
      <4>1. Busy(v) /\ at[v] \in Papers /\ at[v] < cursor /\ status[at[v]] = "pending"
        BY <2>1, <3>2 DEF OnPending
      <4> QED
        BY <1>1, <2>1, <2>2, <3>2, <4>1
    <3> QED
      BY <3>1, <3>2
  <2>5. TakenIsKept'
    <3> SUFFICES ASSUME NEW p \in Papers, p < cursor'
                 PROVE  status'[p] \in Final \/ \E v \in Workers : Busy(v)' /\ at'[v] = p
      BY DEF TakenIsKept
    <3>1. CASE p = cursor
      BY <2>1, <3>1
    <3>2. CASE p = at[w]
      BY <1>1, <3>2
    <3>3. CASE p # cursor /\ p # at[w]
      <4>1. p < cursor
        BY <2>1, <3>3
      <4>2. CASE status[p] \in Final
        BY <1>1, <3>3, <4>2
      <4>3. ASSUME NEW v \in Workers, Busy(v), at[v] = p
            PROVE  Busy(v)' /\ at'[v] = p
        BY <2>1, <3>3, <4>3
      <4> QED
        BY <4>1, <4>2, <4>3 DEF TakenIsKept
    <3> QED
      BY <3>1, <3>2, <3>3
  <2>6. UntakenIsPending'
    BY <1>1, <2>1 DEF UntakenIsPending
  <2>7. StopsLast'
    BY <1>2, <1>3, <2>1 DEF StopsLast
  <2> QED
    BY <2>3, <2>4, <2>5, <2>6, <2>7
<1>4. CASE cursor > N
  <2>1. /\ pc' = [pc EXCEPT ![w] = "stopped"]
        /\ UNCHANGED <<cursor, at>>
        /\ cursor = N + 1
    BY <1>4 DEF Settle, Advance
  <2>2. NoDoubleWork' /\ StopsLast' /\ UntakenIsPending'
    BY <1>1, <2>1 DEF NoDoubleWork, StopsLast, UntakenIsPending
  <2>3. OnPending'
    <3> SUFFICES ASSUME NEW v \in Workers, Busy(v)'
                 PROVE  at'[v] < cursor' /\ status'[at'[v]] = "pending"
      BY DEF OnPending
    <3>1. v # w /\ Busy(v)
      BY <2>1
    <3>2. at[v] \in Papers /\ at[v] # at[w] /\ at[v] < cursor /\ status[at[v]] = "pending"
      BY <3>1 DEF OnPending, NoDoubleWork
    <3> QED
      BY <1>1, <2>1, <3>2
  <2>4. TakenIsKept'
    BY <1>1, <2>1 DEF TakenIsKept
  <2> QED
    BY <2>2, <2>3, <2>4
<1> QED
  BY <1>3, <1>4

\* Every step preserves the pool's invariant.
LEMMA PoolStep == PoolInv /\ [Next]_vars => PoolInv'
<1> SUFFICES ASSUME PoolInv, [Next]_vars PROVE PoolInv'
  OBVIOUS
<1> USE DEF PoolInv
<1>1. TypeOK'
  BY TypeStep
<1>2. ASSUME NEW w \in Workers, Work(w) PROVE PoolInv'
  <2>1. Busy(w)
    BY <1>2 DEF Work, Exists, Unpaywall, Download, Put, Busy
  <2>2. ASSUME NEW s \in Final, Settle(w, s) PROVE PoolInv'
    BY <1>1, <2>1, <2>2, SettleKeepsPool
  <2>3. ASSUME NEW label \in Awaits, Goto(w, label) PROVE PoolInv'
    <3>1. \A v \in Workers : Busy(v)' <=> Busy(v)
      BY <2>1, <2>3 DEF Goto, Awaits, Busy, TypeOK
    <3> QED
      BY <1>1, <2>3, <3>1
         DEF Goto, NoDoubleWork, OnPending, TakenIsKept, UntakenIsPending, StopsLast
  <2> QED
    BY <1>2, <2>2, <2>3, WorkForms
<1>3. CASE Rerun
  <2>1. Started'
    BY <1>3 DEF Rerun, Started
  <2>2. (TypeOK /\ Started => PoolInv)'
    BY PoolStart, PTL
  <2> QED
    BY <1>1, <2>1, <2>2
<1>4. CASE UNCHANGED vars \/ \E p \in Papers : Stored(p)
  <2>1. UNCHANGED <<cursor, pc, at, status>>
    BY <1>4 DEF vars, Stored, Upload, OtherSession
  <2> QED
    BY <1>1, <2>1
       DEF NoDoubleWork, OnPending, TakenIsKept, UntakenIsPending, StopsLast, Busy
<1> QED
  BY <1>2, <1>3, <1>4 DEF Next, Stored

\* The pool's invariant holds in every reachable state.
THEOREM PoolSound == Spec => []PoolInv
<1>1. Init => PoolInv
  BY TypeInit, PoolStart DEF Init, Started
<1> QED
  BY <1>1, PoolStep, PTL DEF Spec

\* For every degree of concurrency, no two workers are ever on one paper.
THEOREM Distinct == Spec => []NoDoubleWork
<1>1. PoolInv => NoDoubleWork
  BY DEF PoolInv
<1> QED
  BY <1>1, PoolSound, PTL

\* When the last worker stops, every paper has its entry in the manifest.
THEOREM Completeness == Spec => []Complete
<1>1. PoolInv => Complete
  <2> SUFFICES ASSUME PoolInv, Done, NEW p \in Papers PROVE status[p] \in Final
    BY DEF Complete
  <2>1. 1 \in Workers /\ ~Busy(1)
    BY DEF Done
  <2>2. cursor = N + 1
    BY <2>1 DEF PoolInv, StopsLast
  <2> QED
    BY <2>2 DEF PoolInv, TakenIsKept, Done
<1> QED
  BY <1>1, PoolSound, PTL

\* No worker overwrites another's entry.
THEOREM SingleAssignment == Spec => WrittenOnce
<1>1. PoolInv /\ [Next]_vars =>
        [\A p \in Papers : status[p] # "pending" => status'[p] = status[p] \/ run' # run]_vars
  <2> SUFFICES ASSUME PoolInv, Next, NEW p \in Papers, status[p] # "pending"
               PROVE  status'[p] = status[p] \/ run' # run
    OBVIOUS
  <2>1. ASSUME NEW w \in Workers, Work(w) PROVE status'[p] = status[p]
    <3>1. at[w] # p
      BY <2>1 DEF Work, Exists, Unpaywall, Download, Put, Busy, PoolInv, OnPending
    <3>2. status' = status \/ \E s \in Final : status' = [status EXCEPT ![at[w]] = s]
      BY <2>1, WorkForms DEF Goto, Settle
    <3> QED
      BY <3>1, <3>2 DEF PoolInv, TypeOK
  <2>2. CASE Rerun
    BY <2>2 DEF Rerun, PoolInv, TypeOK
  <2>3. CASE \E q \in Papers : Stored(q)
    BY <2>3 DEF Stored, Upload, OtherSession
  <2> QED
    BY <2>1, <2>2, <2>3 DEF Next, Stored
<1> QED
  BY <1>1, PoolSound, PTL DEF Spec, WrittenOnce

----------------------------------------------------------------------------
(* What a worker still has to do. *)

\* The answers to come for the worker's paper, at most.
Ahead(w) ==
  CASE pc[w] = "exists"    -> 4
    [] pc[w] = "unpaywall" -> 3
    [] pc[w] = "download"  -> 2
    [] pc[w] = "put"       -> 1
    [] OTHER               -> 0

\* The steps the worker may still take in this run of the phase: those, and four for
\* each paper not yet taken.
Left(w) == 4 * (N + 1 - cursor) + Ahead(w)

LeftInv == \A w \in Workers : Left(w) \in 0 .. 4 * (N + 1) /\ (Left(w) = 0 <=> ~Busy(w))

LEMMA AheadType ==
  ASSUME TypeOK, NEW w \in Workers
  PROVE  Ahead(w) \in 0 .. 4 /\ (Ahead(w) = 0 <=> ~Busy(w))
  BY DEF TypeOK, Awaits, Ahead, Busy

LEMMA LeftType == PoolInv => LeftInv
<1> SUFFICES ASSUME PoolInv, NEW w \in Workers
             PROVE  Left(w) \in 0 .. 4 * (N + 1) /\ (Left(w) = 0 <=> ~Busy(w))
  BY DEF LeftInv
<1>1. Ahead(w) \in 0 .. 4 /\ (Ahead(w) = 0 <=> ~Busy(w))
  BY AheadType DEF PoolInv
<1>2. cursor \in 1 .. N + 1 /\ (~Busy(w) => cursor = N + 1)
  BY DEF PoolInv, TypeOK, StopsLast
<1>3. Busy(w) => cursor \in 2 .. N + 1
  <2>1. at[w] \in 1 .. N /\ (Busy(w) => at[w] < cursor)
    BY DEF PoolInv, TypeOK, OnPending
  <2> QED
    BY <1>2, <2>1
<1> QED
  BY <1>1, <1>2, <1>3 DEF Left

\* A worker's step brings it closer to its end, and no other further from it.
LEMMA WorkAdvances ==
  ASSUME TypeOK, NEW w \in Workers, Work(w)
  PROVE  /\ Left(w)' < Left(w)
         /\ \A v \in Workers \ {w} : Left(v)' <= Left(v)
<1>1. Ahead(w) \in 1 .. 4
  BY DEF Work, Exists, Unpaywall, Download, Put, Ahead
<1>2. cursor \in 1 .. N + 1
  BY DEF TypeOK
<1>3. ASSUME NEW s \in Final, Settle(w, s)
      PROVE  /\ cursor' \in {cursor, cursor + 1}
             /\ cursor' = cursor => Ahead(w)' = 0
             /\ Ahead(w)' \in 0 .. 4
             /\ \A v \in Workers \ {w} : Ahead(v)' = Ahead(v)
  BY <1>3 DEF Settle, Advance, TypeOK, Ahead
<1>4. ASSUME NEW label \in Awaits, Goto(w, label)
      PROVE  /\ cursor' = cursor
             /\ Ahead(w)' \in 0 .. 4 /\ Ahead(w)' < Ahead(w)
             /\ \A v \in Workers \ {w} : Ahead(v)' = Ahead(v)
  <2>1. cursor' = cursor /\ pc' = [pc EXCEPT ![w] = label]
    BY <1>4 DEF Goto
  <2>2. /\ pc[w] = "exists" => label \in {"unpaywall", "download"}
        /\ pc[w] = "unpaywall" => label = "download"
        /\ pc[w] = "download" => label = "put"
        /\ pc[w] # "put"
    <3>1. pc'[w] = label /\ label # "stopped"
      BY <2>1 DEF TypeOK, Awaits
    <3>2. ASSUME NEW s, Settle(w, s) PROVE FALSE
      <4>1. cursor' = cursor /\ cursor \in Nat
        BY <1>2, <2>1
      <4>2. Advance(w, s)
        BY <3>2 DEF Settle
      <4>3. CASE cursor' = cursor + 1
        BY <4>1, <4>3
      <4>4. CASE pc' = [pc EXCEPT ![w] = "stopped"]
        BY <3>1, <4>4 DEF TypeOK
      <4> QED
        BY <4>2, <4>3, <4>4 DEF Advance
    <3>3. \/ pc[w] = "exists" /\ (Goto(w, "download") \/ Goto(w, "unpaywall"))
          \/ pc[w] = "unpaywall" /\ Goto(w, "download")
          \/ pc[w] = "download" /\ Goto(w, "put")
      BY <3>2 DEF Work, Exists, Unpaywall, Download, Put
    <3>4. ASSUME NEW other, Goto(w, other) PROVE label = other
      BY <3>1, <3>4 DEF Goto, TypeOK
    <3> QED
      BY <3>3, <3>4
  <2> QED
    BY <2>1, <2>2, <1>1 DEF Ahead, TypeOK
<1>5. \A v \in Workers : Ahead(v) \in 0 .. 4
  BY AheadType
<1>6. CASE \E s \in Final : Settle(w, s)
  <2>1. PICK s \in Final : Settle(w, s)
    BY <1>6
  <2>2. CASE cursor' = cursor + 1
    BY <1>1, <1>2, <1>3, <1>5, <2>1, <2>2 DEF Left
  <2>3. CASE cursor' = cursor
    BY <1>1, <1>2, <1>3, <1>5, <2>1, <2>3 DEF Left
  <2> QED
    BY <1>3, <2>1, <2>2, <2>3
<1>7. CASE \E label \in Awaits : Goto(w, label)
  <2>1. PICK label \in Awaits : Goto(w, label)
    BY <1>7
  <2> QED
    BY <1>1, <1>2, <1>4, <1>5, <2>1 DEF Left
<1> QED
  BY <1>6, <1>7, WorkForms

Advances ==
  run' = run => \A w \in Workers : Left(w)' <= Left(w) /\ (Work(w) => Left(w)' < Left(w))

\* In a run of the phase a worker takes at most 4 * (N + 1) steps, whatever the
\* others, the vault and the publishers do, and it stops only when none is left: the
\* phase cannot go round in circles, nor a worker be kept busy by the others.
THEOREM WorkBounded == Spec => []LeftInv /\ [][Advances]_vars
<1>1. ASSUME PoolInv, LeftInv, LeftInv', Next PROVE Advances
  <2> SUFFICES ASSUME run' = run, NEW w \in Workers
               PROVE  Left(w)' <= Left(w) /\ (Work(w) => Left(w)' < Left(w))
    BY DEF Advances
  <2>1. Left(w) \in Nat /\ Left(w)' \in Nat
    BY <1>1 DEF LeftInv
  <2>2. Work(w) => Left(w)' < Left(w)
    BY <1>1, WorkAdvances DEF PoolInv
  <2>3. ASSUME NEW v \in Workers, Work(v) PROVE Left(w)' <= Left(w)
    <3>1. CASE v = w
      BY <2>1, <2>2, <2>3, <3>1
    <3>2. CASE v # w
      BY <1>1, <2>3, <3>2, WorkAdvances DEF PoolInv
    <3> QED
      BY <3>1, <3>2
  <2>4. ASSUME NEW p \in Papers, Stored(p) PROVE Left(w)' <= Left(w)
    <3>1. Left(w)' = Left(w)
      BY <2>4 DEF Stored, Upload, OtherSession, Left, Ahead
    <3> QED
      BY <2>1, <3>1
  <2>5. ~Rerun
    <3>1. run \in Nat
      BY <1>1 DEF PoolInv, TypeOK
    <3> QED
      BY <3>1 DEF Rerun
  <2> QED
    BY <1>1, <2>2, <2>3, <2>4, <2>5 DEF Next, Stored
<1>2. PoolInv /\ LeftInv /\ LeftInv' /\ [Next]_vars => [Advances]_vars
  BY <1>1
<1> QED
  BY <1>2, LeftType, PoolSound, PTL DEF Spec

----------------------------------------------------------------------------
(* The vault *)

\* What a worker is about to store passed the magic-number check, and anything
\* else in the vault came from a user.
OnlyUploadsDiffer ==
  /\ \A w \in Workers : pc[w] = "put" => body[w] = "pdf"
  /\ \A p \in Papers, n \in 0 .. MaxRuns : vault[<<p, n>>] = "other" => uploaded[p] # 0

VaultInv == TypeOK /\ OnlyUploadsDiffer /\ PointersResolve

\* A worker that settles a paper is not about to store anything.
LEMMA SettleNoPut ==
  ASSUME TypeOK, NEW w \in Workers, NEW s \in Final, Settle(w, s)
  PROVE  \A v \in Workers : pc'[v] = "put" => v # w /\ pc[v] = "put"
  BY DEF Settle, Advance, TypeOK

\* Settling a paper with a good pointer leaves every pointer good.
LEMMA SettleKeepsPointers ==
  ASSUME TypeOK, PointersResolve, NEW w \in Workers, NEW s \in Final, Settle(w, s),
         run' = run, uploaded' = uploaded,
         \A p \in Papers : vault'[Key(p)] \in {vault[Key(p)], "pdf"},
         \/ s \notin Resolved
         \/ vault'[Key(at[w])] = "pdf"
         \/ vault'[Key(at[w])] = "other" /\ uploaded[at[w]] # 0
  PROVE  PointersResolve'
<1> SUFFICES ASSUME NEW p \in Papers, status'[p] \in Resolved
             PROVE  \/ vault'[Key(p)] = "pdf"
                    \/ vault'[Key(p)] = "other" /\ uploaded[p] # 0
  BY DEF PointersResolve, Key, StorageKey
<1>1. status' = [status EXCEPT ![at[w]] = s]
  BY DEF Settle
<1>2. CASE p = at[w]
  BY <1>1, <1>2 DEF TypeOK
<1>3. CASE p # at[w]
  BY <1>1, <1>3 DEF PointersResolve, TypeOK
<1> QED
  BY <1>2, <1>3

\* Every step keeps the manifest's pointers good.
LEMMA VaultStep == VaultInv /\ [Next]_vars => VaultInv'
<1> SUFFICES ASSUME VaultInv, [Next]_vars PROVE VaultInv'
  OBVIOUS
<1> USE DEF VaultInv
<1>1. TypeOK'
  BY TypeStep
<1>2. \A p \in Papers : Key(p) \in Keys /\ \E n \in 0 .. MaxRuns : Key(p) = <<p, n>>
  BY KeyType DEF TypeOK, Key, StorageKey
<1>3. \A p, q \in Papers : Key(p) = Key(q) => p = q
  BY DEF Key, StorageKey
\* A step that only sends the next request.
<1>4. ASSUME NEW w \in Workers, NEW label \in Awaits, Goto(w, label),
             UNCHANGED <<run, vault, uploaded>>,
             \A v \in Workers : v # w => body'[v] = body[v],
             label = "put" => body'[w] = "pdf"
      PROVE  VaultInv'
  <2>1. PointersResolve'
    BY <1>4 DEF Goto, PointersResolve, Key, StorageKey
  <2>2. OnlyUploadsDiffer'
    BY <1>4 DEF Goto, OnlyUploadsDiffer, TypeOK
  <2> QED
    BY <1>1, <2>1, <2>2
\* A step that settles a paper without touching the vault.
<1>5. ASSUME NEW w \in Workers, NEW s \in Final, Settle(w, s),
             UNCHANGED <<run, vault, uploaded>>,
             \A v \in Workers : v # w => body'[v] = body[v],
             s \in Resolved => vault[Key(at[w])] # "none"
      PROVE  VaultInv'
  <2>1. ASSUME s \in Resolved
        PROVE  \/ vault[Key(at[w])] = "pdf"
               \/ vault[Key(at[w])] = "other" /\ uploaded[at[w]] # 0
    <3>1. at[w] \in Papers
      BY DEF TypeOK
    <3>2. vault[Key(at[w])] \in {"pdf", "other"}
      BY <1>2, <1>5, <2>1, <3>1 DEF TypeOK, Files
    <3>3. PICK n \in 0 .. MaxRuns : Key(at[w]) = <<at[w], n>>
      BY <1>2, <3>1
    <3> QED
      BY <3>1, <3>2, <3>3 DEF OnlyUploadsDiffer
  <2>2. PointersResolve'
    <3>1. run' = run /\ uploaded' = uploaded /\ vault' = vault
      BY <1>5
    <3>2. \A p \in Papers : vault'[Key(p)] \in {vault[Key(p)], "pdf"}
      BY <3>1
    <3> QED
      BY <1>5, <2>1, <3>1, <3>2, SettleKeepsPointers
  <2>3. OnlyUploadsDiffer'
    BY <1>5, SettleNoPut DEF OnlyUploadsDiffer
  <2> QED
    BY <1>1, <2>2, <2>3
<1>6. ASSUME NEW w \in Workers, Exists(w) \/ Unpaywall(w) PROVE VaultInv'
  BY <1>4, <1>5, <1>6 DEF Exists, Unpaywall, Final, Resolved, Awaits
<1>7. ASSUME NEW w \in Workers, Download(w) PROVE VaultInv'
  <2>1. /\ UNCHANGED <<run, vault, uploaded>>
        /\ \A v \in Workers : v # w => body'[v] = body[v]
    BY <1>7 DEF Download, TypeOK
  <2>2. \/ Goto(w, "put") /\ body'[w] = "pdf"
        \/ \E s \in {"PAYWALLED", "FAILED_CORRUPTED"} : Settle(w, s)
    BY <1>7 DEF Download, Accepted, TypeOK
  <2> QED
    BY <1>4, <1>5, <2>1, <2>2 DEF Final, Resolved, Awaits
<1>8. ASSUME NEW w \in Workers, Put(w) PROVE VaultInv'
  <2>1. /\ UNCHANGED <<run, body, uploaded>>
        /\ body[w] = "pdf" /\ at[w] \in Papers
        /\ vault' \in {vault, [vault EXCEPT ![Key(at[w])] = "pdf"]}
    BY <1>8 DEF Put, OnlyUploadsDiffer, TypeOK
  <2>2. \/ Settle(w, "FAILED_CORRUPTED")
        \/ /\ Settle(w, "RESOLVED_DOWNLOAD")
           /\ vault' = [vault EXCEPT ![Key(at[w])] = "pdf"]
    BY <1>8, <2>1 DEF Put
  <2>3. \A k \in Keys : vault'[k] \in {vault[k], "pdf"}
    BY <2>1, <1>2 DEF TypeOK
  <2>4. \A p \in Papers : vault'[Key(p)] \in {vault[Key(p)], "pdf"}
    BY <1>2, <2>3
  <2>5. PointersResolve'
    <3>1. CASE Settle(w, "FAILED_CORRUPTED")
      <4>1. "FAILED_CORRUPTED" \in Final /\ "FAILED_CORRUPTED" \notin Resolved
        BY DEF Final, Resolved
      <4> QED
        BY <2>1, <2>4, <3>1, <4>1, SettleKeepsPointers
    <3>2. CASE Settle(w, "RESOLVED_DOWNLOAD") /\ vault' = [vault EXCEPT ![Key(at[w])] = "pdf"]
      <4>1. "RESOLVED_DOWNLOAD" \in Final /\ vault'[Key(at[w])] = "pdf"
        BY <1>2, <2>1, <3>2 DEF Final, Resolved, TypeOK
      <4> QED
        BY <2>1, <2>4, <3>2, <4>1, SettleKeepsPointers
    <3> QED
      BY <2>2, <3>1, <3>2
  <2>6. OnlyUploadsDiffer'
    BY <2>1, <2>2, <2>3, SettleNoPut DEF OnlyUploadsDiffer, Keys, Final, Resolved
  <2> QED
    BY <1>1, <2>5, <2>6
<1>9. ASSUME NEW p \in Papers, NEW n \in 1 .. MaxRuns, Upload(p, n) PROVE VaultInv'
  <2>1. /\ UNCHANGED <<run, pc, body, status>>
        /\ uploaded' = [uploaded EXCEPT ![p] = run] /\ run # 0
    BY <1>9 DEF Upload, TypeOK
  <2>2. /\ \A k \in Keys : k # StorageKey(p, n) => vault'[k] = vault[k]
        /\ vault'[StorageKey(p, n)] \in Files
    BY <1>9, KeyOfRun DEF Upload, TypeOK
  <2>3. PointersResolve'
    <3>1. ASSUME NEW q \in Papers, status[q] \in Resolved
          PROVE  \/ vault'[Key(q)] = "pdf"
                 \/ vault'[Key(q)] = "other" /\ uploaded'[q] # 0
      <4>1. CASE q = p
        <5>1. uploaded'[q] # 0
          BY <2>1, <4>1 DEF TypeOK
        <5> QED
          BY <1>2, <2>2, <3>1, <5>1 DEF PointersResolve, Files
      <4>2. CASE q # p
        <5>1. Key(q) # StorageKey(p, n) /\ uploaded'[q] = uploaded[q]
          BY <2>1, <4>2 DEF Key, StorageKey, TypeOK
        <5> QED
          BY <1>2, <2>2, <3>1, <5>1 DEF PointersResolve
      <4> QED
        BY <4>1, <4>2
    <3> QED
      BY <2>1, <3>1 DEF PointersResolve, Key, StorageKey
  <2>4. OnlyUploadsDiffer'
    <3>1. \A q \in Papers : uploaded[q] # 0 => uploaded'[q] # 0
      BY <2>1 DEF TypeOK
    <3>2. ASSUME NEW q \in Papers, NEW m \in 0 .. MaxRuns, vault'[<<q, m>>] = "other"
          PROVE  uploaded'[q] # 0
      <4>1. CASE <<q, m>> = StorageKey(p, n)
        BY <2>1, <4>1 DEF StorageKey, TypeOK
      <4>2. CASE <<q, m>> # StorageKey(p, n)
        <5>1. vault[<<q, m>>] = "other"
          BY <2>2, <3>2, <4>2 DEF Keys
        <5> QED
          BY <3>1, <5>1 DEF OnlyUploadsDiffer
      <4> QED
        BY <4>1, <4>2
    <3> QED
      BY <2>1, <3>2 DEF OnlyUploadsDiffer
  <2> QED
    BY <1>1, <2>3, <2>4
<1>10. ASSUME NEW p \in Papers, OtherSession(p) PROVE VaultInv'
  <2>1. /\ UNCHANGED <<run, pc, body, status, uploaded>>
        /\ vault' = [vault EXCEPT ![Key(p)] = "pdf"]
    BY <1>10 DEF OtherSession
  <2>2. \A k \in Keys : vault'[k] \in {vault[k], "pdf"}
    BY <1>2, <2>1 DEF TypeOK
  <2>3. PointersResolve'
    BY <1>2, <2>1, <2>2 DEF PointersResolve, Key, StorageKey
  <2>4. OnlyUploadsDiffer'
    BY <2>1, <2>2 DEF OnlyUploadsDiffer, Keys
  <2> QED
    BY <1>1, <2>3, <2>4
<1>11. CASE Rerun
  BY <1>1, <1>11 DEF Rerun, PointersResolve, OnlyUploadsDiffer, Resolved
<1>12. CASE UNCHANGED vars
  BY <1>1, <1>12 DEF vars, PointersResolve, OnlyUploadsDiffer, Key, StorageKey
<1> QED
  BY <1>6, <1>7, <1>8, <1>9, <1>10, <1>11, <1>12 DEF Next, Work

\* Phase 5 is never pointed at a missing object, nor at something other than a PDF
\* that no user uploaded.
THEOREM GoodPointers == Spec => []PointersResolve
<1>1. Init => VaultInv
  BY TypeInit DEF Init, VaultInv, OnlyUploadsDiffer, PointersResolve, Resolved, Keys
<1>2. VaultInv => PointersResolve
  BY DEF VaultInv
<1> QED
  BY <1>1, <1>2, VaultStep, PTL DEF Spec

----------------------------------------------------------------------------
(* Uploads *)

\* p was uploaded after an earlier run, under a key that does not change.
Awaiting(p) == HasDoi[p] /\ uploaded[p] \in 1 .. run - 1

\* The upload is still in the vault, and a worker on such a paper is at the cache
\* lookup, the only request that can answer for it.
UploadInv ==
  /\ TypeOK
  /\ \A p \in Papers : HasDoi[p] /\ uploaded[p] # 0 => vault[Key(p)] # "none"
  /\ \A p \in Papers, w \in Workers : Awaiting(p) /\ Busy(w) /\ at[w] = p => pc[w] = "exists"
  /\ UploadHonouredByDoi

\* When lookups do not fail, every step keeps earlier uploads findable.
LEMMA UploadStep == "head" \notin Faults /\ UploadInv /\ [Next]_vars => UploadInv'
<1> SUFFICES ASSUME "head" \notin Faults, UploadInv, [Next]_vars PROVE UploadInv'
  OBVIOUS
<1> USE DEF UploadInv, UploadHonouredByDoi, FoundAgain, Awaiting
<1>1. TypeOK'
  BY TypeStep
<1>2. \A p \in Papers : HasDoi[p] => Key(p) \in Keys /\ Key(p)' = Key(p)
  BY KeyType DEF Key, StorageKey, TypeOK
<1>3. ASSUME NEW w \in Workers, Work(w) PROVE UploadInv'
  <2>1. /\ UNCHANGED <<run, uploaded>>
        /\ at[w] \in Papers
        /\ \A k \in Keys : vault[k] # "none" => vault'[k] # "none"
    <3>1. \A k \in Keys : vault'[k] = vault[k] \/ vault'[k] = body[w]
      BY <1>3 DEF Work, Exists, Unpaywall, Download, Put, TypeOK
    <3> QED
      BY <1>3, <3>1 DEF Work, Exists, Unpaywall, Download, Put, TypeOK, Files
  <2>2. Awaiting(at[w]) => Settle(w, "RESOLVED_CACHE")
    <3> SUFFICES ASSUME Awaiting(at[w]) PROVE Settle(w, "RESOLVED_CACHE")
      OBVIOUS
    <3>1. pc[w] = "exists"
      BY <1>3, <2>1 DEF Work, Exists, Unpaywall, Download, Put, Busy
    <3>2. vault[Key(at[w])] # "none"
      BY <2>1 DEF TypeOK
    <3> QED
      BY <1>3, <3>1, <3>2 DEF Work, Exists, Unpaywall, Download, Put
  <2>3. \A v \in Workers : v # w => pc'[v] = pc[v] /\ at'[v] = at[v]
    <3>1. CASE \E label \in Awaits : Goto(w, label)
      BY <3>1 DEF Goto, TypeOK
    <3>2. CASE \E s \in Final : Settle(w, s)
      BY <3>2 DEF Settle, Advance, TypeOK
    <3> QED
      BY <1>3, <3>1, <3>2, WorkForms
  <2>4. \/ Busy(w)' /\ at'[w] = at[w] /\ ~Awaiting(at[w])
        \/ Busy(w)' /\ pc'[w] = "exists"
        \/ ~Busy(w)'
    <3>1. CASE \E label \in Awaits : Goto(w, label)
      BY <1>3, <2>2, <3>1 DEF Goto, Settle, Advance, TypeOK, Busy, Awaits
    <3>2. CASE \E s \in Final : Settle(w, s)
      BY <3>2 DEF Settle, Advance, TypeOK, Busy
    <3> QED
      BY <1>3, <3>1, <3>2, WorkForms
  <2>5. \A p \in Papers : status'[p] = status[p] \/ p = at[w]
    <3>1. CASE \E label \in Awaits : Goto(w, label)
      BY <3>1 DEF Goto, TypeOK
    <3>2. CASE \E s \in Final : Settle(w, s)
      BY <3>2 DEF Settle, TypeOK
    <3> QED
      BY <1>3, <3>1, <3>2, WorkForms
  <2>6. Awaiting(at[w]) => status'[at[w]] = "RESOLVED_CACHE"
    BY <2>1, <2>2 DEF Settle, TypeOK
  <2>7. UploadHonouredByDoi'
    BY <2>1, <2>5, <2>6
  <2>8. \A p \in Papers, v \in Workers :
          Awaiting(p)' /\ Busy(v)' /\ at'[v] = p => pc'[v] = "exists"
    BY <2>1, <2>3, <2>4 DEF Busy
  <2>9. \A p \in Papers : HasDoi[p] /\ uploaded'[p] # 0 => (vault[Key(p)] # "none")'
    BY <1>2, <2>1
  <2> QED
    BY <1>1, <2>7, <2>8, <2>9
<1>4. ASSUME NEW p \in Papers, Stored(p) PROVE UploadInv'
  <2>1. UNCHANGED <<run, pc, at, status>>
    BY <1>4 DEF Stored, Upload, OtherSession
  <2>2. \A q \in Papers : uploaded'[q] = uploaded[q] \/ uploaded'[q] = run
    BY <1>4 DEF Stored, Upload, OtherSession, TypeOK
  <2>3. \A k \in Keys : /\ vault[k] # "none" => vault'[k] # "none"
                        /\ HasDoi[p] /\ k = Key(p) => vault'[k] # "none"
    BY <1>4 DEF Stored, Upload, OtherSession, Key, StorageKey, TypeOK, Files
  <2>4. \A q \in Papers : q # p => uploaded'[q] = uploaded[q]
    BY <1>4 DEF Stored, Upload, OtherSession, TypeOK
  <2>5. \A q \in Papers : HasDoi[q] /\ uploaded'[q] # 0 => (vault[Key(q)] # "none")'
    BY <1>2, <2>3, <2>4
  <2>6. \A q \in Papers : Awaiting(q)' => Awaiting(q)
    <3>1. run \in Nat /\ run' = run /\ ~(run \in 1 .. run - 1)
      BY <2>1 DEF TypeOK
    <3> QED
      BY <2>2, <3>1
  <2> QED
    BY <1>1, <2>1, <2>5, <2>6 DEF Busy
<1>5. CASE Rerun
  BY <1>1, <1>2, <1>5 DEF Rerun, Busy
<1>6. CASE UNCHANGED vars
  BY <1>1, <1>2, <1>6 DEF vars, Busy
<1> QED
  BY <1>3, <1>4, <1>5, <1>6 DEF Next, Stored

\* When the vault answers its lookups, a paper with a DOI that the user uploaded is
\* resolved from the vault by every later run.
THEOREM UploadsFound == "head" \notin Faults => (Spec => []UploadHonouredByDoi)
<1> SUFFICES ASSUME "head" \notin Faults PROVE Spec => []UploadHonouredByDoi
  OBVIOUS
<1>1. Init => UploadInv
  BY TypeInit DEF Init, UploadInv, UploadHonouredByDoi, FoundAgain, Awaiting
<1>2. UploadInv /\ [Next]_vars => UploadInv'
  BY UploadStep
<1>3. UploadInv => UploadHonouredByDoi
  BY DEF UploadInv
<1> QED
  BY <1>1, <1>2, <1>3, PTL DEF Spec
=============================================================================
