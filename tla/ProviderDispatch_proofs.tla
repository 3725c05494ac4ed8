---------------------- MODULE ProviderDispatch_proofs ----------------------
(***************************************************************************)
(* The meaning of the circuit breaker, for any number of concurrent runs,  *)
(* threshold, cooldown and timeout; that a run of Discovery uses it as     *)
(* ProviderDispatch says; and what the run makes of the records it gets,   *)
(* for any providers, records, scores and bounds.                          *)
(*                                                                         *)
(* Deduplication is a loop and the two rankings are stable sorts cut to a  *)
(* length.  What they do to any sequence is stated and proved first: a     *)
(* merged record is the sum of its paper's, and an order lists each index  *)
(* once, the highest rank first.  The run's invariant is then what these   *)
(* facts say of the pool and of the ranked list.                           *)
(***************************************************************************)
EXTENDS Discovery, FiniteSetTheorems, WellFoundedInduction, TLAPS

\* The failure count is the number of failures since the last success, as far as
\* the history tells.
CountInv ==
  /\ failures <= Len(results)
  /\ \A i \in 1 .. failures : results[i] = "failed"
  /\ failures < Len(results) => results[failures + 1] = "ok"

BreakerInv == TypeOK /\ CountInv /\ OpenMeansOutage

\* What recording a result leaves in the history.
LEMMA NoteFacts ==
  ASSUME TypeOK, NEW r \in {"ok", "failed"}, Note(r)
  PROVE  /\ results' \in Seq({"ok", "failed"})
         /\ Len(results') = Kept
         /\ Kept \in 1 .. Threshold
         /\ Kept <= Len(results) + 1
         /\ results'[1] = r
         /\ \A i \in 2 .. Kept : results'[i] = results[i - 1]
         /\ since' \in 0 .. Cooldown
<1>1. Kept \in 1 .. Threshold /\ Kept <= Len(results) + 1 /\ Kept \in Nat
  BY ConstantsOK DEF TypeOK, Kept
<1>2. \A i \in 1 .. Kept : (IF i = 1 THEN r ELSE results[i - 1]) \in {"ok", "failed"}
  BY <1>1 DEF TypeOK
<1>3. results' \in [1 .. Kept -> {"ok", "failed"}]
  BY <1>2 DEF Note
<1>4. results' \in Seq({"ok", "failed"}) /\ Len(results') = Kept
  BY <1>1, <1>3
<1>5. results'[1] = r /\ \A i \in 2 .. Kept : results'[i] = results[i - 1]
  BY <1>1 DEF Note
<1>6. since' \in 0 .. Cooldown
  BY ConstantsOK DEF Note, TypeOK
<1> QED BY <1>1, <1>4, <1>5, <1>6

LEMMA InitInv == Init => BreakerInv
  BY ConstantsOK DEF Init, BreakerInv, TypeOK, CountInv, OpenMeansOutage, Streak, Idle

LEMMA SuccessInv ==
  ASSUME BreakerInv, RecordSuccess
  PROVE  /\ failures' \in 0 .. Threshold /\ left' \in 0 .. Cooldown
         /\ results' \in Seq({"ok", "failed"}) /\ Len(results') <= Threshold
         /\ since' \in 0 .. Cooldown
         /\ CountInv' /\ OpenMeansOutage'
<1>1. TypeOK /\ Note("ok")  BY DEF BreakerInv, RecordSuccess
<1>2. /\ results' \in Seq({"ok", "failed"})
      /\ Len(results') = Kept
      /\ Kept \in 1 .. Threshold
      /\ results'[1] = "ok"
      /\ since' \in 0 .. Cooldown
  BY <1>1, NoteFacts
<1>3. CountInv'  BY <1>2, ConstantsOK DEF CountInv, RecordSuccess
<1>4. ~Streak'  BY <1>2, ConstantsOK DEF Streak
<1> QED BY <1>2, <1>3, <1>4, ConstantsOK DEF OpenMeansOutage, RecordSuccess

LEMMA FailureInv ==
  ASSUME BreakerInv, RecordFailure
  PROVE  /\ failures' \in 0 .. Threshold /\ left' \in 0 .. Cooldown
         /\ results' \in Seq({"ok", "failed"}) /\ Len(results') <= Threshold
         /\ since' \in 0 .. Cooldown
         /\ CountInv' /\ OpenMeansOutage'
<1>1. TypeOK /\ CountInv /\ Note("failed")  BY DEF BreakerInv, RecordFailure
<1>2. /\ results' \in Seq({"ok", "failed"})
      /\ Len(results') = Kept
      /\ Kept \in 1 .. Threshold
      /\ Kept <= Len(results) + 1
      /\ results'[1] = "failed"
      /\ \A i \in 2 .. Kept : results'[i] = results[i - 1]
      /\ since' = 0
  BY <1>1, NoteFacts DEF Note
<1>3. PICK n \in 1 .. Threshold :
        failures' = n /\ (n = failures + 1 \/ (n = failures /\ failures = Threshold))
  BY <1>1, ConstantsOK DEF TypeOK, RecordFailure
<1>4. /\ n <= Kept
      /\ \A i \in 1 .. n : results'[i] = "failed"
      /\ n < Kept => results'[n + 1] = "ok"
  <2>1. n <= Kept
    BY <1>1, <1>3, ConstantsOK DEF TypeOK, CountInv, Kept
  <2>2. \A i \in 1 .. n : results'[i] = "failed"
    <3> SUFFICES ASSUME NEW i \in 1 .. n PROVE results'[i] = "failed"
      OBVIOUS
    <3>1. CASE i = 1  BY <3>1, <1>2
    <3>2. CASE i # 1
      <4>1. i \in 2 .. Kept /\ i - 1 \in 1 .. failures
        BY <3>2, <2>1, <1>1, <1>2, <1>3, ConstantsOK DEF TypeOK
      <4> QED BY <4>1, <1>1, <1>2 DEF CountInv
    <3> QED BY <3>1, <3>2
  <2>3. n < Kept => results'[n + 1] = "ok"
    <3> SUFFICES ASSUME n < Kept PROVE results'[n + 1] = "ok"
      OBVIOUS
    <3>1. n = failures + 1 /\ failures < Len(results)
      BY <1>1, <1>2, <1>3, ConstantsOK DEF TypeOK
    <3>2. n + 1 \in 2 .. Kept /\ (n + 1) - 1 = failures + 1
      BY <1>1, <1>2, <3>1 DEF TypeOK
    <3>3. results'[n + 1] = results[failures + 1]
      BY <3>2, <1>2
    <3> QED BY <3>1, <3>3, <1>1 DEF CountInv
  <2> QED BY <2>1, <2>2, <2>3
<1>5. CountInv'
  BY <1>2, <1>3, <1>4 DEF CountInv
<1>6. Streak' <=> n = Threshold
  <2>1. CASE n = Threshold
    BY <2>1, <1>2, <1>4, ConstantsOK DEF Streak
  <2>2. CASE n # Threshold
    <3> SUFFICES ASSUME Streak' PROVE FALSE
      BY <2>2
    <3>1. Kept = Threshold /\ \A i \in 1 .. Threshold : results'[i] = "failed"
      BY <1>2 DEF Streak
    <3>2. n < Kept /\ n + 1 \in 1 .. Threshold
      BY <2>2, <3>1, ConstantsOK
    <3>3. results'[n + 1] = "ok"  BY <3>2, <1>4
    <3> QED BY <3>1, <3>2, <3>3
  <2> QED BY <2>1, <2>2
<1>7. left' = IF n = Threshold THEN Cooldown ELSE left
  BY <1>1, <1>3, ConstantsOK DEF RecordFailure, TypeOK
<1>8. n # Threshold => ~Streak
  <2> SUFFICES ASSUME n # Threshold, Streak PROVE FALSE
    OBVIOUS
  <2>1. failures < Threshold  BY <1>1, <1>3, ConstantsOK DEF TypeOK
  <2>2. results[failures + 1] = "ok" /\ failures + 1 \in 1 .. Threshold
    BY <2>1, <1>1, ConstantsOK DEF Streak, CountInv, TypeOK
  <2> QED BY <2>2 DEF Streak
<1>9. OpenMeansOutage'
  BY <1>2, <1>6, <1>7, <1>8, ConstantsOK DEF OpenMeansOutage, BreakerInv
<1> QED BY <1>1, <1>2, <1>3, <1>5, <1>7, <1>9, ConstantsOK DEF TypeOK

LEMMA StepInv == BreakerInv /\ [Next]_vars => BreakerInv'
<1> SUFFICES ASSUME BreakerInv, [Next]_vars PROVE BreakerInv'
  OBVIOUS
<1> USE ConstantsOK
<1>1. CASE Tick
  <2>1. age' \in [Searches -> 0 .. Idle]
    BY <1>1 DEF Tick, BreakerInv, TypeOK, Idle, Sent
  <2> QED
    BY <1>1, <2>1 DEF Tick, BreakerInv, TypeOK, CountInv, OpenMeansOutage, Streak
<1>2. CASE Flip
  BY <1>2 DEF Flip, BreakerInv, TypeOK, CountInv, OpenMeansOutage, Streak, Idle
<1>3. ASSUME NEW s \in Searches, Dispatch(s) PROVE BreakerInv'
  <2>1. CASE Send(s)
    BY <2>1 DEF Send, BreakerInv, TypeOK, CountInv, OpenMeansOutage, Streak, Idle
  <2>2. CASE Skip(s)
    BY <2>2 DEF Skip, vars, BreakerInv, TypeOK, CountInv, OpenMeansOutage, Streak, Idle
  <2> QED BY <1>3, <2>1, <2>2 DEF Dispatch
<1>4. ASSUME NEW s \in Searches, Succeed(s) PROVE BreakerInv'
  BY <1>4, SuccessInv DEF Succeed, End, BreakerInv, TypeOK, Idle
<1>5. ASSUME NEW s \in Searches, Fail(s) PROVE BreakerInv'
  BY <1>5, FailureInv DEF Fail, End, BreakerInv, TypeOK, Idle
<1>6. CASE UNCHANGED vars
  BY <1>6 DEF vars, BreakerInv, TypeOK, CountInv, OpenMeansOutage, Streak, Idle
<1> QED BY <1>1, <1>2, <1>3, <1>4, <1>5, <1>6 DEF Next

THEOREM BreakerSound == Spec => []BreakerInv
<1> QED BY InitInv, StepInv, PTL DEF Spec

\* Counters, timers and history stay in their ranges.
THEOREM TypeCorrect == Spec => []TypeOK
  BY BreakerSound, PTL DEF BreakerInv

\* The circuit of a provider is open exactly during an outage, for every threshold,
\* cooldown and interleaving of concurrent runs.
THEOREM BreakerCorrect == Spec => []OpenMeansOutage
  BY BreakerSound, PTL DEF BreakerInv

----------------------------------------------------------------------------
LEMMA RunStep == [DiscoveryNext]_all => [Next]_vars
<1> SUFFICES ASSUME [DiscoveryNext]_all PROVE [Next]_vars
  OBVIOUS
<1>1. CASE SearchOurs
  <2>1. Begin \/ Succeed(Run) \/ Fail(Run)  BY <1>1 DEF SearchOurs
  <2>2. Begin => Dispatch(Run)  BY DEF Begin, Dispatch
  <2> QED BY <2>1, <2>2, DiscoveryAssumption DEF Next
<1>2. CASE RunNext /\ ~SearchOurs
  <2>1. UNCHANGED vars
    BY <1>2 DEF RunNext, Reject, Understand, SearchOther, Collect, Rerank, RerankFails
  <2> QED BY <2>1
<1>3. CASE Elsewhere
  BY <1>3 DEF Elsewhere, Next
<1>4. CASE UNCHANGED all
  BY <1>4 DEF all
<1> QED BY <1>1, <1>2, <1>3, <1>4 DEF DiscoveryNext

\* A run and the others together use the gateway as ProviderDispatch says that it may
\* be used: the records, the queries and the other phases add no step of the breaker.
THEOREM SharedBreaker == DiscoverySpec => Spec
<1>1. DiscoveryInit => Init
  BY DEF DiscoveryInit
<1> QED
  BY <1>1, RunStep, PTL DEF DiscoverySpec, Spec

\* Searched through the run's own steps, the provider's circuit still is open exactly
\* during an outage, whatever the run, the others and the service do.
THEOREM SharedBreakerCorrect == DiscoverySpec => []OpenMeansOutage
  BY SharedBreaker, BreakerCorrect, PTL

-----------------------------------------------------------------------------
(* Induction, and functions defined by recursion.                           *)

\* A set of numbers has a least one: otherwise the segments 0 .. n of its members,
\* which are finite, would descend for ever.
LEMMA Least ==
  ASSUME NEW S \in SUBSET Nat, S # {}
  PROVE  \E m \in S : \A n \in S : m <= n
<1> DEFINE T == {0 .. n : n \in S}
           R == StrictSubsetOrdering(Nat)
<1>1. \A X \in T : X \in FiniteSubsetsOf(Nat)
  <2> SUFFICES ASSUME NEW n \in S PROVE 0 .. n \in FiniteSubsetsOf(Nat)
    OBVIOUS
  <2>1. IsFiniteSet(0 .. n)
    BY FS_Interval
  <2> QED BY <2>1 DEF FiniteSubsetsOf
<1>2. IsWellFoundedOn(R, FiniteSubsetsOf(Nat))
  BY FS_StrictSubsetOrderingWellFounded
<1>3. PICK X \in T : \A Y \in T : ~ (<<Y, X>> \in R)
  <2>1. T # {}
    OBVIOUS
  <2> HIDE DEF T, R
  <2> QED BY <1>1, <1>2, <2>1, WFMin
<1>4. PICK m \in S : X = 0 .. m
  OBVIOUS
<1>5. ASSUME NEW n \in S, n < m PROVE FALSE
  <2>1. 0 .. n \subseteq 0 .. m /\ m \in 0 .. m /\ m \notin 0 .. n
    BY <1>5
  <2>2. <<0 .. n, 0 .. m>> \in R
    BY <2>1 DEF StrictSubsetOrdering
  <2> QED BY <1>3, <1>4, <2>2
<1> QED BY <1>5

\* Induction, as a statement about sets: the prover cannot instantiate predicates.
LEMMA Induction ==
  ASSUME NEW S, 0 \in S, \A n \in Nat : n \in S => n + 1 \in S
  PROVE  Nat \subseteq S
<1> SUFFICES ASSUME Nat \ S # {} PROVE FALSE
  OBVIOUS
<1>1. PICK m \in Nat \ S : \A n \in Nat \ S : m <= n
  BY Least
<1>2. m # 0 /\ m - 1 \in Nat
  BY <1>1
<1>3. m - 1 \in S
  BY <1>1, <1>2
<1> QED BY <1>1, <1>2, <1>3

\* g starts at a and goes on by the functions step[1], step[2], ...
Chain(g, a, n, step) == g[0] = a /\ \A i \in 1 .. n : g[i] = step[i][g[i - 1]]

LEMMA ChainExists ==
  ASSUME NEW A, NEW a \in A, NEW n \in Nat, NEW step \in [1 .. n -> [A -> A]]
  PROVE  \E g \in [0 .. n -> A] : Chain(g, a, n, step)
<1> DEFINE Good(k, g) == g[0] = a /\ \A i \in 1 .. k : g[i] = step[i][g[i - 1]]
           S == {k \in Nat : k <= n => \E g \in [0 .. k -> A] : Good(k, g)}
<1>1. \E g \in [0 .. 0 -> A] : Good(0, g)
  <2> DEFINE g == [i \in 0 .. 0 |-> a]
  <2>1. g \in [0 .. 0 -> A] /\ g[0] = a /\ 1 .. 0 = {}
    OBVIOUS
  <2> QED BY <2>1
<1>2. ASSUME NEW k \in Nat, k + 1 <= n, NEW g \in [0 .. k -> A], Good(k, g)
      PROVE  \E h \in [0 .. k + 1 -> A] : Good(k + 1, h)
  <2> DEFINE y == step[k + 1][g[k]]
             h == [i \in 0 .. k + 1 |-> IF i = k + 1 THEN y ELSE g[i]]
  <2>1. k + 1 \in 1 .. n /\ k \in 0 .. k /\ y \in A
    BY <1>2
  <2>2. h \in [0 .. k + 1 -> A] /\ h[k + 1] = step[k + 1][g[k]] /\ \A i \in 0 .. k : h[i] = g[i]
    <3> HIDE DEF y
    <3>1. h \in [0 .. k + 1 -> A] /\ h[k + 1] = y /\ \A i \in 0 .. k : h[i] = g[i]
      BY <2>1
    <3> HIDE DEF h
    <3> QED BY <3>1 DEF y
  <2> HIDE DEF h
  <2>3. Good(k + 1, h)
    <3>1. h[0] = a
      BY <1>2, <2>2
    <3>2. ASSUME NEW i \in 1 .. k + 1 PROVE h[i] = step[i][h[i - 1]]
      <4>1. i - 1 \in 0 .. k /\ (i = k + 1 \/ (i \in 1 .. k /\ i \in 0 .. k)) /\ (i = k + 1 => i - 1 = k)
        OBVIOUS
      <4> QED BY <4>1, <1>2, <2>2
    <3> QED BY <3>1, <3>2
  <2> QED BY <2>2, <2>3
<1> HIDE DEF Good
<1>3. 0 \in S /\ \A k \in Nat : k \in S => k + 1 \in S
  <2>1. \A k \in Nat : k + 1 <= n => k <= n
    OBVIOUS
  <2> QED BY <1>1, <1>2, <2>1
<1>4. n \in S
  <2> HIDE DEF S
  <2> QED BY <1>3, Induction
<1> QED BY <1>4 DEF Good, Chain

-----------------------------------------------------------------------------
(* A stable sort.                                                           *)

\* What Order promises: I, each element once, none before one of a higher rank.
Arranged(order, I, rank) ==
  /\ order \in [1 .. Cardinality(I) -> I]
  /\ \A k, l \in DOMAIN order : order[k] = order[l] => k = l
  /\ \A i \in I : \E k \in DOMAIN order : order[k] = i
  /\ \A k, l \in DOMAIN order : k < l => rank[order[k]] >= rank[order[l]]

\* place, the number of those before an index, is an injection of a finite set
\* into as many numbers, so every place is taken.
LEMMA OrderFacts ==
  ASSUME NEW I \in SUBSET Nat, IsFiniteSet(I), NEW rank \in [I -> Nat]
  PROVE  /\ Arranged(Order(I, rank), I, rank)
         /\ Cardinality(I) \in Nat
<1> DEFINE Before(j, i) == rank[j] > rank[i] \/ (j < i /\ rank[j] = rank[i])
           before(i) == {j \in I : Before(j, i)}
           n == Cardinality(I)
           place == [i \in I |-> Cardinality(before(i))]
           order == [k \in 1 .. n |-> CHOOSE i \in I : Cardinality(before(i)) = k - 1]
<1>1. n \in Nat
  BY FS_CardinalityType
<1>2. Order(I, rank) = order
  BY DEF Order
<1>3. /\ \A i \in I : ~ Before(i, i)
      /\ \A i, j \in I : i # j => Before(i, j) \/ Before(j, i)
      /\ \A i, j, k \in I : Before(i, j) /\ Before(j, k) => Before(i, k)
      /\ \A i, j \in I : Before(i, j) => rank[i] >= rank[j]
      /\ \A i, j \in I : ~ Before(j, i) => rank[i] >= rank[j]
  OBVIOUS
<1> HIDE DEF Before
<1>4. \A i \in I : IsFiniteSet(before(i)) /\ before(i) \in SUBSET I /\ i \notin before(i)
  <2>1. \A i \in I : before(i) \in SUBSET I /\ i \notin before(i)
    BY <1>3
  <2> HIDE DEF before
  <2> QED BY <2>1, FS_Subset
<1>5. \A i \in I : place[i] \in 0 .. n - 1
  <2> SUFFICES ASSUME NEW i \in I PROVE place[i] \in 0 .. n - 1
    OBVIOUS
  <2> HIDE DEF before
  <2>1. Cardinality(before(i)) \in Nat /\ Cardinality(before(i)) <= n
    BY <1>4, FS_Subset, FS_CardinalityType
  <2>2. Cardinality(before(i)) # n
    BY <1>4, FS_Subset
  <2> QED BY <1>1, <2>1, <2>2
<1>6. \A i, j \in I : Before(i, j) => place[i] < place[j]
  <2> SUFFICES ASSUME NEW i \in I, NEW j \in I, Before(i, j) PROVE place[i] < place[j]
    OBVIOUS
  <2>1. before(i) \subseteq before(j) /\ i \in before(j)
    BY <1>3
  <2> HIDE DEF before
  <2>2. before(i) \in SUBSET before(j) /\ before(i) # before(j) /\ IsFiniteSet(before(j))
    BY <1>4, <2>1
  <2>3. /\ Cardinality(before(i)) <= Cardinality(before(j))
        /\ Cardinality(before(i)) # Cardinality(before(j))
    BY <2>2, FS_Subset
  <2>4. Cardinality(before(i)) \in Nat /\ Cardinality(before(j)) \in Nat
    BY <1>4, FS_CardinalityType
  <2> QED BY <2>3, <2>4
<1>7. \A i, j \in I : place[i] = place[j] => i = j
  <2> HIDE DEF place
  <2> QED BY <1>1, <1>3, <1>5, <1>6
<1>8. \A k \in 1 .. n : \E i \in I : place[i] = k - 1
  <2> DEFINE T == 0 .. n - 1
  <2>1. IsFiniteSet(T) /\ Cardinality(T) = n
    BY <1>1, FS_Interval
  <2> HIDE DEF place
  <2>2. place \in [I -> T]
    BY <1>5 DEF place
  <2>3. place \in Injection(I, T)
    BY <1>7, <2>2 DEF Injection, IsInjective
  <2>4. place \in Surjection(I, T)
    <3> HIDE DEF T
    <3> QED BY <2>1, <2>3, FS_Injection
  <2> QED BY <2>4, <1>1 DEF Surjection
<1>9. \A k \in 1 .. n : order[k] \in I /\ place[order[k]] = k - 1
  <2> SUFFICES ASSUME NEW k \in 1 .. n PROVE order[k] \in I /\ place[order[k]] = k - 1
    OBVIOUS
  <2>1. \E i \in I : Cardinality(before(i)) = k - 1
    BY <1>8
  <2> DEFINE c == CHOOSE i \in I : Cardinality(before(i)) = k - 1
  <2>2. c \in I /\ Cardinality(before(c)) = k - 1
    BY <2>1
  <2>3. order[k] = c
    OBVIOUS
  <2> HIDE DEF c, order
  <2> QED BY <2>2, <2>3
<1>10. order \in [1 .. n -> I] /\ DOMAIN order = 1 .. n
  <2>1. order = [k \in 1 .. n |-> order[k]]
    OBVIOUS
  <2> HIDE DEF order, place
  <2> QED BY <2>1, <1>9
<1> HIDE DEF order, place
<1>11. \A k, l \in 1 .. n : order[k] = order[l] => k = l
  BY <1>1, <1>9
<1>12. \A i \in I : \E k \in 1 .. n : order[k] = i
  <2> SUFFICES ASSUME NEW i \in I PROVE \E k \in 1 .. n : order[k] = i
    OBVIOUS
  <2>1. place[i] + 1 \in 1 .. n /\ (place[i] + 1) - 1 = place[i]
    BY <1>1, <1>5
  <2>2. order[place[i] + 1] \in I /\ place[order[place[i] + 1]] = place[i]
    BY <1>9, <2>1
  <2> QED BY <1>7, <2>1, <2>2
<1>13. \A k, l \in 1 .. n : k < l => rank[order[k]] >= rank[order[l]]
  <2> SUFFICES ASSUME NEW k \in 1 .. n, NEW l \in 1 .. n, k < l
               PROVE  rank[order[k]] >= rank[order[l]]
    OBVIOUS
  <2>1. /\ order[k] \in I /\ order[l] \in I
        /\ place[order[k]] = k - 1 /\ place[order[l]] = l - 1
    BY <1>9
  <2>2. ~ Before(order[l], order[k])
    <3>1. Before(order[l], order[k]) => l - 1 < k - 1
      BY <1>6, <2>1
    <3> QED BY <1>1, <3>1
  <2> QED BY <1>3, <2>1, <2>2
<1> QED BY <1>1, <1>2, <1>10, <1>11, <1>12, <1>13 DEF Arranged

\* t lists the elements of s at the indices I, which order lists.
Lists(t, s, I, rank, order) ==
  /\ order \in [1 .. Len(t) -> I]
  /\ \A k \in 1 .. Len(t) : t[k] = s[order[k]]
  /\ \A k, l \in 1 .. Len(t) : order[k] = order[l] => k = l
  /\ \A i \in I : \E k \in 1 .. Len(t) : order[k] = i
  /\ \A k, l \in 1 .. Len(t) : k < l => rank[order[k]] >= rank[order[l]]

LEMMA OrderedFacts ==
  ASSUME NEW T, NEW s \in Seq(T), NEW I \in SUBSET DOMAIN s, NEW rank \in [I -> Nat]
  PROVE  /\ Ordered(s, I, rank) \in Seq(T)
         /\ \E order : Lists(Ordered(s, I, rank), s, I, rank, order)
<1> DEFINE n == Cardinality(I)
           order == Order(I, rank)
           t == [k \in DOMAIN order |-> s[order[k]]]
<1>1. DOMAIN s = 1 .. Len(s) /\ Len(s) \in Nat /\ \A i \in DOMAIN s : s[i] \in T
  OBVIOUS
<1>2. IsFiniteSet(I) /\ I \in SUBSET Nat
  <2> DEFINE D == 1 .. Len(s)
  <2>1. IsFiniteSet(D) /\ I \in SUBSET D /\ D \subseteq Nat
    BY <1>1, FS_Interval
  <2> HIDE DEF D
  <2> QED BY <2>1, FS_Subset
<1>3. Arranged(order, I, rank) /\ n \in Nat
  <2> HIDE DEF order, n
  <2> QED BY <1>2, OrderFacts DEF order, n
<1>4. Ordered(s, I, rank) = t
  BY DEF Ordered
<1> HIDE DEF order
<1>5. order \in [1 .. n -> I] /\ DOMAIN order = 1 .. n
  BY <1>3 DEF Arranged
<1> HIDE DEF n
<1>6. t \in [1 .. n -> T] /\ \A k \in 1 .. n : t[k] = s[order[k]]
  BY <1>1, <1>5
<1> HIDE DEF t
<1>7. t \in Seq(T) /\ Len(t) = n
  BY <1>3, <1>6
<1>8. /\ \A k, l \in 1 .. n : order[k] = order[l] => k = l
      /\ \A i \in I : \E k \in 1 .. n : order[k] = i
      /\ \A k, l \in 1 .. n : k < l => rank[order[k]] >= rank[order[l]]
  BY <1>3, <1>5 DEF Arranged
<1>9. Lists(t, s, I, rank, order)
  BY <1>5, <1>6, <1>7, <1>8 DEF Lists
<1> QED BY <1>4, <1>7, <1>9

\* A cut keeps what comes first.
LEMMA FirstFacts ==
  ASSUME NEW T, NEW s \in Seq(T), NEW n \in Nat
  PROVE  /\ First(n, s) \in Seq(T)
         /\ Len(First(n, s)) = IF Len(s) < n THEN Len(s) ELSE n
         /\ \A i \in DOMAIN First(n, s) : i \in DOMAIN s /\ First(n, s)[i] = s[i]
         /\ \A i \in DOMAIN s : i <= n => i \in DOMAIN First(n, s)
<1> DEFINE m == IF Len(s) < n THEN Len(s) ELSE n
<1>1. First(n, s) = SubSeq(s, 1, m)
  BY DEF First
<1>2. m \in Nat /\ m <= Len(s) /\ m <= n /\ DOMAIN s = 1 .. Len(s) /\ Len(s) \in Nat
  OBVIOUS
<1>3. /\ SubSeq(s, 1, m) \in Seq(T) /\ Len(SubSeq(s, 1, m)) = m
      /\ \A i \in 1 .. m : SubSeq(s, 1, m)[i] = s[i]
  <2> HIDE DEF m
  <2> QED BY <1>2
<1>4. \A i \in 1 .. Len(s) : i <= n => i \in 1 .. m
  OBVIOUS
<1> QED BY <1>1, <1>2, <1>3, <1>4

-----------------------------------------------------------------------------
(* One candidate for each paper.                                            *)

\* A record as the adapters leave it.
Clean == {r \in Record : r.doi.form = "bare"}

\* x is the sum of what the records in R say of its paper.
Sums(x, R) ==
  /\ \A r \in R : Key(r) = Key(x) =>
       /\ \A f \in Fields : r.length[f] <= x.length[f]
       /\ r.cites <= x.cites
       /\ r.providers \subseteq x.providers
  /\ \A f \in Fields : \E r \in R : Key(r) = Key(x) /\ r.length[f] = x.length[f]
  /\ \E r \in R : Key(r) = Key(x) /\ r.cites = x.cites
  /\ \A p \in x.providers : \E r \in R : Key(r) = Key(x) /\ p \in r.providers

\* m is what deduplicate makes of the records in R.
Pooled(m, R) ==
  /\ m \in Seq(Clean)
  /\ \A i, j \in DOMAIN m : Key(m[i]) = Key(m[j]) => i = j
  /\ \A r \in R : \E i \in DOMAIN m : Key(m[i]) = Key(r)
  /\ \A i \in DOMAIN m : Sums(m[i], R)

\* A merged record is a record of the same paper, with the larger of everything.
LEMMA MergePairFacts ==
  ASSUME NEW a \in Clean, NEW b \in Clean
  PROVE  LET c == MergePair(a, b) IN
         /\ c \in Clean
         /\ Key(c) = Key(a)
         /\ c.cites = Larger(a.cites, b.cites)
         /\ c.providers = a.providers \cup b.providers
         /\ \A f \in Fields : c.length[f] = Larger(a.length[f], b.length[f])
<1>1. \A f \in Fields : Larger(a.length[f], b.length[f]) \in Nat
  BY DEF Clean, Record, Larger
<1>2. Larger(a.cites, b.cites) \in Nat
  BY DEF Clean, Record, Larger
<1>3. [f \in Fields |-> Larger(a.length[f], b.length[f])] \in [Fields -> Nat]
  BY <1>1
<1>4. a.providers \cup b.providers \in SUBSET ToSet(Providers)
  BY DEF Clean, Record
<1> DEFINE c == MergePair(a, b)
<1>5. /\ c.doi = a.doi /\ c.paper = a.paper /\ c.dated = a.dated
      /\ c.length = [f \in Fields |-> Larger(a.length[f], b.length[f])]
      /\ c.cites = Larger(a.cites, b.cites)
      /\ c.providers = a.providers \cup b.providers
  BY DEF MergePair, Clean, Record
<1>6. c \in Clean
  BY <1>2, <1>3, <1>4 DEF MergePair, Clean, Record
<1> HIDE DEF c
<1>7. Key(c) = Key(a)
  BY <1>5 DEF Key
<1> QED BY <1>5, <1>6, <1>7 DEF c

LEMMA LargerFacts ==
  ASSUME NEW m \in Nat, NEW n \in Nat
  PROVE  /\ m <= Larger(m, n) /\ n <= Larger(m, n)
         /\ Larger(m, n) \in {m, n}
  BY DEF Larger

LEMMA SumsNew ==
  ASSUME NEW r \in Clean, NEW R, \A q \in R : Key(q) # Key(r)
  PROVE  Sums(r, R \cup {r})
<1>1. \A q \in R \cup {r} : Key(q) = Key(r) => q = r
  OBVIOUS
<1>2. r.cites <= r.cites /\ \A f \in Fields : r.length[f] <= r.length[f]
  BY DEF Clean, Record
<1> HIDE DEF Clean
<1> QED BY <1>1, <1>2 DEF Sums

LEMMA SumsOther ==
  ASSUME NEW x, NEW r, NEW R, Sums(x, R), Key(r) # Key(x)
  PROVE  Sums(x, R \cup {r})
  BY DEF Sums

LEMMA SumsMore ==
  ASSUME NEW x \in Clean, NEW r \in Clean, NEW R \in SUBSET Clean, Sums(x, R), Key(r) = Key(x)
  PROVE  Sums(MergePair(x, r), R \cup {r})
<1> DEFINE c == MergePair(x, r)
<1>1. /\ Key(c) = Key(x) /\ c.providers = x.providers \cup r.providers
      /\ c.cites = Larger(x.cites, r.cites)
      /\ \A f \in Fields : c.length[f] = Larger(x.length[f], r.length[f])
  BY MergePairFacts
<1>2. \A q \in Clean : q.cites \in Nat /\ \A f \in Fields : q.length[f] \in Nat
  BY DEF Clean, Record
<1> HIDE DEF c
<1>3. \A q \in R \cup {r} : Key(q) = Key(c) =>
        /\ \A f \in Fields : q.length[f] <= c.length[f]
        /\ q.cites <= c.cites
        /\ q.providers \subseteq c.providers
  <2> SUFFICES ASSUME NEW q \in R \cup {r}, Key(q) = Key(c)
               PROVE  /\ \A f \in Fields : q.length[f] <= c.length[f]
                      /\ q.cites <= c.cites
                      /\ q.providers \subseteq c.providers
    OBVIOUS
  <2>1. q \in Clean /\ (q = r \/ (q \in R /\ Key(q) = Key(x)))
    BY <1>1
  <2>2. CASE q = r
    BY <1>1, <1>2, <2>2 DEF Larger
  <2>3. CASE q \in R /\ Key(q) = Key(x)
    <3>1. /\ \A f \in Fields : q.length[f] <= x.length[f]
          /\ q.cites <= x.cites
          /\ q.providers \subseteq x.providers
      BY <2>3 DEF Sums
    <3> QED BY <1>1, <1>2, <2>1, <3>1 DEF Larger
  <2> QED BY <2>1, <2>2, <2>3
<1>4. \A f \in Fields : \E q \in R \cup {r} : Key(q) = Key(c) /\ q.length[f] = c.length[f]
  <2> SUFFICES ASSUME NEW f \in Fields
               PROVE  \E q \in R \cup {r} : Key(q) = Key(c) /\ q.length[f] = c.length[f]
    OBVIOUS
  <2>1. PICK q \in R : Key(q) = Key(x) /\ q.length[f] = x.length[f]
    BY DEF Sums
  <2>2. c.length[f] = x.length[f] \/ c.length[f] = r.length[f]
    BY <1>1 DEF Larger
  <2> QED BY <1>1, <2>1, <2>2
<1>5. \E q \in R \cup {r} : Key(q) = Key(c) /\ q.cites = c.cites
  <2>1. PICK q \in R : Key(q) = Key(x) /\ q.cites = x.cites
    BY DEF Sums
  <2>2. c.cites = x.cites \/ c.cites = r.cites
    BY <1>1 DEF Larger
  <2> QED BY <1>1, <2>1, <2>2
<1>6. \A p \in c.providers : \E q \in R \cup {r} : Key(q) = Key(c) /\ p \in q.providers
  BY <1>1 DEF Sums
<1> QED BY <1>3, <1>4, <1>5, <1>6 DEF Sums, c

\* One round of the loop keeps what was so and adds the record.
LEMMA MergeFacts ==
  ASSUME NEW R \in SUBSET Clean, NEW m, Pooled(m, R), NEW r \in Clean
  PROVE  Pooled(Merge(m, r), R \cup {r})
<1> DEFINE same == {i \in DOMAIN m : Key(m[i]) = Key(r)}
           Good(x, i) == Sums(x, R \cup {r})
<1>1. /\ m \in Seq(Clean)
      /\ \A i, j \in DOMAIN m : Key(m[i]) = Key(m[j]) => i = j
      /\ \A q \in R : \E i \in DOMAIN m : Key(m[i]) = Key(q)
      /\ \A i \in DOMAIN m : Sums(m[i], R) /\ m[i] \in Clean
  BY DEF Pooled
<1>2. CASE same = {}
  <2> DEFINE t == Append(m, r)
             n == Len(m)
  <2>1. Merge(m, r) = t
    BY <1>2 DEF Merge
  <2> HIDE DEF Clean
  <2>2. /\ t \in Seq(Clean) /\ DOMAIN t = 1 .. n + 1 /\ n \in Nat /\ DOMAIN m = 1 .. n
        /\ t[n + 1] = r /\ \A i \in 1 .. n : t[i] = m[i]
    BY <1>1
  <2> HIDE DEF t, n
  <2>3. \A i \in 1 .. n : Key(t[i]) # Key(r) /\ t[i] \in Clean
    BY <1>1, <1>2, <2>2
  <2>4. \A i, j \in DOMAIN t : Key(t[i]) = Key(t[j]) => i = j
    <3> SUFFICES ASSUME NEW i \in 1 .. n + 1, NEW j \in 1 .. n + 1, Key(t[i]) = Key(t[j])
                 PROVE  i = j
      BY <2>2
    <3>1. (i = n + 1 \/ i \in 1 .. n) /\ (j = n + 1 \/ j \in 1 .. n)
      BY <2>2
    <3> QED BY <1>1, <2>2, <2>3, <3>1
  <2>5. \A q \in R \cup {r} : \E i \in DOMAIN t : Key(t[i]) = Key(q)
    <3> SUFFICES ASSUME NEW q \in R \cup {r} PROVE \E i \in DOMAIN t : Key(t[i]) = Key(q)
      OBVIOUS
    <3>0. n + 1 \in DOMAIN t /\ \A i \in DOMAIN m : i \in DOMAIN t /\ t[i] = m[i]
      BY <2>2
    <3>1. CASE q = r
      BY <2>2, <3>0, <3>1
    <3>2. CASE q \in R
      BY <1>1, <3>0, <3>2
    <3> QED BY <3>1, <3>2
  <2>6. \A i \in DOMAIN t : Sums(t[i], R \cup {r})
    <3> SUFFICES ASSUME NEW i \in 1 .. n + 1 PROVE Sums(t[i], R \cup {r})
      BY <2>2
    <3>1. CASE i \in 1 .. n
      BY <1>1, <2>2, <2>3, <3>1, SumsOther
    <3>2. CASE i = n + 1
      <4>1. \A q \in R : Key(q) # Key(r)
        BY <1>1, <1>2
      <4>2. Sums(r, R \cup {r})
        BY <4>1, SumsNew
      <4> QED BY <2>2, <3>2, <4>2
    <3> QED BY <2>2, <3>1, <3>2
  <2> QED BY <2>1, <2>2, <2>4, <2>5, <2>6 DEF Pooled
<1>3. CASE same # {}
  <2> DEFINE t == [i \in DOMAIN m |-> IF i \in same THEN MergePair(m[i], r) ELSE m[i]]
  <2>1. Merge(m, r) = t
    BY <1>3 DEF Merge
  <2>2. \A i \in DOMAIN m : /\ t[i] \in Clean /\ Key(t[i]) = Key(m[i])
                            /\ Sums(t[i], R \cup {r})
    <3> SUFFICES ASSUME NEW i \in DOMAIN m
                 PROVE  /\ t[i] \in Clean /\ Key(t[i]) = Key(m[i])
                        /\ Sums(t[i], R \cup {r})
      OBVIOUS
    <3>0. m[i] \in Clean /\ Sums(m[i], R)
      BY <1>1
    <3>1. CASE i \in same
      <4>1. t[i] = MergePair(m[i], r) /\ Key(r) = Key(m[i])
        BY <3>1
      <4> HIDE DEF t, Clean
      <4>2. Sums(MergePair(m[i], r), R \cup {r})
        BY <3>0, <4>1, SumsMore
      <4>3. MergePair(m[i], r) \in Clean /\ Key(MergePair(m[i], r)) = Key(m[i])
        BY <3>0, MergePairFacts
      <4> QED BY <4>1, <4>2, <4>3
    <3>2. CASE i \notin same
      <4>1. t[i] = m[i] /\ Key(r) # Key(m[i])
        BY <3>2
      <4> HIDE DEF t, Clean
      <4> QED BY <3>0, <4>1, SumsOther
    <3> QED BY <3>1, <3>2
  <2>3. DOMAIN t = DOMAIN m
    OBVIOUS
  <2>4. t \in Seq(Clean)
    <3>1. PICK n \in Nat : DOMAIN m = 1 .. n
      BY <1>1
    <3>2. t = [i \in 1 .. n |-> t[i]]
      BY <3>1
    <3> HIDE DEF t, Clean
    <3>3. t \in [1 .. n -> Clean]
      BY <2>2, <3>1, <3>2
    <3> QED BY <3>3
  <2>5. PICK k \in DOMAIN m : Key(m[k]) = Key(r)
    BY <1>3
  <2> HIDE DEF t, same, Clean
  <2>6. \A i, j \in DOMAIN t : Key(t[i]) = Key(t[j]) => i = j
    BY <1>1, <2>2, <2>3
  <2>7. \A q \in R \cup {r} : \E i \in DOMAIN t : Key(t[i]) = Key(q)
    BY <1>1, <2>2, <2>3, <2>5
  <2> QED BY <2>1, <2>2, <2>3, <2>4, <2>6, <2>7 DEF Pooled
<1> QED BY <1>2, <1>3

LEMMA MergeType ==
  ASSUME NEW m \in Seq(Clean), NEW r \in Clean
  PROVE  Merge(m, r) \in Seq(Clean)
<1> DEFINE same == {i \in DOMAIN m : Key(m[i]) = Key(r)}
           t == [i \in DOMAIN m |-> IF i \in same THEN MergePair(m[i], r) ELSE m[i]]
<1>1. \A i \in DOMAIN m : t[i] \in Clean
  <2> HIDE DEF Clean
  <2>1. \A i \in DOMAIN m : m[i] \in Clean
    OBVIOUS
  <2>2. \A a \in Clean : MergePair(a, r) \in Clean
    BY MergePairFacts
  <2> QED BY <2>1, <2>2
<1>2. t \in Seq(Clean)
  <2>1. PICK n \in Nat : DOMAIN m = 1 .. n
    OBVIOUS
  <2>2. t = [i \in 1 .. n |-> t[i]]
    BY <2>1
  <2> HIDE DEF t, Clean
  <2>3. t \in [1 .. n -> Clean]
    BY <1>1, <2>1, <2>2
  <2> QED BY <2>3
<1>3. Merge(m, r) = t \/ Merge(m, r) = Append(m, r)
  BY DEF Merge
<1> HIDE DEF t, Clean
<1> QED BY <1>2, <1>3

\* The loop: induction on the rounds of the function Deduplicate defines.
LEMMA DeduplicateFacts ==
  ASSUME NEW s \in Seq(Clean)
  PROVE  Pooled(Deduplicate(s), ToSet(s))
<1> DEFINE A == Seq(Clean)
           m == Len(s)
           e == <<>>
           Good(f) == f = [n \in 0 .. m |-> IF n = 0 THEN e ELSE Merge(f[n - 1], s[n])]
           F == CHOOSE f : Good(f)
           step == [n \in 1 .. m |-> [x \in A |-> Merge(x, s[n])]]
           R(n) == {s[i] : i \in 1 .. n}
           S == {n \in Nat : n <= m => Pooled(F[n], R(n))}
<1>1. m \in Nat /\ e \in A /\ ToSet(s) = R(m) /\ \A n \in 1 .. m : s[n] \in Clean
  BY DEF ToSet
<1>2. Deduplicate(s) = F[m]
  BY DEF Deduplicate
<1>3. Pooled(e, R(0))
  <2> HIDE DEF Clean
  <2>1. e \in Seq(Clean) /\ DOMAIN e = {} /\ 1 .. 0 = {}
    OBVIOUS
  <2> HIDE DEF e
  <2> QED BY <2>1 DEF Pooled
<1>4. \A n \in 1 .. m : R(n) = R(n - 1) \cup {s[n]}
  <2>1. \A n \in 1 .. m : 1 .. n = (1 .. n - 1) \cup {n}
    BY <1>1
  <2> HIDE DEF m
  <2> QED BY <2>1
<1>5. \A n \in 1 .. m : R(n - 1) \in SUBSET Clean
  <2>1. \A n \in 1 .. m : 1 .. n - 1 \subseteq 1 .. m
    BY <1>1
  <2> HIDE DEF m
  <2> QED BY <1>1, <2>1
<1> HIDE DEF m, e, R
<1>6. \A n \in 1 .. m : \A x \in A : Merge(x, s[n]) \in A
  BY <1>1, MergeType
<1>7. PICK g \in [0 .. m -> A] : Chain(g, e, m, step)
  <2>1. step \in [1 .. m -> [A -> A]]
    BY <1>6
  <2>2. m \in Nat /\ e \in A
    BY <1>1
  <2> HIDE DEF step, Good, F, A
  <2> QED BY <2>1, <2>2, ChainExists
<1> HIDE DEF A
<1>8. \A i \in 1 .. m : g[i - 1] \in A /\ g[i] = Merge(g[i - 1], s[i])
  <2>1. \A i \in 1 .. m : i - 1 \in 0 .. m
    BY <1>1
  <2> QED BY <1>7, <2>1 DEF Chain
<1>9. Good(g)
  <2>1. \A i \in 0 .. m : g[i] = IF i = 0 THEN e ELSE Merge(g[i - 1], s[i])
    BY <1>1, <1>7, <1>8 DEF Chain
  <2> QED BY <2>1
<1>10. Good(F)
  <2> HIDE DEF Good
  <2> QED BY <1>9
<1> HIDE DEF F
<1>11. F[0] = e /\ \A n \in 1 .. m : F[n] = Merge(F[n - 1], s[n])
  BY <1>1, <1>10
<1>12. 0 \in S
  BY <1>3, <1>11
<1>13. ASSUME NEW n \in Nat, n \in S, n + 1 <= m PROVE Pooled(F[n + 1], R(n + 1))
  <2>1. n + 1 \in 1 .. m /\ (n + 1) - 1 = n /\ n <= m
    BY <1>1, <1>13
  <2>2. /\ Pooled(F[n], R(n)) /\ R(n) \in SUBSET Clean /\ s[n + 1] \in Clean
        /\ F[n + 1] = Merge(F[n], s[n + 1]) /\ R(n + 1) = R(n) \cup {s[n + 1]}
    BY <1>1, <1>4, <1>5, <1>11, <1>13, <2>1
  <2> HIDE DEF Clean
  <2>3. Pooled(Merge(F[n], s[n + 1]), R(n) \cup {s[n + 1]})
    BY <2>2, MergeFacts
  <2> QED BY <2>2, <2>3
<1>14. m \in S
  <2>1. \A n \in Nat : n \in S => n + 1 \in S
    BY <1>13
  <2> HIDE DEF S
  <2> QED BY <1>1, <1>12, <2>1, Induction
<1> QED BY <1>1, <1>2, <1>14

\* The records found, and those of them that can be ranked.
Heard == UNION {ToSet(found[p]) : p \in ToSet(Providers)}

\* The batch is what the providers found, all of it.
LEMMA BatchFacts ==
  ASSUME \A p \in ToSet(Providers) : found[p] \in Seq(Clean)
  PROVE  Batch \in Seq(Clean) /\ ToSet(Batch) = Heard
<1> DEFINE A == Seq(Clean)
           m == Len(Providers)
           e == <<>>
           Good(f) == f = [k \in 0 .. m |-> IF k = 0 THEN e ELSE f[k - 1] \o found[Providers[k]]]
           F == CHOOSE f : Good(f)
           step == [k \in 1 .. m |-> [x \in A |-> x \o found[Providers[k]]]]
           R(n) == UNION {ToSet(found[Providers[k]]) : k \in 1 .. n}
           S == {n \in Nat : n <= m => F[n] \in A /\ ToSet(F[n]) = R(n)}
<1>1. m \in Nat /\ e \in A /\ DOMAIN Providers = 1 .. m
  BY DiscoveryAssumption
<1>2. \A k \in 1 .. m : found[Providers[k]] \in A
  BY <1>1 DEF ToSet
<1>3. Heard = R(m)
  <2> DEFINE T(p) == ToSet(found[p])
  <2>1. ToSet(Providers) = {Providers[k] : k \in 1 .. m}
    BY <1>1 DEF ToSet
  <2>2. Heard = UNION {T(p) : p \in ToSet(Providers)} /\ R(m) = UNION {T(Providers[k]) : k \in 1 .. m}
    BY DEF Heard
  <2> HIDE DEF T, R, m
  <2> QED BY <2>1, <2>2
<1>4. Batch = F[m]
  BY DEF Batch
<1>5. ToSet(e) = R(0)
  <2>1. DOMAIN e = {} /\ 1 .. 0 = {}
    OBVIOUS
  <2> QED BY <2>1 DEF ToSet
<1>6. \A k \in 1 .. m : R(k) = R(k - 1) \cup ToSet(found[Providers[k]])
  <2>1. \A k \in 1 .. m : 1 .. k = (1 .. k - 1) \cup {k}
    BY <1>1
  <2> HIDE DEF m
  <2> QED BY <2>1
<1>7. \A x \in A, y \in A : x \o y \in A /\ ToSet(x \o y) = ToSet(x) \cup ToSet(y)
  <2> HIDE DEF Clean
  <2> SUFFICES ASSUME NEW x \in A, NEW y \in A
               PROVE  x \o y \in A /\ ToSet(x \o y) = ToSet(x) \cup ToSet(y)
    OBVIOUS
  <2>1. /\ x \o y \in A /\ Len(x) \in Nat /\ Len(y) \in Nat
        /\ DOMAIN (x \o y) = 1 .. Len(x) + Len(y)
        /\ DOMAIN x = 1 .. Len(x) /\ DOMAIN y = 1 .. Len(y)
        /\ \A i \in 1 .. Len(x) : (x \o y)[i] = x[i]
        /\ \A i \in 1 .. Len(y) : (x \o y)[Len(x) + i] = y[i]
    OBVIOUS
  <2> DEFINE z == x \o y
             lx == Len(x)
             ly == Len(y)
  <2>2. \A i \in 1 .. lx + ly : i \in 1 .. lx \/ (i - lx \in 1 .. ly /\ i = lx + (i - lx))
    BY <2>1
  <2>3. \A i \in 1 .. lx : i \in 1 .. lx + ly
    BY <2>1
  <2>4. \A i \in 1 .. ly : lx + i \in 1 .. lx + ly
    BY <2>1
  <2>5. /\ z \in A /\ DOMAIN z = 1 .. lx + ly /\ DOMAIN x = 1 .. lx /\ DOMAIN y = 1 .. ly
        /\ \A i \in 1 .. lx : z[i] = x[i]
        /\ \A i \in 1 .. ly : z[lx + i] = y[i]
    BY <2>1
  <2> HIDE DEF z, lx, ly
  <2>6. ToSet(z) \subseteq ToSet(x) \cup ToSet(y)
    <3> SUFFICES ASSUME NEW i \in 1 .. lx + ly PROVE z[i] \in ToSet(x) \cup ToSet(y)
      BY <2>5 DEF ToSet
    <3>1. CASE i \in 1 .. lx
      BY <2>5, <3>1 DEF ToSet
    <3>2. CASE i - lx \in 1 .. ly /\ i = lx + (i - lx)
      <4> DEFINE j == i - lx
      <4>1. j \in 1 .. ly /\ z[lx + j] = y[j] /\ i = lx + j
        BY <2>5, <3>2
      <4> HIDE DEF j
      <4> QED BY <2>5, <4>1 DEF ToSet
    <3> QED BY <2>2, <3>1, <3>2
  <2>7. ToSet(x) \cup ToSet(y) \subseteq ToSet(z)
    <3>1. \A i \in 1 .. lx : x[i] \in ToSet(z)
      BY <2>3, <2>5 DEF ToSet
    <3>2. \A i \in 1 .. ly : y[i] \in ToSet(z)
      BY <2>4, <2>5 DEF ToSet
    <3> QED BY <2>5, <3>1, <3>2 DEF ToSet
  <2> QED BY <2>5, <2>6, <2>7 DEF z
<1> HIDE DEF m, e, R, A
<1>8. PICK g \in [0 .. m -> A] : Chain(g, e, m, step)
  <2>1. step \in [1 .. m -> [A -> A]]
    BY <1>2, <1>7
  <2>2. m \in Nat /\ e \in A
    BY <1>1
  <2> HIDE DEF step, Good, F
  <2> QED BY <2>1, <2>2, ChainExists
<1>9. \A i \in 1 .. m : g[i - 1] \in A /\ g[i] = g[i - 1] \o found[Providers[i]]
  <2>1. \A i \in 1 .. m : i - 1 \in 0 .. m
    BY <1>1
  <2> QED BY <1>8, <2>1 DEF Chain
<1>10. Good(g)
  <2>1. \A i \in 0 .. m : g[i] = IF i = 0 THEN e ELSE g[i - 1] \o found[Providers[i]]
    BY <1>1, <1>8, <1>9 DEF Chain
  <2> QED BY <2>1
<1>11. Good(F)
  <2> HIDE DEF Good
  <2> QED BY <1>10
<1> HIDE DEF F
<1>12. F[0] = e /\ \A n \in 1 .. m : F[n] = F[n - 1] \o found[Providers[n]]
  BY <1>1, <1>11
<1>13. 0 \in S
  BY <1>1, <1>5, <1>12
<1>14. ASSUME NEW n \in Nat, n \in S, n + 1 <= m
       PROVE  F[n + 1] \in A /\ ToSet(F[n + 1]) = R(n + 1)
  <2>1. n + 1 \in 1 .. m /\ (n + 1) - 1 = n /\ n <= m
    BY <1>1, <1>14
  <2>2. /\ F[n] \in A /\ ToSet(F[n]) = R(n)
        /\ F[n + 1] = F[n] \o found[Providers[n + 1]]
        /\ found[Providers[n + 1]] \in A
        /\ R(n + 1) = R(n) \cup ToSet(found[Providers[n + 1]])
    BY <1>2, <1>6, <1>12, <1>14, <2>1
  <2> DEFINE x == F[n]
             y == found[Providers[n + 1]]
  <2>3. x \o y \in A /\ ToSet(x \o y) = ToSet(x) \cup ToSet(y)
    BY <1>7, <2>2
  <2> QED BY <2>2, <2>3
<1>15. m \in S
  <2>1. \A n \in Nat : n \in S => n + 1 \in S
    BY <1>14
  <2> HIDE DEF S
  <2> QED BY <1>1, <1>13, <2>1, Induction
<1> QED BY <1>1, <1>3, <1>4, <1>15 DEF A

-----------------------------------------------------------------------------
(* The pool and the ranked list.                                            *)

\* The filter keeps the records that can be ranked, and no others.
LEMMA DropInvalidFacts ==
  ASSUME NEW s \in Seq(Clean)
  PROVE  /\ DropInvalid(s) \in Seq(Clean)
         /\ ToSet(DropInvalid(s)) = {r \in ToSet(s) : Valid(r)}
<1> DEFINE kept == {i \in DOMAIN s : Valid(s[i])}
           rank == [i \in kept |-> 0]
           t == Ordered(s, kept, rank)
<1> HIDE DEF Clean
<1>1. DropInvalid(s) = t
  BY DEF DropInvalid
<1>2. kept \in SUBSET DOMAIN s /\ rank \in [kept -> Nat]
  OBVIOUS
<1>3. t \in Seq(Clean) /\ \E order : Lists(t, s, kept, rank, order)
  <2> HIDE DEF kept, rank
  <2> QED BY <1>2, OrderedFacts
<1>4. PICK order : Lists(t, s, kept, rank, order)
  BY <1>3
<1> HIDE DEF t
<1>5. DOMAIN t = 1 .. Len(t)
  BY <1>3
<1>6. ToSet(t) = {s[i] : i \in kept}
  <2> DEFINE D == 1 .. Len(t)
  <2>1. /\ \A k \in D : order[k] \in kept /\ t[k] = s[order[k]]
        /\ \A i \in kept : \E k \in D : order[k] = i
    BY <1>4 DEF Lists
  <2>2. ToSet(t) = {t[k] : k \in D}
    BY <1>5 DEF ToSet
  <2> HIDE DEF kept, D
  <2> QED BY <2>1, <2>2
<1>7. {s[i] : i \in kept} = {r \in ToSet(s) : Valid(r)}
  BY DEF ToSet
<1> QED BY <1>1, <1>3, <1>6, <1>7

\* The maximum of a set of numbers is the one not less than any.
LEMMA MaxIs ==
  ASSUME NEW S \in SUBSET Nat, NEW m \in S, \A n \in S : n <= m
  PROVE  Max(S) = m
<1>1. \A n \in S : m >= n
  OBVIOUS
<1>2. \A x \in S : (\A y \in S : x >= y) => x = m
  OBVIOUS
<1> QED BY <1>1, <1>2 DEF Max

LEMMA ReturnedClean ==
  ASSUME \A p \in ToSet(Providers) : found[p] \in Seq(Clean)
  PROVE  Returned \in SUBSET Clean
<1> HIDE DEF Clean
<1>1. \A s \in Seq(Clean) : ToSet(s) \subseteq Clean
  BY DEF ToSet
<1> QED BY <1>1 DEF Returned

\* A candidate is the best that is known of its paper.
LEMMA SuperFacts ==
  ASSUME NEW x \in Clean, Sums(x, Returned), Returned \in SUBSET Clean
  PROVE  /\ Super(Key(x)).cites = x.cites
         /\ [f \in {"length", "cites", "providers"} |-> x[f]] = Super(Key(x))
<1> DEFINE same == {r \in Returned : Key(r) = Key(x)}
           long(f) == {r.length[f] : r \in same}
           cited == {r.cites : r \in same}
           finders == UNION {r.providers : r \in same}
<1>1. /\ same \subseteq Clean
      /\ \A r \in same : /\ \A f \in Fields : r.length[f] <= x.length[f]
                         /\ r.cites <= x.cites
                         /\ r.providers \subseteq x.providers
      /\ \A f \in Fields : \E r \in same : r.length[f] = x.length[f]
      /\ \E r \in same : r.cites = x.cites
      /\ \A p \in x.providers : \E r \in same : p \in r.providers
  BY DEF Sums
<1>2. \A r \in Clean : r.cites \in Nat /\ \A f \in Fields : r.length[f] \in Nat
  BY DEF Clean, Record
<1>3. Super(Key(x)) = [length |-> [f \in Fields |-> Max(long(f))],
                       cites |-> Max(cited), providers |-> finders]
  BY DEF Super
<1> HIDE DEF same
<1>4. \A f \in Fields : Max(long(f)) = x.length[f]
  <2> SUFFICES ASSUME NEW f \in Fields PROVE Max(long(f)) = x.length[f]
    OBVIOUS
  <2>1. long(f) \in SUBSET Nat /\ x.length[f] \in long(f) /\ \A n \in long(f) : n <= x.length[f]
    BY <1>1, <1>2
  <2> HIDE DEF long
  <2> QED BY <2>1, MaxIs
<1>5. Max(cited) = x.cites
  <2>1. cited \in SUBSET Nat /\ x.cites \in cited /\ \A n \in cited : n <= x.cites
    BY <1>1, <1>2
  <2> HIDE DEF cited
  <2> QED BY <2>1, MaxIs
<1>6. finders = x.providers
  BY <1>1
<1>7. x.length = [f \in Fields |-> Max(long(f))]
  <2>1. x.length = [f \in Fields |-> x.length[f]]
    BY DEF Clean, Record
  <2> HIDE DEF long
  <2> QED BY <1>4, <2>1
<1> HIDE DEF long, cited, finders
<1>8. Super(Key(x)) = [length |-> x.length, cites |-> x.cites, providers |-> x.providers]
  BY <1>3, <1>5, <1>6, <1>7
<1>9. [f \in {"length", "cites", "providers"} |-> x[f]]
      = [length |-> x.length, cites |-> x.cites, providers |-> x.providers]
  OBVIOUS
<1> QED BY <1>8, <1>9

\* What is known of the candidates: each is all that was found of its paper, no two
\* are of one paper, and a paper is left out for others that are cited as much.
LeftOut(s, r) ==
  /\ Len(s) = MaxCandidates
  /\ \A i \in DOMAIN s : Key(s[i]) # Key(r) /\ s[i].cites >= Super(Key(r)).cites

PoolFacts(s) ==
  /\ s \in Seq(Clean)
  /\ Len(s) <= MaxCandidates
  /\ \A i, j \in DOMAIN s : Key(s[i]) = Key(s[j]) => i = j
  /\ \A i \in DOMAIN s : Sums(s[i], Returned)
  /\ \A r \in Returned : (\E i \in DOMAIN s : Key(s[i]) = Key(r)) \/ LeftOut(s, r)

\* The pool is what normalization, entity resolution, the sort and the cut leave.
LEMMA CollectedFacts ==
  ASSUME \A p \in ToSet(Providers) : found[p] \in Seq(Clean)
  PROVE  PoolFacts(Collected)
<1> DEFINE b == DropInvalid(Batch)
           d == Deduplicate(b)
           rank == [i \in DOMAIN d |-> d[i].cites]
           o == ByCitations(d)
           c == First(MaxCandidates, o)
<1>1. b \in Seq(Clean) /\ ToSet(b) = Returned
  <2>1. Batch \in Seq(Clean) /\ ToSet(Batch) = Heard
    BY BatchFacts
  <2>2. Returned = {r \in Heard : Valid(r)}
    BY DEF Returned, Heard
  <2> HIDE DEF Clean
  <2> QED BY <2>1, <2>2, DropInvalidFacts
<1> HIDE DEF b
<1>2. Pooled(d, Returned)
  BY <1>1, DeduplicateFacts
<1> HIDE DEF d
<1>3. /\ d \in Seq(Clean)
      /\ \A i, j \in DOMAIN d : Key(d[i]) = Key(d[j]) => i = j
      /\ \A r \in Returned : \E i \in DOMAIN d : Key(d[i]) = Key(r)
      /\ \A i \in DOMAIN d : Sums(d[i], Returned)
  BY <1>2 DEF Pooled
<1>4. rank \in [DOMAIN d -> Nat] /\ \A i \in DOMAIN d : rank[i] = d[i].cites /\ d[i] \in Clean
  <2>1. \A x \in Clean : x.cites \in Nat
    BY DEF Clean, Record
  <2>2. \A i \in DOMAIN d : d[i] \in Clean
    <3> HIDE DEF Clean
    <3> QED BY <1>3
  <2> QED BY <2>1, <2>2
<1> HIDE DEF Clean
<1>5. o \in Seq(Clean) /\ \E order : Lists(o, d, DOMAIN d, rank, order)
  <2>1. o = Ordered(d, DOMAIN d, rank)
    BY DEF ByCitations
  <2> DEFINE D == DOMAIN d
  <2>2. D \in SUBSET DOMAIN d /\ rank \in [D -> Nat]
    BY <1>4
  <2> HIDE DEF rank, o, D
  <2>3. Ordered(d, D, rank) \in Seq(Clean) /\ \E order : Lists(Ordered(d, D, rank), d, D, rank, order)
    BY <1>3, <2>2, OrderedFacts
  <2> QED BY <2>1, <2>3 DEF D
<1> DEFINE n == Len(o)
<1>6. PICK order :
           /\ order \in [1 .. n -> DOMAIN d]
           /\ \A k \in 1 .. n : o[k] = d[order[k]]
           /\ \A k, l \in 1 .. n : order[k] = order[l] => k = l
           /\ \A i \in DOMAIN d : \E k \in 1 .. n : order[k] = i
           /\ \A k, l \in 1 .. n : k < l => rank[order[k]] >= rank[order[l]]
  BY <1>5 DEF Lists
<1> HIDE DEF o, rank
<1>7. MaxCandidates \in Nat
  BY DiscoveryAssumption
<1>8. /\ c \in Seq(Clean)
      /\ Len(c) = IF n < MaxCandidates THEN n ELSE MaxCandidates
      /\ \A i \in DOMAIN c : i \in DOMAIN o /\ c[i] = o[i]
      /\ \A i \in DOMAIN o : i <= MaxCandidates => i \in DOMAIN c
  BY <1>5, <1>7, FirstFacts
<1>9. Collected = c
  BY DEF Collected, c, o, d, b
<1> HIDE DEF c
<1>10. DOMAIN o = 1 .. n /\ n \in Nat
  BY <1>5
<1> HIDE DEF n
<1>11. \A i \in DOMAIN c : i \in 1 .. n /\ order[i] \in DOMAIN d /\ c[i] = d[order[i]]
  BY <1>6, <1>8, <1>10
<1>12. \A i, j \in DOMAIN c : Key(c[i]) = Key(c[j]) => i = j
  BY <1>3, <1>6, <1>11
<1>13. \A i \in DOMAIN c : Sums(c[i], Returned)
  BY <1>3, <1>11
<1>14. ASSUME NEW r \in Returned, ~ \E i \in DOMAIN c : Key(c[i]) = Key(r)
       PROVE  LeftOut(c, r)
  <2>1. PICK i \in DOMAIN d : Key(d[i]) = Key(r)
    BY <1>3
  <2>2. PICK k \in 1 .. n : order[k] = i
    BY <1>6
  <2>3. ~ (k <= MaxCandidates)
    BY <1>6, <1>8, <1>10, <1>11, <1>14, <2>1, <2>2
  <2>4. Len(c) = MaxCandidates
    BY <1>7, <1>8, <1>10, <2>3
  <2>5. \A j \in DOMAIN c : c[j].cites >= d[i].cites
    <3> SUFFICES ASSUME NEW j \in DOMAIN c PROVE c[j].cites >= d[i].cites
      OBVIOUS
    <3>1. j \in 1 .. MaxCandidates
      <4>1. DOMAIN c = 1 .. Len(c)
        BY <1>8
      <4> QED BY <4>1, <2>4
    <3>2. j \in 1 .. n /\ j < k /\ c[j] = d[order[j]] /\ order[j] \in DOMAIN d
      BY <1>7, <1>10, <1>11, <2>3, <3>1
    <3>3. rank[order[j]] >= rank[order[k]]
      BY <1>6, <3>2
    <3> QED BY <1>4, <2>2, <3>2, <3>3
  <2>6. Super(Key(r)).cites = d[i].cites
    <3>1. d[i] \in Clean /\ Sums(d[i], Returned) /\ Returned \in SUBSET Clean
      BY <1>3, <1>4, ReturnedClean
    <3> QED BY <2>1, <3>1, SuperFacts
  <2> QED BY <1>14, <2>4, <2>5, <2>6 DEF LeftOut
<1>15. Len(c) <= MaxCandidates
  BY <1>7, <1>8, <1>10
<1> QED BY <1>8, <1>9, <1>12, <1>13, <1>14, <1>15 DEF PoolFacts
\* What the list shown to the user is: distinct candidates, no relevant one left out
\* but for others at least as relevant.
RankFacts(rk, p, sc) ==
  /\ Len(rk) <= TopCount
  /\ \E pick \in [1 .. Len(rk) -> DOMAIN p] :
       /\ rk = [k \in 1 .. Len(rk) |-> p[pick[k]]]
       /\ \A k, l \in 1 .. Len(rk) : pick[k] = pick[l] => k = l
       /\ \A i \in DOMAIN p :
            \/ \E k \in 1 .. Len(rk) : pick[k] = i
            \/ sc[i] < RelevanceFloor
            \/ /\ Len(rk) = TopCount
               /\ \A k \in 1 .. Len(rk) : sc[pick[k]] >= sc[i]

LEMMA ShownFacts ==
  ASSUME NEW n \in Nat, NEW shown \in SetToSeqs(1 .. n)
  PROVE  /\ shown \in [1 .. n -> 1 .. n]
         /\ \A k, l \in 1 .. n : shown[k] = shown[l] => k = l
         /\ \A i \in 1 .. n : \E k \in 1 .. n : shown[k] = i
<1> DEFINE D == 1 .. n
<1>1. IsFiniteSet(D) /\ Cardinality(D) = n
  BY FS_Interval
<1>2. shown \in [D -> D] /\ \A k, l \in D : shown[k] = shown[l] => k = l
  BY <1>1 DEF SetToSeqs
<1> HIDE DEF D
<1>3. shown \in Injection(D, D)
  BY <1>2 DEF Injection, IsInjective
<1>4. shown \in Surjection(D, D)
  BY <1>1, <1>3, FS_Injection
<1>5. \A i \in D : \E k \in D : shown[k] = i
  BY <1>4 DEF Surjection
<1> QED BY <1>2, <1>5 DEF D

\* Stratification, in whatever order the service lists the candidates.
LEMMA RerankFacts ==
  ASSUME NEW p \in Seq(Clean), NEW sc \in [DOMAIN p -> Scores], NEW shown \in SetToSeqs(DOMAIN p),
         NEW best, best = Stratify([k \in DOMAIN shown |-> [index |-> shown[k], score |-> sc[shown[k]]]])
  PROVE  RankFacts([k \in DOMAIN best |-> p[best[k].index]], p, sc)
<1> HIDE DEF Clean
<1> DEFINE n == Len(p)
           E == [index : 1 .. n, score : Nat]
           scored == [k \in DOMAIN shown |-> [index |-> shown[k], score |-> sc[shown[k]]]]
           relevant == {i \in DOMAIN scored : scored[i].score >= RelevanceFloor}
           rank == [i \in relevant |-> scored[i].score]
           o == Ordered(scored, relevant, rank)
           rk == [k \in DOMAIN best |-> p[best[k].index]]
<1>1. n \in Nat /\ DOMAIN p = 1 .. n
  OBVIOUS
<1>2. /\ shown \in [1 .. n -> 1 .. n]
      /\ \A k, l \in 1 .. n : shown[k] = shown[l] => k = l
      /\ \A i \in 1 .. n : \E k \in 1 .. n : shown[k] = i
  BY <1>1, ShownFacts
<1>3. /\ \A i \in 1 .. n : sc[i] \in Nat
      /\ RelevanceFloor \in Nat /\ TopCount \in Nat
  BY <1>1, DiscoveryAssumption
<1>4. best = First(TopCount, o)
  BY DEF Stratify
<1> HIDE DEF n
<1>5. /\ scored \in [1 .. n -> E] /\ DOMAIN scored = 1 .. n
      /\ \A k \in 1 .. n : scored[k].index = shown[k] /\ scored[k].score = sc[shown[k]]
  BY <1>2, <1>3
<1> HIDE DEF scored
<1>6. scored \in Seq(E)
  <2> HIDE DEF E
  <2> QED BY <1>1, <1>5
<1>7. /\ relevant \in SUBSET DOMAIN scored
      /\ rank \in [relevant -> Nat]
      /\ \A i \in relevant : i \in 1 .. n /\ rank[i] = sc[shown[i]]
      /\ \A i \in 1 .. n : i \in relevant \/ sc[shown[i]] < RelevanceFloor
  <2>1. \A k \in 1 .. n : scored[k].score \in Nat
    BY <1>2, <1>3, <1>5
  <2>2. relevant \in SUBSET DOMAIN scored
    OBVIOUS
  <2>3. rank \in [relevant -> Nat] /\ \A i \in relevant : rank[i] = scored[i].score
    BY <1>5, <2>1
  <2>4. \A i \in 1 .. n : i \in relevant \/ scored[i].score < RelevanceFloor
    BY <1>3, <1>5, <2>1
  <2>5. \A i \in relevant : i \in 1 .. n
    BY <1>5
  <2> HIDE DEF relevant, rank
  <2> QED BY <1>5, <2>2, <2>3, <2>4, <2>5
<1> HIDE DEF relevant, rank
<1>8. o \in Seq(E) /\ \E order : Lists(o, scored, relevant, rank, order)
  <2> HIDE DEF E
  <2> QED BY <1>6, <1>7, OrderedFacts
<1> DEFINE m == Len(o)
<1>9. PICK order :
           /\ order \in [1 .. m -> relevant]
           /\ \A k \in 1 .. m : o[k] = scored[order[k]]
           /\ \A k, l \in 1 .. m : order[k] = order[l] => k = l
           /\ \A i \in relevant : \E k \in 1 .. m : order[k] = i
           /\ \A k, l \in 1 .. m : k < l => rank[order[k]] >= rank[order[l]]
  BY <1>8 DEF Lists
<1> HIDE DEF o
<1>10. /\ best \in Seq(E)
       /\ Len(best) = IF m < TopCount THEN m ELSE TopCount
       /\ \A i \in DOMAIN best : i \in DOMAIN o /\ best[i] = o[i]
       /\ \A i \in DOMAIN o : i <= TopCount => i \in DOMAIN best
  <2> DEFINE c == First(TopCount, o)
  <2> HIDE DEF E
  <2>1. TopCount \in Nat /\ o \in Seq(E)
    BY <1>3, <1>8
  <2>2. /\ c \in Seq(E)
        /\ Len(c) = IF m < TopCount THEN m ELSE TopCount
        /\ \A i \in DOMAIN c : i \in DOMAIN o /\ c[i] = o[i]
        /\ \A i \in DOMAIN o : i <= TopCount => i \in DOMAIN c
    BY <2>1, FirstFacts
  <2>3. best = c
    BY <1>4
  <2> HIDE DEF c
  <2> QED BY <2>2, <2>3
<1> DEFINE b == Len(best)
           pick == [k \in 1 .. b |-> shown[order[k]]]
<1>11. DOMAIN o = 1 .. m /\ DOMAIN best = 1 .. b /\ m \in Nat /\ b \in Nat
  <2> HIDE DEF E
  <2> QED BY <1>8, <1>10
<1> HIDE DEF E, m, b
<1>12. /\ b = IF m < TopCount THEN m ELSE TopCount
       /\ \A k \in 1 .. b : k \in 1 .. m /\ best[k] = o[k]
       /\ \A k \in 1 .. m : k <= TopCount => k \in 1 .. b
  BY <1>10, <1>11 DEF m, b
<1>13. \A k \in 1 .. b : /\ order[k] \in relevant /\ order[k] \in 1 .. n
                         /\ best[k].index = shown[order[k]]
                         /\ rank[order[k]] = sc[shown[order[k]]]
  <2> SUFFICES ASSUME NEW k \in 1 .. b
               PROVE  /\ order[k] \in relevant /\ order[k] \in 1 .. n
                      /\ best[k].index = shown[order[k]]
                      /\ rank[order[k]] = sc[shown[order[k]]]
    OBVIOUS
  <2>1. k \in 1 .. m /\ best[k] = scored[order[k]]
    BY <1>9, <1>12
  <2>2. order[k] \in relevant
    BY <1>9, <2>1
  <2>3. order[k] \in 1 .. n /\ rank[order[k]] = sc[shown[order[k]]]
    BY <1>7, <2>2
  <2> QED BY <1>5, <2>1, <2>2, <2>3
<1>14. pick \in [1 .. b -> DOMAIN p] /\ \A k \in 1 .. b : pick[k] = best[k].index
  BY <1>1, <1>2, <1>13
<1>15. Len(rk) = b /\ rk = [k \in 1 .. b |-> p[pick[k]]]
  <2>1. rk = [k \in 1 .. b |-> p[pick[k]]]
    BY <1>11, <1>14
  <2>2. \A k \in 1 .. b : p[pick[k]] \in Clean
    BY <1>14
  <2> HIDE DEF rk, pick
  <2>3. rk \in Seq(Clean) /\ Len(rk) = b
    BY <1>11, <2>1, <2>2
  <2> QED BY <2>1, <2>3
<1>16. \A k, l \in 1 .. b : pick[k] = pick[l] => k = l
  <2> SUFFICES ASSUME NEW k \in 1 .. b, NEW l \in 1 .. b, pick[k] = pick[l] PROVE k = l
    OBVIOUS
  <2>1. order[k] = order[l]
    BY <1>2, <1>13, <1>14
  <2> QED BY <1>9, <1>12, <2>1
<1>17. ASSUME NEW i \in DOMAIN p
       PROVE  \/ \E k \in 1 .. b : pick[k] = i
              \/ sc[i] < RelevanceFloor
              \/ b = TopCount /\ \A k \in 1 .. b : sc[pick[k]] >= sc[i]
  <2>1. PICK j \in 1 .. n : shown[j] = i
    BY <1>1, <1>2
  <2>2. CASE j \notin relevant
    BY <1>7, <2>1, <2>2
  <2>3. CASE j \in relevant
    <3>1. PICK k \in 1 .. m : order[k] = j
      BY <1>9, <2>3
    <3>2. CASE k <= TopCount
      BY <1>12, <2>1, <3>1, <3>2
    <3>3. CASE ~ (k <= TopCount)
      <4>1. b = TopCount
        BY <1>3, <1>11, <1>12, <3>3
      <4>2. ASSUME NEW l \in 1 .. b PROVE sc[pick[l]] >= sc[i]
        <5>1. l \in 1 .. m /\ l < k
          BY <1>3, <1>11, <1>12, <3>3, <4>1
        <5>2. rank[order[l]] >= rank[order[k]]
          BY <1>9, <5>1
        <5>3. rank[order[k]] = sc[i]
          BY <1>7, <2>1, <2>3, <3>1
        <5>4. rank[order[l]] = sc[pick[l]]
          BY <1>13
        <5> QED BY <5>2, <5>3, <5>4
      <4> QED BY <4>1, <4>2
    <3> QED BY <3>2, <3>3
  <2> QED BY <2>2, <2>3
<1>18. b <= TopCount
  BY <1>3, <1>11, <1>12
<1> HIDE DEF rk, pick
<1>19. RankFacts(rk, p, sc)
  BY <1>14, <1>15, <1>16, <1>17, <1>18 DEF RankFacts
<1> QED BY <1>19 DEF rk

-----------------------------------------------------------------------------
(* A run.                                                                   *)

\* The history of a run, as far as it has come.
RunInv ==
  /\ stage \in {"asked", "search", "rank", "done", "rejected", "failed"}
  /\ terms \in {"none yet", "model", "words", "none"}
  /\ DOMAIN found \subseteq ToSet(Providers)
  /\ \A p \in DOMAIN found : found[p] \in Seq(Clean)
  /\ stage \in {"asked", "search", "rejected"} => pool = <<>>
  /\ stage # "done" => score = <<>> /\ ranked = <<>>
  /\ stage \in {"rank", "done", "failed"} => DOMAIN found = ToSet(Providers) /\ PoolFacts(pool)
  /\ stage = "done" => score \in [DOMAIN pool -> Scores] /\ RankFacts(ranked, pool, score)

LEMMA RunInitInv == DiscoveryInit => RunInv
<1> SUFFICES ASSUME DiscoveryInit PROVE RunInv
  OBVIOUS
<1> DEFINE e == <<>>
<1>1. DOMAIN e = {}
  OBVIOUS
<1>2. stage = "asked" /\ terms = "none yet" /\ found = e /\ pool = e /\ score = e /\ ranked = e
  BY DEF DiscoveryInit
<1>3. RunInv <=> /\ stage \in {"asked", "search", "rank", "done", "rejected", "failed"}
                 /\ terms \in {"none yet", "model", "words", "none"}
                 /\ DOMAIN found \subseteq ToSet(Providers)
                 /\ \A p \in DOMAIN found : found[p] \in Seq(Clean)
                 /\ stage \in {"asked", "search", "rejected"} => pool = e
                 /\ stage # "done" => score = e /\ ranked = e
                 /\ stage \in {"rank", "done", "failed"} => DOMAIN found = ToSet(Providers) /\ PoolFacts(pool)
                 /\ stage = "done" => score \in [DOMAIN pool -> Scores] /\ RankFacts(ranked, pool, score)
  BY DEF RunInv
<1> HIDE DEF e
<1> QED BY <1>1, <1>2, <1>3

\* An adapter leaves every DOI bare.
LEMMA CandidatesClean ==
  ASSUME NEW s \in Seq(Record)
  PROVE  Candidates(s) \in Seq(Clean)
<1> DEFINE t(i) == [s[i] EXCEPT !.doi = NormalizeDoi(@)]
<1>1. \A r \in Record : [r EXCEPT !.doi = NormalizeDoi(@)] \in Clean
  BY DEF Clean, Record, NormalizeDoi, Doi
<1>2. Len(s) \in Nat /\ DOMAIN s = 1 .. Len(s) /\ \A i \in 1 .. Len(s) : s[i] \in Record
  <2> HIDE DEF t
  <2> QED OBVIOUS
<1>3. \A i \in 1 .. Len(s) : t(i) \in Clean
  BY <1>1, <1>2
<1>4. Candidates(s) = [i \in 1 .. Len(s) |-> t(i)]
  BY <1>2 DEF Candidates
<1> HIDE DEF t, Clean
<1>5. Candidates(s) \in [1 .. Len(s) -> Clean]
  BY <1>3, <1>4
<1> QED BY <1>2, <1>5

\* The end of one search.
LEMMA GotInv ==
  ASSUME RunInv, stage = "search", UNCHANGED <<stage, terms, pool, score, ranked>>,
         NEW p \in ToSet(Providers), NEW s \in Seq(Clean), Got(p, s)
  PROVE  RunInv'
<1> HIDE DEF Clean
<1>1. DOMAIN found' = DOMAIN found \cup {p}
      /\ \A q \in DOMAIN found' : found'[q] = IF q = p THEN s ELSE found[q]
  BY DEF Got
<1>2. DOMAIN found' \subseteq ToSet(Providers) /\ \A q \in DOMAIN found' : found'[q] \in Seq(Clean)
  BY <1>1 DEF RunInv
<1> QED BY <1>2 DEF RunInv

LEMMA PoolKept ==
  ASSUME UNCHANGED <<found, pool>>, PoolFacts(pool)
  PROVE  PoolFacts(pool)'
<1>1. Returned' = Returned
  BY DEF Returned
<1>2. \A k : Super(k)' = Super(k)
  BY <1>1 DEF Super
<1> QED BY <1>1, <1>2 DEF PoolFacts, LeftOut

LEMMA SameInv == RunInv /\ UNCHANGED run => RunInv'
<1> SUFFICES ASSUME RunInv, UNCHANGED run PROVE RunInv'
  OBVIOUS
<1>1. UNCHANGED <<stage, terms, found, pool, score, ranked>>
  BY DEF run
<1>2. PoolFacts(pool) => PoolFacts(pool)'
  BY <1>1, PoolKept
<1> QED BY <1>1, <1>2 DEF RunInv

LEMMA RunStepInv == RunInv /\ [DiscoveryNext]_all => RunInv'
<1> SUFFICES ASSUME RunInv, [DiscoveryNext]_all PROVE RunInv'
  OBVIOUS
<1> HIDE DEF Clean
<1>0. <<>> \in Seq(Clean)
  OBVIOUS
<1>1. CASE Reject
  BY <1>1 DEF Reject, RunInv
<1>2. CASE Understand
  BY <1>2 DEF Understand, RunInv
<1>3. CASE SearchOurs
  <2>1. stage = "search" /\ UNCHANGED <<stage, terms, pool, score, ranked>> /\ Ours \in ToSet(Providers)
    BY <1>3, DiscoveryAssumption DEF SearchOurs
  <2>2. CASE Begin
    <3>1. UNCHANGED found \/ Got(Ours, <<>>)
      BY <2>2 DEF Begin
    <3>2. CASE UNCHANGED found
      BY <2>1, <3>2, SameInv DEF run
    <3> QED BY <1>0, <2>1, <3>1, <3>2, GotInv
  <2>3. ASSUME NEW records \in Returns[Ours], Got(Ours, Candidates(records)) PROVE RunInv'
    <3>1. Candidates(records) \in Seq(Clean)
      BY <2>1, CandidatesClean, DiscoveryAssumption
    <3> QED BY <2>1, <2>3, <3>1, GotInv
  <2>4. CASE Got(Ours, <<>>)
    BY <1>0, <2>1, <2>4, GotInv
  <2> QED BY <1>3, <2>2, <2>3, <2>4 DEF SearchOurs
<1>4. ASSUME NEW p \in Others, SearchOther(p) PROVE RunInv'
  <2>1. stage = "search" /\ UNCHANGED <<stage, terms, pool, score, ranked>> /\ p \in ToSet(Providers)
    BY <1>4 DEF SearchOther, Others
  <2>2. PICK records \in Returns[p] \cup {<<>>} : Got(p, Candidates(records))
    BY <1>4 DEF SearchOther
  <2>3. records \in Seq(Record)
    <3>1. <<>> \in Seq(Record)
      OBVIOUS
    <3> QED BY <2>1, <2>2, <3>1, DiscoveryAssumption
  <2>4. Candidates(records) \in Seq(Clean)
    BY <2>3, CandidatesClean
  <2> QED BY <2>1, <2>2, <2>4, GotInv
<1>5. CASE Collect
  <2>1. /\ stage = "search" /\ stage' = "rank" /\ UNCHANGED <<terms, found, score, ranked>>
        /\ ToSet(Providers) = DOMAIN found
        /\ pool' = Collected
    BY <1>5 DEF Collect
  <2>2. PoolFacts(pool')
    BY <2>1, CollectedFacts DEF RunInv
  <2>3. PoolFacts(pool)'
    <3>1. Returned' = Returned
      BY <2>1 DEF Returned
    <3>2. \A k : Super(k)' = Super(k)
      BY <3>1 DEF Super
    <3> QED BY <2>2, <3>1, <3>2 DEF PoolFacts, LeftOut
  <2> QED BY <2>1, <2>3 DEF RunInv
<1>6. CASE Rerank
  <2>1. /\ stage = "rank" /\ stage' = "done" /\ UNCHANGED <<terms, found, pool>>
        /\ score' \in [DOMAIN pool -> Scores]
    BY <1>6 DEF Rerank
  <2>2. PICK shown \in SetToSeqs(DOMAIN pool) :
          LET best == Stratify([k \in DOMAIN shown |-> [index |-> shown[k], score |-> score'[shown[k]]]])
          IN  ranked' = [k \in DOMAIN best |-> pool[best[k].index]]
    BY <1>6 DEF Rerank
  <2> DEFINE best == Stratify([k \in DOMAIN shown |-> [index |-> shown[k], score |-> score'[shown[k]]]])
  <2>3. ranked' = [k \in DOMAIN best |-> pool[best[k].index]]
    BY <2>2
  <2>4. pool \in Seq(Clean) /\ PoolFacts(pool)
    BY <2>1 DEF RunInv, PoolFacts
  <2>5. RankFacts([k \in DOMAIN best |-> pool[best[k].index]], pool, score')
    BY <2>1, <2>4, RerankFacts
  <2>6. RankFacts(ranked', pool, score')
    BY <2>3, <2>5
  <2>7. PoolFacts(pool)'
    BY <2>1, <2>4, PoolKept
  <2>8. RankFacts(ranked, pool, score)'
    BY <2>1, <2>6
  <2> QED BY <2>1, <2>7, <2>8 DEF RunInv
<1>7. CASE RerankFails
  <2>1. /\ stage = "rank" /\ stage' = "failed" /\ UNCHANGED <<terms, found, pool, score, ranked>>
    BY <1>7 DEF RerankFails
  <2>2. PoolFacts(pool)'
    BY <2>1, PoolKept DEF RunInv
  <2> QED BY <2>1, <2>2 DEF RunInv
<1>8. CASE Elsewhere
  BY <1>8, SameInv DEF Elsewhere
<1>9. CASE UNCHANGED all
  BY <1>9, SameInv DEF all
<1> QED BY <1>1, <1>2, <1>3, <1>4, <1>5, <1>6, <1>7, <1>8, <1>9 DEF DiscoveryNext, RunNext

\* A run is what RunInv says of it, in every state.
THEOREM RunSound == DiscoverySpec => []RunInv
<1> QED BY RunInitInv, RunStepInv, PTL DEF DiscoverySpec

LEMMA RunDoiOnce == RunInv => DoiOnce
<1> SUFFICES ASSUME RunInv, NEW i \in DOMAIN ranked, NEW j \in DOMAIN ranked,
                    ranked[i].doi.name = ranked[j].doi.name, ranked[i].doi # NoDoi
             PROVE  i = j
  BY DEF DoiOnce
<1>1. stage = "done"
  <2> DEFINE e == <<>>
  <2>1. DOMAIN e = {}
    OBVIOUS
  <2> HIDE DEF e
  <2>2. stage # "done" => ranked = e
    BY DEF RunInv, e
  <2> QED BY <2>1, <2>2
<1>2. PoolFacts(pool) /\ RankFacts(ranked, pool, score)
  BY <1>1 DEF RunInv
<1>3. PICK pick \in [1 .. Len(ranked) -> DOMAIN pool] :
        /\ ranked = [k \in 1 .. Len(ranked) |-> pool[pick[k]]]
        /\ \A k, l \in 1 .. Len(ranked) : pick[k] = pick[l] => k = l
  BY <1>2 DEF RankFacts
<1> DEFINE n == Len(ranked)
<1> HIDE DEF n
<1>4. DOMAIN ranked = 1 .. n /\ \A k \in 1 .. n : ranked[k] = pool[pick[k]] /\ pick[k] \in DOMAIN pool
  BY <1>3 DEF n
<1>5. \A k \in DOMAIN pool : pool[k] \in Clean
  <2> HIDE DEF Clean
  <2> QED BY <1>2 DEF PoolFacts
<1>6. \A r \in Clean : r.doi = [name |-> r.doi.name, form |-> "bare"] /\ NormalizeDoi(r.doi) = r.doi
  BY DEF Clean, Record, Doi, NormalizeDoi
<1>7. ranked[i].doi = ranked[j].doi /\ NormalizeDoi(ranked[i].doi) = ranked[i].doi
  BY <1>4, <1>5, <1>6
<1>8. Key(ranked[i]) = Key(ranked[j])
  BY <1>7 DEF Key
<1>9. pick[i] = pick[j]
  BY <1>2, <1>4, <1>8 DEF PoolFacts
<1> QED BY <1>3, <1>4, <1>9 DEF n

LEMMA RunRepresented == RunInv => Represented
<1> SUFFICES ASSUME RunInv, stage \in {"rank", "done"}, NEW r \in Returned
             PROVE
    \/ /\ Len(pool) = MaxCandidates
       /\ \A c \in ToSet(pool) : Key(c) # Key(r) /\ c.cites >= Super(Key(r)).cites
    \/ \E i \in DOMAIN pool :
         /\ Key(pool[i]) = Key(r)
         /\ [f \in {"length", "cites", "providers"} |-> pool[i][f]] = Super(Key(r))
         /\ \/ stage = "rank" \/ pool[i] \in ToSet(ranked) \/ score[i] < RelevanceFloor
            \/ /\ Len(ranked) = TopCount
               /\ \A j \in DOMAIN pool : pool[j] \in ToSet(ranked) => score[j] >= score[i]
  BY DEF Represented
<1> HIDE DEF Clean
<1>1. PoolFacts(pool) /\ \A p \in ToSet(Providers) : found[p] \in Seq(Clean)
  BY DEF RunInv
<1>2. Returned \in SUBSET Clean
  BY <1>1, ReturnedClean
<1>3. CASE LeftOut(pool, r)
  BY <1>3 DEF LeftOut, ToSet
<1>4. CASE \E i \in DOMAIN pool : Key(pool[i]) = Key(r)
  <2>1. PICK i \in DOMAIN pool : Key(pool[i]) = Key(r)
    BY <1>4
  <2>2. pool[i] \in Clean /\ Sums(pool[i], Returned)
    BY <1>1 DEF PoolFacts
  <2>3. [f \in {"length", "cites", "providers"} |-> pool[i][f]] = Super(Key(r))
    BY <1>2, <2>1, <2>2, SuperFacts
  <2>4. \/ stage = "rank" \/ pool[i] \in ToSet(ranked) \/ score[i] < RelevanceFloor
        \/ /\ Len(ranked) = TopCount
           /\ \A j \in DOMAIN pool : pool[j] \in ToSet(ranked) => score[j] >= score[i]
    <3> SUFFICES ASSUME stage = "done", pool[i] \notin ToSet(ranked), ~ (score[i] < RelevanceFloor)
                 PROVE  /\ Len(ranked) = TopCount
                        /\ \A j \in DOMAIN pool : pool[j] \in ToSet(ranked) => score[j] >= score[i]
      OBVIOUS
    <3>1. RankFacts(ranked, pool, score)
      BY DEF RunInv
    <3> DEFINE n == Len(ranked)
    <3>2. PICK pick \in [1 .. n -> DOMAIN pool] :
            /\ ranked = [k \in 1 .. n |-> pool[pick[k]]]
            /\ \A m \in DOMAIN pool :
                 \/ \E k \in 1 .. n : pick[k] = m
                 \/ score[m] < RelevanceFloor
                 \/ n = TopCount /\ \A k \in 1 .. n : score[pick[k]] >= score[m]
      BY <3>1 DEF RankFacts
    <3> HIDE DEF n
    <3>3. ToSet(ranked) = {pool[pick[k]] : k \in 1 .. n}
      BY <3>2 DEF ToSet
    <3>4. n = TopCount /\ \A k \in 1 .. n : score[pick[k]] >= score[i]
      BY <3>2, <3>3
    <3>5. ASSUME NEW j \in DOMAIN pool, pool[j] \in ToSet(ranked) PROVE score[j] >= score[i]
      <4>1. PICK k \in 1 .. n : pool[pick[k]] = pool[j]
        BY <3>3, <3>5
      <4>2. pick[k] = j
        BY <1>1, <3>2, <4>1 DEF PoolFacts
      <4> QED BY <3>4, <4>2
    <3> QED BY <3>4, <3>5 DEF n
  <2> QED BY <2>1, <2>3, <2>4
<1> QED BY <1>1, <1>3, <1>4 DEF PoolFacts

LEMMA RunTypes == TypeOK /\ RunInv => DiscoveryTypeOK
<1> SUFFICES ASSUME TypeOK, RunInv PROVE DiscoveryTypeOK
  OBVIOUS
<1> HIDE DEF Clean
<1>0. MaxCandidates \in Nat /\ TopCount \in Nat
  BY DiscoveryAssumption
<1>1. Len(pool) <= MaxCandidates
  <2>1. CASE pool = <<>>
    BY <1>0, <2>1
  <2>2. CASE PoolFacts(pool)
    BY <2>2 DEF PoolFacts
  <2> QED BY <2>1, <2>2 DEF RunInv
<1>2. score = <<>> \/ score \in [DOMAIN pool -> Scores]
  BY DEF RunInv
<1>3. Len(ranked) <= TopCount /\ ToSet(ranked) \subseteq ToSet(pool)
  <2>1. CASE ranked = <<>>
    <3>1. ToSet(ranked) = {}
      BY <2>1 DEF ToSet
    <3> QED BY <1>0, <2>1, <3>1
  <2>2. CASE RankFacts(ranked, pool, score)
    <3> DEFINE n == Len(ranked)
    <3>1. n <= TopCount
      BY <2>2 DEF RankFacts
    <3>2. PICK pick \in [1 .. n -> DOMAIN pool] : ranked = [k \in 1 .. n |-> pool[pick[k]]]
      BY <2>2 DEF RankFacts
    <3> HIDE DEF n
    <3>3. ToSet(ranked) \subseteq ToSet(pool)
      BY <3>2 DEF ToSet
    <3> QED BY <3>1, <3>3 DEF n
  <2> QED BY <2>1, <2>2 DEF RunInv
<1> QED BY <1>1, <1>2, <1>3 DEF DiscoveryTypeOK, RunInv

\* No paper with a DOI is read twice, whatever the providers return and however they
\* write the DOI.
THEOREM DoiOnceCorrect == DiscoverySpec => []DoiOnce
  BY RunSound, RunDoiOnce, PTL

\* Every key, a DOI or else a title and author, that was found is that of a candidate
\* with the best that is known under it, unless the pool is full of others cited as
\* much, and is read unless it is not relevant or enough others are as relevant: for
\* any providers, records, scores and bounds.
THEOREM RepresentedCorrect == DiscoverySpec => []Represented
  BY RunSound, RunRepresented, PTL

\* The breaker's state and the run's stay in their ranges, and what is read was a
\* candidate.
THEOREM DiscoveryTypeCorrect == DiscoverySpec => []DiscoveryTypeOK
<1>1. DiscoveryInit => BreakerInv  BY InitInv DEF DiscoveryInit
<1>2. BreakerInv /\ [DiscoveryNext]_all => BreakerInv'  BY RunStep, StepInv
<1>3. BreakerInv /\ RunInv => DiscoveryTypeOK  BY RunTypes DEF BreakerInv
<1> QED BY <1>1, <1>2, <1>3, RunSound, PTL DEF DiscoverySpec
=============================================================================
