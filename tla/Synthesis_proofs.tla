-------------------------- MODULE Synthesis_proofs --------------------------
(***************************************************************************)
(* Proofs about Synthesis and CitationWeaving, for any findings, bounds    *)
(* and texts, whatever the clusterer, the model and the writer do.         *)
(*                                                                         *)
(* What the brief claims of the findings has a judgement of the model      *)
(* behind it; every sentence of it leads to a claim of the graph; and its  *)
(* numbers are the right ones.                                             *)
(*                                                                         *)
(* What the filter and the weaver do to a text is recursive.  The facts    *)
(* about it are proved by induction on sequences, stated of the set of     *)
(* the sequences that are as they should be.                               *)
(***************************************************************************)
EXTENDS Synthesis, SequenceTheorems, FiniteSetTheorems, WellFoundedInduction, TLAPS

-----------------------------------------------------------------------------
(* Induction, and functions defined by recursion.                            *)

\* A set of numbers has a least one: otherwise the segments 0 .. n of its members,
\* which are finite, would descend for ever.
LEMMA Least ==
  ASSUME NEW S \in SUBSET Nat, S # {}
  PROVE  \E m \in S : \A n \in S : m <= n
<1> DEFINE T == {0 .. n : n \in S}
           R == StrictSubsetOrdering(Nat)
<1>1. \A X \in T : X \in FiniteSubsetsOf(Nat)
  <2> SUFFICES ASSUME NEW n \in S PROVE 0 .. n \in FiniteSubsetsOf(Nat)
    OBVIOUS
  <2>1. IsFiniteSet(0 .. n)
    BY FS_Interval
  <2> QED BY <2>1 DEF FiniteSubsetsOf
<1>2. IsWellFoundedOn(R, FiniteSubsetsOf(Nat))
  BY FS_StrictSubsetOrderingWellFounded
<1>3. PICK X \in T : \A Y \in T : ~ (<<Y, X>> \in R)
  <2>1. T # {}
    OBVIOUS
  <2> HIDE DEF T, R
  <2> QED BY <1>1, <1>2, <2>1, WFMin
<1>4. PICK m \in S : X = 0 .. m
  OBVIOUS
<1>5. ASSUME NEW n \in S, n < m PROVE FALSE
  <2>1. 0 .. n \subseteq 0 .. m /\ m \in 0 .. m /\ m \notin 0 .. n
    BY <1>5
  <2>2. <<0 .. n, 0 .. m>> \in R
    BY <2>1 DEF StrictSubsetOrdering
  <2> QED BY <1>3, <1>4, <2>2
<1> QED BY <1>5

\* Induction, as a statement about sets: the prover cannot instantiate predicates.
LEMMA Induction ==
  ASSUME NEW S, 0 \in S, \A n \in Nat : n \in S => n + 1 \in S
  PROVE  Nat \subseteq S
<1> SUFFICES ASSUME Nat \ S # {} PROVE FALSE
  OBVIOUS
<1>1. PICK m \in Nat \ S : \A n \in Nat \ S : m <= n
  BY Least
<1>2. m # 0 /\ m - 1 \in Nat
  BY <1>1
<1>3. m - 1 \in S
  BY <1>1, <1>2
<1> QED BY <1>1, <1>2, <1>3

\* g starts at a and goes on by the functions step[1], step[2], ...
Chain(g, a, n, step) == g[0] = a /\ \A i \in 1 .. n : g[i] = step[i][g[i - 1]]

LEMMA ChainExists ==
  ASSUME NEW A, NEW a \in A, NEW n \in Nat, NEW step \in [1 .. n -> [A -> A]]
  PROVE  \E g \in [0 .. n -> A] : Chain(g, a, n, step)
<1> DEFINE Good(k, g) == g[0] = a /\ \A i \in 1 .. k : g[i] = step[i][g[i - 1]]
           S == {k \in Nat : k <= n => \E g \in [0 .. k -> A] : Good(k, g)}
<1>1. \E g \in [0 .. 0 -> A] : Good(0, g)
  <2> DEFINE g == [i \in 0 .. 0 |-> a]
  <2>1. g \in [0 .. 0 -> A] /\ g[0] = a /\ 1 .. 0 = {}
    OBVIOUS
  <2> QED BY <2>1
<1>2. ASSUME NEW k \in Nat, k + 1 <= n, NEW g \in [0 .. k -> A], Good(k, g)
      PROVE  \E h \in [0 .. k + 1 -> A] : Good(k + 1, h)
  <2> DEFINE y == step[k + 1][g[k]]
             h == [i \in 0 .. k + 1 |-> IF i = k + 1 THEN y ELSE g[i]]
  <2>1. k + 1 \in 1 .. n /\ k \in 0 .. k /\ y \in A
    BY <1>2
  <2>2. h \in [0 .. k + 1 -> A] /\ h[k + 1] = step[k + 1][g[k]] /\ \A i \in 0 .. k : h[i] = g[i]
    <3> HIDE DEF y
    <3>1. h \in [0 .. k + 1 -> A] /\ h[k + 1] = y /\ \A i \in 0 .. k : h[i] = g[i]
      BY <2>1
    <3> HIDE DEF h
    <3> QED BY <3>1 DEF y
  <2> HIDE DEF h
  <2>3. Good(k + 1, h)
    <3>1. h[0] = a
      BY <1>2, <2>2
    <3>2. ASSUME NEW i \in 1 .. k + 1 PROVE h[i] = step[i][h[i - 1]]
      <4>1. i - 1 \in 0 .. k /\ (i = k + 1 \/ (i \in 1 .. k /\ i \in 0 .. k)) /\ (i = k + 1 => i - 1 = k)
        OBVIOUS
      <4> QED BY <4>1, <1>2, <2>2
    <3> QED BY <3>1, <3>2
  <2> QED BY <2>2, <2>3
<1> HIDE DEF Good
<1>3. 0 \in S /\ \A k \in Nat : k \in S => k + 1 \in S
  <2>1. \A k \in Nat : k + 1 <= n => k <= n
    OBVIOUS
  <2> QED BY <1>1, <1>2, <2>1
<1>4. n \in S
  <2> HIDE DEF S
  <2> QED BY <1>3, Induction
<1> QED BY <1>4 DEF Good, Chain

\* Two functions that start alike and go on alike agree.
LEMMA ChainUnique ==
  ASSUME NEW n \in Nat, NEW f, NEW g, f[0] = g[0],
         \A i \in 1 .. n : f[i - 1] = g[i - 1] => f[i] = g[i]
  PROVE  f[n] = g[n]
<1> DEFINE S == {i \in Nat : i <= n => f[i] = g[i]}
<1>1. 0 \in S /\ \A i \in Nat : i \in S => i + 1 \in S
  <2>1. \A i \in Nat : i + 1 <= n => i + 1 \in 1 .. n /\ i <= n /\ (i + 1) - 1 = i
    OBVIOUS
  <2> QED BY <2>1
<1>2. n \in S
  <2> HIDE DEF S
  <2> QED BY <1>1, Induction
<1> QED BY <1>2

\* Induction on sequences, from the front to the end.
LEMMA SeqInduction ==
  ASSUME NEW T, NEW G, <<>> \in G,
         \A s \in Seq(T) : s \in G => \A x \in T : Append(s, x) \in G
  PROVE  Seq(T) \subseteq G
<1> DEFINE S == {n \in Nat : \A s \in Seq(T) : Len(s) = n => s \in G}
<1>1. 0 \in S
  OBVIOUS
<1>2. ASSUME NEW n \in Nat, n \in S PROVE n + 1 \in S
  <2> SUFFICES ASSUME NEW s \in Seq(T), Len(s) = n + 1 PROVE s \in G
    OBVIOUS
  <2> DEFINE t == SubSeq(s, 1, n)
  <2>1. t \in Seq(T) /\ Len(t) = n /\ s[n + 1] \in T /\ s = Append(t, s[n + 1])
    OBVIOUS
  <2> HIDE DEF t
  <2> QED BY <1>2, <2>1
<1>3. Nat \subseteq S
  <2> HIDE DEF S
  <2> QED BY <1>1, <1>2, Induction
<1> QED BY <1>3

-----------------------------------------------------------------------------
(* The operators of CitationWeaving.                                         *)

\* The function that Select defines exists, and Select is its last value.
LEMMA SelectRec ==
  ASSUME NEW T, NEW s \in Seq(T), NEW S
  PROVE  \E f : /\ f[0] = <<>>
                /\ \A n \in 1 .. Len(s) :
                     f[n] = IF s[n] \in S THEN Append(f[n - 1], s[n]) ELSE f[n - 1]
                /\ Select(s, S) = f[Len(s)]
<1> DEFINE A == Seq(T)
           m == Len(s)
           e == <<>>
           Next(x, n) == IF s[n] \in S THEN Append(x, s[n]) ELSE x
           Good(f) == f = [n \in 0 .. m |-> IF n = 0 THEN e ELSE Next(f[n - 1], n)]
           F == CHOOSE f : Good(f)
           step == [n \in 1 .. m |-> [x \in A |-> Next(x, n)]]
<1>1. m \in Nat /\ e \in A /\ \A n \in 1 .. m : \A x \in A : Next(x, n) \in A
  OBVIOUS
<1>2. Select(s, S) = F[Len(s)]
  BY DEF Select
<1> HIDE DEF Next, A, m, e
<1>3. PICK g \in [0 .. m -> A] : Chain(g, e, m, step)
  <2>1. step \in [1 .. m -> [A -> A]]
    BY <1>1
  <2>2. m \in Nat /\ e \in A
    BY <1>1
  <2> HIDE DEF step, Good, F
  <2> QED BY <2>1, <2>2, ChainExists
<1>4. \A i \in 1 .. m : g[i - 1] \in A /\ g[i] = Next(g[i - 1], i)
  <2>1. \A i \in 1 .. m : i - 1 \in 0 .. m
    BY <1>1
  <2> QED BY <1>3, <2>1 DEF Chain
<1>5. Good(g)
  <2>1. \A i \in 0 .. m : g[i] = IF i = 0 THEN e ELSE Next(g[i - 1], i)
    BY <1>1, <1>3, <1>4 DEF Chain
  <2> QED BY <2>1
<1>6. Good(F)
  <2> HIDE DEF Good
  <2> QED BY <1>5
<1> HIDE DEF F
<1>7. F[0] = e /\ \A n \in 1 .. m : F[n] = Next(F[n - 1], n)
  BY <1>1, <1>6
<1> QED BY <1>2, <1>7 DEF Next, m, e

LEMMA SelectEmpty == \A S : Select(<<>>, S) = <<>>
<1> SUFFICES ASSUME NEW S PROVE Select(<<>>, S) = <<>>
  OBVIOUS
<1> DEFINE e == <<>>
<1>1. e \in Seq({}) /\ Len(e) = 0
  OBVIOUS
<1>2. Select(e, S) = <<>>
  <2> DEFINE E == {}
  <2>1. e \in Seq(E)
    BY <1>1
  <2> HIDE DEF e, E
  <2>2. PICK f : f[0] = <<>> /\ Select(e, S) = f[Len(e)]
    BY <2>1, SelectRec
  <2> QED BY <1>1, <2>2
<1> QED BY <1>2

LEMMA SelectAppend ==
  ASSUME NEW T, NEW s \in Seq(T), NEW x \in T, NEW S
  PROVE  Select(Append(s, x), S) = IF x \in S THEN Append(Select(s, S), x) ELSE Select(s, S)
<1> DEFINE t == Append(s, x)
           n == Len(s)
<1>1. t \in Seq(T) /\ Len(t) = n + 1 /\ n \in Nat /\ t[n + 1] = x
      /\ \A i \in 1 .. n : t[i] = s[i]
  OBVIOUS
<1>2. PICK f : /\ f[0] = <<>>
               /\ \A i \in 1 .. Len(s) :
                     f[i] = IF s[i] \in S THEN Append(f[i - 1], s[i]) ELSE f[i - 1]
               /\ Select(s, S) = f[Len(s)]
  BY SelectRec
<1> HIDE DEF t
<1>3. PICK g : /\ g[0] = <<>>
               /\ \A i \in 1 .. Len(t) :
                     g[i] = IF t[i] \in S THEN Append(g[i - 1], t[i]) ELSE g[i - 1]
               /\ Select(t, S) = g[Len(t)]
  BY <1>1, SelectRec
<1> HIDE DEF n
<1>4. f[n] = g[n]
  <2>1. \A i \in 1 .. n : f[i - 1] = g[i - 1] => f[i] = g[i]
    <3> SUFFICES ASSUME NEW i \in 1 .. n, f[i - 1] = g[i - 1] PROVE f[i] = g[i]
      OBVIOUS
    <3>1. i \in 1 .. Len(t) /\ i \in 1 .. Len(s)
      BY <1>1 DEF n
    <3> QED BY <1>1, <1>2, <1>3, <3>1
  <2> QED BY <1>1, <1>2, <1>3, <2>1, ChainUnique
<1>5. g[n + 1] = IF x \in S THEN Append(g[n], x) ELSE g[n]
  <2>1. n + 1 \in 1 .. Len(t) /\ (n + 1) - 1 = n
    BY <1>1
  <2> QED BY <1>1, <1>3, <2>1
<1> QED BY <1>1, <1>2, <1>3, <1>4, <1>5 DEF t, n

LEMMA ToSetAppend ==
  ASSUME NEW T, NEW s \in Seq(T), NEW x \in T
  PROVE  ToSet(Append(s, x)) = ToSet(s) \cup {x}
<1> DEFINE t == Append(s, x)
           n == Len(s)
<1>1. n \in Nat /\ DOMAIN s = 1 .. n /\ DOMAIN t = 1 .. n + 1 /\ t[n + 1] = x
      /\ \A i \in 1 .. n : t[i] = s[i]
  BY AppendProperties
<1> HIDE DEF t, n
<1>2. 1 .. n + 1 = (1 .. n) \cup {n + 1}
  BY <1>1
<1>3. ToSet(t) = ToSet(s) \cup {x}
  BY <1>1, <1>2 DEF ToSet
<1> QED BY <1>3 DEF t

\* Select keeps what is in the set and nothing else.
LEMMA SelectFacts ==
  ASSUME NEW T, NEW s \in Seq(T), NEW S
  PROVE  /\ Select(s, S) \in Seq(T)
         /\ Len(Select(s, S)) <= Len(s)
         /\ ToSet(Select(s, S)) = ToSet(s) \cap S
<1> DEFINE G == {t \in Seq(T) : /\ Select(t, S) \in Seq(T)
                                /\ Len(Select(t, S)) <= Len(t)
                                /\ ToSet(Select(t, S)) = ToSet(t) \cap S}
<1>1. <<>> \in G
  <2>1. Select(<<>>, S) = <<>>
    BY SelectEmpty
  <2> DEFINE e == <<>>
  <2>2. e \in Seq(T) /\ Len(e) = 0 /\ ToSet(e) = {}
    BY DEF ToSet
  <2>3. Select(e, S) = e
    BY <2>1
  <2> HIDE DEF e
  <2>5. /\ Select(e, S) \in Seq(T) /\ Len(Select(e, S)) <= Len(e)
        /\ ToSet(Select(e, S)) = ToSet(e) \cap S
    BY <2>2, <2>3
  <2>4. e \in G
    BY <2>2, <2>5
  <2> QED BY <2>4 DEF e
<1>2. ASSUME NEW t \in Seq(T), t \in G, NEW x \in T
      PROVE  Append(t, x) \in G
  <2>1. /\ Select(t, S) \in Seq(T) /\ Len(Select(t, S)) <= Len(t)
        /\ ToSet(Select(t, S)) = ToSet(t) \cap S
    BY <1>2
  <2>2. Select(Append(t, x), S) = IF x \in S THEN Append(Select(t, S), x) ELSE Select(t, S)
    BY SelectAppend
  <2>3. Append(t, x) \in Seq(T) /\ Len(Append(t, x)) = Len(t) + 1
    BY AppendProperties
  <2>4. ToSet(Append(t, x)) = ToSet(t) \cup {x}
    BY ToSetAppend
  <2>5. CASE x \in S
    <3> DEFINE u == Select(t, S)
    <3>1. ToSet(Append(u, x)) = ToSet(u) \cup {x} /\ Append(u, x) \in Seq(T) /\ Len(Append(u, x)) = Len(u) + 1
      <4>1. u \in Seq(T)
        BY <2>1
      <4> HIDE DEF u
      <4> QED BY <4>1, ToSetAppend, AppendProperties
    <3>2. Len(u) \in Nat /\ Len(t) \in Nat
      BY <2>1
    <3>3. Select(Append(t, x), S) = Append(u, x)
      BY <2>2, <2>5
    <3>4. Len(Append(u, x)) <= Len(Append(t, x))
      BY <2>1, <2>3, <3>1, <3>2
    <3>5. ToSet(Append(u, x)) = ToSet(Append(t, x)) \cap S
      BY <2>1, <2>4, <2>5, <3>1
    <3> HIDE DEF u
    <3> QED BY <2>3, <3>1, <3>3, <3>4, <3>5
  <2>6. CASE x \notin S
    <3>1. Len(Select(t, S)) \in Nat /\ Len(t) \in Nat /\ Select(Append(t, x), S) = Select(t, S)
      BY <2>1, <2>2, <2>6
    <3> QED BY <2>1, <2>3, <2>4, <2>6, <3>1
  <2> QED BY <2>5, <2>6
<1>3. Seq(T) \subseteq G
  <2> HIDE DEF G
  <2> QED BY <1>1, <1>2, SeqInduction
<1> QED BY <1>3

LEMMA ConcatAppend ==
  ASSUME NEW T, NEW s \in Seq(T), NEW t \in Seq(T), NEW x \in T
  PROVE  s \o Append(t, x) = Append(s \o t, x)
  OBVIOUS

LEMMA SelectConcat ==
  ASSUME NEW T, NEW s \in Seq(T), NEW t \in Seq(T), NEW S
  PROVE  Select(s \o t, S) = Select(s, S) \o Select(t, S)
<1> DEFINE G == {u \in Seq(T) : Select(s \o u, S) = Select(s, S) \o Select(u, S)}
<1>0. Select(s, S) \in Seq(T)
  BY SelectFacts
<1>1. <<>> \in G
  <2> DEFINE e == <<>>
  <2>1. e \in Seq(T) /\ Select(e, S) = e /\ s \o e = s /\ Select(s, S) \o e = Select(s, S)
    BY <1>0, SelectEmpty
  <2> HIDE DEF e
  <2>2. e \in G
    BY <2>1
  <2> QED BY <2>2 DEF e
<1>2. ASSUME NEW u \in Seq(T), u \in G, NEW x \in T
      PROVE  Append(u, x) \in G
  <2>1. s \o u \in Seq(T) /\ s \o Append(u, x) = Append(s \o u, x) /\ Append(u, x) \in Seq(T)
    OBVIOUS
  <2>2. Select(Append(u, x), S) = IF x \in S THEN Append(Select(u, S), x) ELSE Select(u, S)
    BY SelectAppend
  <2>3. Select(Append(s \o u, x), S) = IF x \in S THEN Append(Select(s \o u, S), x) ELSE Select(s \o u, S)
    BY <2>1, SelectAppend
  <2>4. Select(u, S) \in Seq(T) /\ Select(s \o u, S) = Select(s, S) \o Select(u, S)
    BY <1>2, SelectFacts
  <2>5. Append(Select(s, S) \o Select(u, S), x) = Select(s, S) \o Append(Select(u, S), x)
    <3> DEFINE v == Select(s, S)
               w == Select(u, S)
    <3>1. v \in Seq(T) /\ w \in Seq(T)
      BY <1>0, <2>4
    <3> HIDE DEF v, w
    <3>2. \A p, q \in Seq(T) : \A y \in T : q \o Append(p, y) = Append(q \o p, y)
      BY ConcatAppend
    <3> QED BY <3>1, <3>2 DEF v, w
  <2> QED BY <2>1, <2>2, <2>3, <2>4, <2>5
<1>3. Seq(T) \subseteq G
  <2> HIDE DEF G
  <2> QED BY <1>1, <1>2, SeqInduction
<1> QED BY <1>3

\* The number of an entry leads back to it.
LEMMA NumberFacts ==
  ASSUME NEW T, NEW order \in Seq(T), NEW id
  PROVE  /\ Number(order, id) \in 0 .. Len(order)
         /\ id \in ToSet(order) =>
              Number(order, id) \in DOMAIN order /\ order[Number(order, id)] = id
<1> DEFINE I == {i \in 1 .. Len(order) : order[i] = id}
<1>1. Number(order, id) = IF I # {} THEN Min(I) ELSE 0
  BY DEF Number, SelectInSeq
<1>2. I # {} => Min(I) \in I
  <2>1. ASSUME I # {} PROVE \E m \in I : \A n \in I : m <= n
    <3>1. I \subseteq Nat
      OBVIOUS
    <3> HIDE DEF I
    <3> QED BY <2>1, <3>1, Least
  <2> HIDE DEF I
  <2> QED BY <2>1 DEF Min
<1>3. id \in ToSet(order) <=> I # {}
  BY DEF ToSet
<1> QED BY <1>1, <1>2, <1>3

\* The same for Bibliography ...
LEMMA BibliographyRec ==
  ASSUME NEW T, NEW tags \in Seq(T)
  PROVE  \E f : /\ f[0] = <<>>
                /\ \A n \in 1 .. Len(tags) : f[n] = Assign(f[n - 1], tags[n])
                /\ Bibliography(tags) = f[Len(tags)]
<1> DEFINE A == Seq(T)
           m == Len(tags)
           e == <<>>
           Next(x, n) == Assign(x, tags[n])
           Good(f) == f = [n \in 0 .. m |-> IF n = 0 THEN e ELSE Next(f[n - 1], n)]
           F == CHOOSE f : Good(f)
           step == [n \in 1 .. m |-> [x \in A |-> Next(x, n)]]
<1>1. m \in Nat /\ e \in A
  OBVIOUS
<1>2. \A n \in 1 .. m : \A x \in A : Next(x, n) \in A
  BY DEF Assign
<1>3. Bibliography(tags) = F[Len(tags)]
  BY DEF Bibliography
<1> HIDE DEF Next, A, m, e
<1>4. PICK g \in [0 .. m -> A] : Chain(g, e, m, step)
  <2>1. step \in [1 .. m -> [A -> A]]
    BY <1>2
  <2> HIDE DEF step, Good, F
  <2> QED BY <1>1, <2>1, ChainExists
<1>5. \A i \in 1 .. m : g[i - 1] \in A /\ g[i] = Next(g[i - 1], i)
  <2>1. \A i \in 1 .. m : i - 1 \in 0 .. m
    BY <1>1
  <2> QED BY <1>4, <2>1 DEF Chain
<1>6. Good(g)
  <2>1. \A i \in 0 .. m : g[i] = IF i = 0 THEN e ELSE Next(g[i - 1], i)
    BY <1>1, <1>4, <1>5 DEF Chain
  <2> QED BY <2>1
<1>7. Good(F)
  <2> HIDE DEF Good
  <2> QED BY <1>6
<1> HIDE DEF F
<1>8. F[0] = e /\ \A n \in 1 .. m : F[n] = Next(F[n - 1], n)
  BY <1>1, <1>7
<1> QED BY <1>3, <1>8 DEF Next, m, e

LEMMA BibliographyEmpty == Bibliography(<<>>) = <<>>
<1> DEFINE e == <<>>
           E == {}
<1>1. e \in Seq(E) /\ Len(e) = 0
  OBVIOUS
<1>2. Bibliography(e) = <<>>
  <2> HIDE DEF e, E
  <2>1. PICK f : f[0] = <<>> /\ Bibliography(e) = f[Len(e)]
    BY <1>1, BibliographyRec
  <2> QED BY <1>1, <2>1
<1> QED BY <1>2

LEMMA BibliographyAppend ==
  ASSUME NEW T, NEW s \in Seq(T), NEW x \in T
  PROVE  Bibliography(Append(s, x)) = Assign(Bibliography(s), x)
<1> DEFINE t == Append(s, x)
           n == Len(s)
<1>1. t \in Seq(T) /\ Len(t) = n + 1 /\ n \in Nat /\ t[n + 1] = x
      /\ \A i \in 1 .. n : t[i] = s[i]
  OBVIOUS
<1>2. PICK f : /\ f[0] = <<>>
               /\ \A i \in 1 .. Len(s) : f[i] = Assign(f[i - 1], s[i])
               /\ Bibliography(s) = f[Len(s)]
  BY BibliographyRec
<1> HIDE DEF t
<1>3. PICK g : /\ g[0] = <<>>
               /\ \A i \in 1 .. Len(t) : g[i] = Assign(g[i - 1], t[i])
               /\ Bibliography(t) = g[Len(t)]
  BY <1>1, BibliographyRec
<1> HIDE DEF n
<1>4. f[n] = g[n]
  <2>1. \A i \in 1 .. n : f[i - 1] = g[i - 1] => f[i] = g[i]
    <3> SUFFICES ASSUME NEW i \in 1 .. n, f[i - 1] = g[i - 1] PROVE f[i] = g[i]
      OBVIOUS
    <3>1. i \in 1 .. Len(t) /\ i \in 1 .. Len(s)
      BY <1>1 DEF n
    <3> QED BY <1>1, <1>2, <1>3, <3>1
  <2> QED BY <1>1, <1>2, <1>3, <2>1, ChainUnique
<1>5. g[n + 1] = Assign(g[n], x)
  <2>1. n + 1 \in 1 .. Len(t) /\ (n + 1) - 1 = n
    BY <1>1
  <2> QED BY <1>1, <1>3, <2>1
<1> QED BY <1>1, <1>2, <1>3, <1>4, <1>5 DEF t, n

\* ... and for the FlattenSeq of the library, which starts at the first sequence.
LEMMA FlattenRec ==
  ASSUME NEW T, NEW ss \in Seq(Seq(T))
  PROVE  \E f : /\ f[0] = <<>>
                /\ \A n \in 1 .. Len(ss) : f[n] = f[n - 1] \o ss[n]
                /\ FlattenSeq(ss) = f[Len(ss)]
<1> DEFINE A == Seq(T)
           m == Len(ss)
           e == <<>>
           Next(x, n) == x \o ss[n]
           Good(f) == f = [n \in 1 .. m |-> IF n = 1 THEN ss[n] ELSE Next(f[n - 1], n)]
           F == CHOOSE f : Good(f)
           step == [n \in 1 .. m |-> [x \in A |-> Next(x, n)]]
<1>1. m \in Nat /\ e \in A
  OBVIOUS
<1>2. \A n \in 1 .. m : \A x \in A : Next(x, n) \in A
  OBVIOUS
<1>3. \A n \in 1 .. m : Next(e, n) = ss[n]
  <2> SUFFICES ASSUME NEW n \in 1 .. m PROVE Next(e, n) = ss[n]
    OBVIOUS
  <2>1. ss[n] \in Seq(T)
    OBVIOUS
  <2> QED BY <2>1
<1>4. FlattenSeq(ss) = IF m = 0 THEN e ELSE F[m]
  <2>1. m = 0 => ss = <<>>
    OBVIOUS
  <2> QED BY <2>1 DEF FlattenSeq
<1> HIDE DEF Next, A, m, e
<1>5. PICK g \in [0 .. m -> A] : Chain(g, e, m, step)
  <2>1. step \in [1 .. m -> [A -> A]]
    BY <1>2
  <2>2. m \in Nat /\ e \in A
    BY <1>1
  <2> HIDE DEF step, Good, F
  <2> QED BY <2>1, <2>2, ChainExists
<1>6. \A i \in 1 .. m : g[i - 1] \in A /\ g[i] = Next(g[i - 1], i)
  <2>1. \A i \in 1 .. m : i - 1 \in 0 .. m
    BY <1>1
  <2> QED BY <1>5, <2>1 DEF Chain
<1>7. \E f : Good(f)
  <2> DEFINE h == [i \in 1 .. m |-> g[i]]
  <2>1. ASSUME NEW i \in 1 .. m PROVE h[i] = IF i = 1 THEN ss[i] ELSE Next(h[i - 1], i)
    <3>1. CASE i = 1
      BY <1>3, <1>5, <1>6, <3>1 DEF Chain
    <3>2. CASE i # 1
      <4>1. i - 1 \in 1 .. m
        BY <1>1, <3>2
      <4> QED BY <1>6, <3>2, <4>1
    <3> QED BY <3>1, <3>2
  <2>2. h = [i \in 1 .. m |-> IF i = 1 THEN ss[i] ELSE Next(h[i - 1], i)]
    <3>1. h = [i \in 1 .. m |-> h[i]]
      OBVIOUS
    <3> HIDE DEF h
    <3> QED BY <2>1, <3>1
  <2> HIDE DEF h
  <2> QED BY <2>2
<1>8. Good(F)
  <2> HIDE DEF Good
  <2> QED BY <1>7
<1> HIDE DEF F
<1> DEFINE H == [i \in 0 .. m |-> IF i = 0 THEN e ELSE F[i]]
<1>9. \A n \in 1 .. m : F[n] = IF n = 1 THEN ss[n] ELSE Next(F[n - 1], n)
  BY <1>8
<1>10. /\ H[0] = e
       /\ \A i \in 1 .. m : H[i] = F[i]
       /\ FlattenSeq(ss) = H[m]
  BY <1>1, <1>4
<1> HIDE DEF H
<1>11. \A n \in 1 .. m : H[n] = Next(H[n - 1], n)
  <2> SUFFICES ASSUME NEW n \in 1 .. m PROVE H[n] = Next(H[n - 1], n)
    OBVIOUS
  <2>1. CASE n = 1
    BY <1>3, <1>9, <1>10, <2>1
  <2>2. CASE n # 1
    <3>1. n - 1 \in 1 .. m
      BY <1>1, <2>2
    <3> QED BY <1>9, <1>10, <2>2, <3>1
  <2> QED BY <2>1, <2>2
<1> QED BY <1>10, <1>11 DEF Next, m, e

LEMMA FlattenEmpty == FlattenSeq(<<>>) = <<>>
  BY DEF FlattenSeq

LEMMA FlattenAppend ==
  ASSUME NEW T, NEW ss \in Seq(Seq(T)), NEW s \in Seq(T)
  PROVE  FlattenSeq(Append(ss, s)) = FlattenSeq(ss) \o s
<1> DEFINE A == Seq(T)
<1> HIDE DEF A
<1>0. ss \in Seq(A) /\ s \in A
  BY DEF A
<1> DEFINE t == Append(ss, s)
           n == Len(ss)
<1>1. t \in Seq(A) /\ Len(t) = n + 1 /\ n \in Nat /\ t[n + 1] = s
      /\ \A i \in 1 .. n : t[i] = ss[i]
  BY <1>0
<1>2. PICK f : /\ f[0] = <<>>
               /\ \A i \in 1 .. Len(ss) : f[i] = f[i - 1] \o ss[i]
               /\ FlattenSeq(ss) = f[Len(ss)]
  BY FlattenRec
<1> HIDE DEF t
<1>3. PICK g : /\ g[0] = <<>>
               /\ \A i \in 1 .. Len(t) : g[i] = g[i - 1] \o t[i]
               /\ FlattenSeq(t) = g[Len(t)]
  BY <1>1, FlattenRec DEF A
<1> HIDE DEF n
<1>4. f[n] = g[n]
  <2>1. \A i \in 1 .. n : f[i - 1] = g[i - 1] => f[i] = g[i]
    <3> SUFFICES ASSUME NEW i \in 1 .. n, f[i - 1] = g[i - 1] PROVE f[i] = g[i]
      OBVIOUS
    <3>1. i \in 1 .. Len(t) /\ i \in 1 .. Len(ss)
      BY <1>1 DEF n
    <3> QED BY <1>1, <1>2, <1>3, <3>1
  <2>2. n \in Nat /\ f[0] = g[0]
    BY <1>1, <1>2, <1>3
  <2> QED BY <2>1, <2>2, ChainUnique
<1>5. g[n + 1] = g[n] \o s
  <2>1. n + 1 \in 1 .. Len(t) /\ (n + 1) - 1 = n
    BY <1>1
  <2> QED BY <1>1, <1>3, <2>1
<1> QED BY <1>1, <1>2, <1>3, <1>4, <1>5 DEF t, n

\* The sequence of the images under a function.
Mapped(s, h) == [k \in DOMAIN s |-> h[s[k]]]

LEMMA MapFacts ==
  ASSUME NEW A, NEW B, NEW h \in [A -> B], NEW s \in Seq(A)
  PROVE  Mapped(s, h) \in Seq(B) /\ Len(Mapped(s, h)) = Len(s)
<1>1. Len(s) \in Nat /\ Mapped(s, h) \in [1 .. Len(s) -> B]
  BY DEF Mapped
<1> QED BY <1>1

LEMMA MapAppend ==
  ASSUME NEW A, NEW B, NEW h \in [A -> B], NEW s \in Seq(A), NEW x \in A
  PROVE  Mapped(Append(s, x), h) = Append(Mapped(s, h), h[x])
<1> DEFINE t == Append(s, x)
           n == Len(s)
           v == Mapped(t, h)
           w == Append(Mapped(s, h), h[x])
<1>1. t \in Seq(A) /\ Len(t) = n + 1 /\ n \in Nat /\ t[n + 1] = x
      /\ \A i \in 1 .. n : t[i] = s[i]
  OBVIOUS
<1>2. /\ v \in Seq(B) /\ Len(v) = n + 1
      /\ Mapped(s, h) \in Seq(B) /\ Len(Mapped(s, h)) = n /\ h[x] \in B
  <2> HIDE DEF t
  <2> QED BY <1>1, MapFacts
<1>3. w \in Seq(B) /\ Len(w) = n + 1 /\ w[n + 1] = h[x] /\ \A i \in 1 .. n : w[i] = Mapped(s, h)[i]
  BY <1>1, <1>2, AppendProperties
<1>4. \A i \in 1 .. n + 1 : v[i] = w[i]
  <2> SUFFICES ASSUME NEW i \in 1 .. n + 1 PROVE v[i] = w[i]
    OBVIOUS
  <2>1. v[i] = h[t[i]]
    BY <1>1 DEF Mapped
  <2>2. i \in 1 .. n => Mapped(s, h)[i] = h[s[i]]
    BY DEF Mapped
  <2>3. i = n + 1 \/ i \in 1 .. n
    BY <1>1
  <2> HIDE DEF v, w, t, n
  <2> QED BY <1>1, <1>3, <2>1, <2>2, <2>3
<1>5. v = w
  <2> HIDE DEF v, w, t, n
  <2> QED BY <1>1, <1>2, <1>3, <1>4, SeqEqual
<1> QED BY <1>5

LEMMA MapConcat ==
  ASSUME NEW A, NEW B, NEW h \in [A -> B], NEW s \in Seq(A), NEW t \in Seq(A)
  PROVE  Mapped(s \o t, h) = Mapped(s, h) \o Mapped(t, h)
<1> DEFINE v == Mapped(s \o t, h)
           w == Mapped(s, h) \o Mapped(t, h)
           n == Len(s)
           m == Len(t)
<1>1. s \o t \in Seq(A) /\ n \in Nat /\ m \in Nat /\ Len(s \o t) = n + m
  BY ConcatProperties
<1>2. /\ v \in Seq(B) /\ Len(v) = n + m
      /\ Mapped(s, h) \in Seq(B) /\ Len(Mapped(s, h)) = n
      /\ Mapped(t, h) \in Seq(B) /\ Len(Mapped(t, h)) = m
  <2> DEFINE u == s \o t
  <2>1. u \in Seq(A) /\ Len(u) = n + m
    BY <1>1
  <2> HIDE DEF u, n, m
  <2>2. \A z \in Seq(A) : Mapped(z, h) \in Seq(B) /\ Len(Mapped(z, h)) = Len(z)
    BY MapFacts
  <2> QED BY <2>1, <2>2 DEF u, n, m
<1>3. w \in Seq(B) /\ Len(w) = n + m
  <2> DEFINE x == Mapped(s, h)
             y == Mapped(t, h)
  <2>1. x \in Seq(B) /\ y \in Seq(B) /\ Len(x) = n /\ Len(y) = m
    BY <1>2
  <2> HIDE DEF x, y, n, m
  <2>2. x \o y \in Seq(B) /\ Len(x \o y) = n + m
    BY <2>1, ConcatProperties
  <2> QED BY <2>2 DEF x, y
<1>4. \A i \in 1 .. n + m : v[i] = w[i]
  <2> SUFFICES ASSUME NEW i \in 1 .. n + m PROVE v[i] = w[i]
    OBVIOUS
  <2>1. v[i] = h[(s \o t)[i]]
    BY <1>1 DEF Mapped
  <2>2. CASE i <= n
    <3>1. i \in 1 .. n /\ (s \o t)[i] = s[i]
      BY <1>1, <2>2, ConcatProperties
    <3>2. w[i] = Mapped(s, h)[i]
      BY <1>2, <2>2, ConcatProperties
    <3>3. Mapped(s, h)[i] = h[s[i]]
      BY <3>1 DEF Mapped
    <3> QED BY <2>1, <3>1, <3>2, <3>3
  <2>3. CASE ~(i <= n)
    <3>1. i - n \in 1 .. m
      BY <1>1, <2>3
    <3>2. (s \o t)[i] = t[i - n]
      BY <1>1, <2>3, ConcatProperties
    <3>3. w[i] = Mapped(t, h)[i - n]
      BY <1>2, <2>3, ConcatProperties
    <3>4. Mapped(t, h)[i - n] = h[t[i - n]]
      BY <3>1 DEF Mapped
    <3> QED BY <2>1, <3>2, <3>3, <3>4
  <2> QED BY <2>2, <2>3
<1>5. v = w
  <2> HIDE DEF v, w, n, m
  <2> QED BY <1>1, <1>2, <1>3, <1>4, SeqEqual
<1> QED BY <1>5

LEMMA FlattenType ==
  ASSUME NEW T, NEW ss \in Seq(Seq(T))
  PROVE  FlattenSeq(ss) \in Seq(T)
<1> DEFINE A == Seq(T)
           G == {u \in Seq(A) : FlattenSeq(u) \in A}
<1>1. <<>> \in G
  <2> DEFINE e == <<>>
  <2>1. e \in Seq(A) /\ e \in A /\ FlattenSeq(e) = e
    BY FlattenEmpty, EmptySeq
  <2> HIDE DEF e, A
  <2>2. e \in G
    BY <2>1
  <2> QED BY <2>2 DEF e
<1>2. ASSUME NEW u \in Seq(A), u \in G, NEW s \in A
      PROVE  Append(u, s) \in G
  <2>1. FlattenSeq(Append(u, s)) = FlattenSeq(u) \o s
    BY FlattenAppend
  <2>2. FlattenSeq(u) \o s \in A
    BY <1>2
  <2>3. Append(u, s) \in Seq(A)
    BY AppendProperties
  <2> QED BY <2>1, <2>2, <2>3
<1>3. Seq(A) \subseteq G
  <2> HIDE DEF G, A
  <2> QED BY <1>1, <1>2, SeqInduction
<1> QED BY <1>3

\* A function on sequences that may as well be applied piece by piece.
Homomorphism(h, T, U) ==
  /\ h \in [Seq(T) -> Seq(U)]
  /\ h[<<>>] = <<>>
  /\ \A s, t \in Seq(T) : h[s \o t] = h[s] \o h[t]

\* ... and so before or after the pieces are put together.
LEMMA FlattenMap ==
  ASSUME NEW T, NEW U, NEW h, Homomorphism(h, T, U), NEW ss \in Seq(Seq(T))
  PROVE  FlattenSeq(Mapped(ss, h)) = h[FlattenSeq(ss)]
<1>0. /\ h \in [Seq(T) -> Seq(U)]
      /\ h[<<>>] = <<>>
      /\ \A s, t \in Seq(T) : h[s \o t] = h[s] \o h[t]
  BY DEF Homomorphism
<1> DEFINE A == Seq(T)
           G == {u \in Seq(A) : FlattenSeq(Mapped(u, h)) = h[FlattenSeq(u)]}
<1>1. <<>> \in G
  <2> DEFINE e == <<>>
  <2>1. e \in Seq(A) /\ FlattenSeq(e) = e /\ Mapped(e, h) = e /\ h[e] = e
    BY <1>0, FlattenEmpty, EmptySeq DEF Mapped
  <2> HIDE DEF e, A
  <2>2. e \in G
    BY <2>1
  <2> QED BY <2>2 DEF e
<1>2. ASSUME NEW u \in Seq(A), u \in G, NEW s \in A
      PROVE  Append(u, s) \in G
  <2>1. Append(u, s) \in Seq(A) /\ FlattenSeq(u) \in A
    BY AppendProperties, FlattenType
  <2>2. FlattenSeq(Append(u, s)) = FlattenSeq(u) \o s
    BY FlattenAppend
  <2>3. Mapped(Append(u, s), h) = Append(Mapped(u, h), h[s])
    BY <1>0, MapAppend
  <2>4. Mapped(u, h) \in Seq(Seq(U)) /\ h[s] \in Seq(U)
    BY <1>0, MapFacts
  <2>5. FlattenSeq(Append(Mapped(u, h), h[s])) = FlattenSeq(Mapped(u, h)) \o h[s]
    BY <2>4, FlattenAppend
  <2>6. h[FlattenSeq(u) \o s] = h[FlattenSeq(u)] \o h[s]
    BY <1>0, <2>1
  <2> QED BY <1>2, <2>1, <2>2, <2>3, <2>5, <2>6
<1>3. Seq(A) \subseteq G
  <2> HIDE DEF G, A
  <2> QED BY <1>1, <1>2, SeqInduction
<1> QED BY <1>3

\* A woven sentence: the known tags, each replaced by its number.
LEMMA WovenIsMap ==
  ASSUME NEW T, NEW s \in Seq(T), NEW U, NEW order \in Seq(U)
  PROVE  LET num == [id \in T |-> Number(order, id)]
         IN  /\ num \in [T -> Nat]
             /\ Select(s, InGraph) \in Seq(T)
             /\ Woven(s, order) = Mapped(Select(s, InGraph), num)
<1> DEFINE num == [id \in T |-> Number(order, id)]
           c == Select(s, InGraph)
<1>1. \A id \in T : Number(order, id) \in Nat
  BY NumberFacts
<1>2. c \in Seq(T)
  BY SelectFacts
<1>3. \A k \in DOMAIN c : num[c[k]] = Number(order, c[k])
  <2> HIDE DEF c
  <2> QED BY <1>2
<1>4. Mapped(c, num) = [k \in DOMAIN c |-> Number(order, c[k])]
  <2> HIDE DEF c, num
  <2> QED BY <1>3 DEF Mapped
<1> QED BY <1>1, <1>2, <1>4 DEF Woven

\* Weaving is one, with the numbers given.
LEMMA WovenHom ==
  ASSUME NEW T, NEW U, NEW order \in Seq(U)
  PROVE  Homomorphism([s \in Seq(T) |-> Woven(s, order)], T, Nat)
<1> DEFINE num == [id \in T |-> Number(order, id)]
           c(s) == Select(s, InGraph)
<1>1. num \in [T -> Nat] /\ \A s \in Seq(T) : c(s) \in Seq(T) /\ Woven(s, order) = Mapped(c(s), num)
  <2>1. num \in [T -> Nat]
    BY NumberFacts
  <2> QED BY <2>1, WovenIsMap
<1> HIDE DEF num
<1>2. \A s \in Seq(T) : Woven(s, order) \in Seq(Nat)
  BY <1>1, MapFacts
<1>3. Woven(<<>>, order) = <<>>
  BY SelectEmpty DEF Woven
<1>4. ASSUME NEW s \in Seq(T), NEW t \in Seq(T)
      PROVE  Woven(s \o t, order) = Woven(s, order) \o Woven(t, order)
  <2>1. c(s \o t) = c(s) \o c(t) /\ s \o t \in Seq(T)
    BY SelectConcat
  <2>2. Mapped(c(s) \o c(t), num) = Mapped(c(s), num) \o Mapped(c(t), num)
    <3>1. \A p, q \in Seq(T) : Mapped(p \o q, num) = Mapped(p, num) \o Mapped(q, num)
      <4>1. num \in [T -> Nat]
        BY <1>1
      <4> QED BY <4>1, MapConcat
    <3> QED BY <1>1, <3>1
  <2> HIDE DEF c
  <2> QED BY <1>1, <2>1, <2>2
<1> QED
  <2> DEFINE W == [s \in Seq(T) |-> Woven(s, order)]
  <2>1. <<>> \in Seq(T) /\ \A s, t \in Seq(T) : s \o t \in Seq(T)
    BY EmptySeq, ConcatProperties
  <2>2. W \in [Seq(T) -> Seq(Nat)] /\ \A s \in Seq(T) : W[s] = Woven(s, order)
    BY <1>2
  <2> HIDE DEF W
  <2>3. W[<<>>] = <<>> /\ \A s, t \in Seq(T) : W[s \o t] = W[s] \o W[t]
    BY <1>3, <1>4, <2>1, <2>2
  <2> QED BY <2>2, <2>3 DEF W, Homomorphism

LEMMA WovenAppend ==
  ASSUME NEW T, NEW s \in Seq(T), NEW x \in T, NEW U, NEW order \in Seq(U)
  PROVE  Woven(Append(s, x), order) = IF x \in InGraph THEN Append(Woven(s, order), Number(order, x))
                                      ELSE Woven(s, order)
<1> DEFINE num == [id \in T |-> Number(order, id)]
           c == Select(s, InGraph)
<1>1. /\ num \in [T -> Nat] /\ c \in Seq(T)
      /\ \A t \in Seq(T) : Woven(t, order) = Mapped(Select(t, InGraph), num)
  <2>1. num \in [T -> Nat] /\ c \in Seq(T)
    BY NumberFacts, SelectFacts
  <2>2. \A t \in Seq(T) : Woven(t, order) = Mapped(Select(t, InGraph), num)
    BY WovenIsMap
  <2> QED BY <2>1, <2>2
<1>2. Woven(Append(s, x), order) = Mapped(Select(Append(s, x), InGraph), num)
  <2>1. Append(s, x) \in Seq(T)
    BY AppendProperties
  <2> QED BY <1>1, <2>1
<1>3. Select(Append(s, x), InGraph) = IF x \in InGraph THEN Append(c, x) ELSE c
  BY SelectAppend
<1>4. num[x] = Number(order, x)
  OBVIOUS
<1>5. Mapped(Append(c, x), num) = Append(Mapped(c, num), num[x])
  <2> HIDE DEF c, num
  <2> QED BY <1>1, MapAppend
<1>6. Woven(s, order) = Mapped(c, num)
  BY <1>1
<1> HIDE DEF c, num
<1> QED BY <1>2, <1>3, <1>4, <1>5, <1>6

\* A claim that is new to the bibliography does not disturb the numbers in use.
LEMMA NumberGrow ==
  ASSUME NEW T, NEW order \in Seq(T), IsInjective(order), NEW x \in T, x \notin ToSet(order)
  PROVE  /\ IsInjective(Append(order, x))
         /\ Number(Append(order, x), x) = Len(order) + 1
         /\ \A id \in ToSet(order) : Number(Append(order, x), id) = Number(order, id)
<1> DEFINE b == Append(order, x)
           n == Len(order)
<1>1. n \in Nat /\ b \in Seq(T) /\ Len(b) = n + 1 /\ b[n + 1] = x
      /\ \A i \in 1 .. n : b[i] = order[i]
  BY AppendProperties
<1>2. ToSet(b) = ToSet(order) \cup {x}
  BY ToSetAppend
<1>3. /\ DOMAIN order = 1 .. n /\ DOMAIN b = 1 .. n + 1
      /\ \A i \in 1 .. n : order[i] # x
  BY <1>1 DEF ToSet
<1>4. \A i, j \in DOMAIN order : order[i] = order[j] => i = j
  BY DEF IsInjective
<1> HIDE DEF b, n
<1>5. \A i, j \in DOMAIN b : b[i] = b[j] => i = j
  <2> SUFFICES ASSUME NEW i \in 1 .. n + 1, NEW j \in 1 .. n + 1, b[i] = b[j] PROVE i = j
    BY <1>3
  <2>1. (i = n + 1 \/ i \in 1 .. n) /\ (j = n + 1 \/ j \in 1 .. n)
    BY <1>1
  <2> QED BY <2>1, <1>1, <1>3, <1>4
<1>6. \A id \in ToSet(b) : Number(b, id) \in DOMAIN b /\ b[Number(b, id)] = id
  BY <1>1, NumberFacts
<1>7. Number(b, x) = n + 1
  <2>1. n + 1 \in DOMAIN b /\ x \in ToSet(b)
    BY <1>1, <1>2, <1>3
  <2> QED BY <2>1, <1>1, <1>5, <1>6
<1>8. ASSUME NEW id \in ToSet(order) PROVE Number(b, id) = Number(order, id)
  <2>1. Number(order, id) \in DOMAIN order /\ order[Number(order, id)] = id
    BY NumberFacts
  <2>2. Number(order, id) \in DOMAIN b /\ b[Number(order, id)] = id
    BY <2>1, <1>1, <1>3
  <2> QED BY <2>2, <1>2, <1>5, <1>6
<1> QED BY <1>5, <1>7, <1>8 DEF b, n, IsInjective

\* ... nor what is woven with them already.
LEMMA WovenGrow ==
  ASSUME NEW T, NEW order \in Seq(T), IsInjective(order), NEW x \in T, x \notin ToSet(order),
         NEW s \in Seq(T), ToSet(s) \cap InGraph \subseteq ToSet(order)
  PROVE  Woven(s, Append(order, x)) = Woven(s, order)
<1> DEFINE c == Select(s, InGraph)
<1>1. c \in Seq(T) /\ ToSet(c) \subseteq ToSet(order)
  BY SelectFacts
<1>2. \A k \in DOMAIN c : c[k] \in ToSet(order)
  BY <1>1 DEF ToSet
<1>3. \A id \in ToSet(order) : Number(Append(order, x), id) = Number(order, id)
  BY NumberGrow
<1>4. [k \in DOMAIN c |-> Number(Append(order, x), c[k])] = [k \in DOMAIN c |-> Number(order, c[k])]
  <2> HIDE DEF c
  <2> QED BY <1>2, <1>3
<1> QED BY <1>4 DEF Woven

\* Each number is at most one more than the numbers before it.
CountsUp(r) == \A i \in DOMAIN r : r[i] \in 1 .. 1 + Cardinality({r[j] : j \in 1 .. i - 1})

LEMMA CountsUpAppend ==
  ASSUME NEW r \in Seq(Nat), NEW n \in Nat, ToSet(r) = 1 .. n, CountsUp(r), NEW v \in 1 .. n + 1
  PROVE  /\ CountsUp(Append(r, v))
         /\ ToSet(Append(r, v)) = 1 .. IF v = n + 1 THEN n + 1 ELSE n
<1> DEFINE t == Append(r, v)
           m == Len(r)
<1>1. m \in Nat /\ DOMAIN r = 1 .. m /\ DOMAIN t = 1 .. m + 1 /\ t[m + 1] = v
      /\ \A i \in 1 .. m : t[i] = r[i]
  BY AppendProperties
<1>2. ToSet(t) = ToSet(r) \cup {v}
  BY ToSetAppend
<1> HIDE DEF t, m
<1>3. ToSet(t) = 1 .. IF v = n + 1 THEN n + 1 ELSE n
  BY <1>2
<1>4. ASSUME NEW i \in 1 .. m + 1
      PROVE  t[i] \in 1 .. 1 + Cardinality({t[j] : j \in 1 .. i - 1})
  <2>1. \A j \in 1 .. i - 1 : j \in 1 .. m /\ t[j] = r[j]
    BY <1>1
  <2>2. {t[j] : j \in 1 .. i - 1} = {r[j] : j \in 1 .. i - 1}
    BY <2>1
  <2>3. CASE i = m + 1
    <3>1. {r[j] : j \in 1 .. i - 1} = 1 .. n
      <4>1. i - 1 = m
        BY <1>1, <2>3
      <4> QED BY <4>1, <1>1 DEF ToSet
    <3>2. Cardinality(1 .. n) = n
      BY FS_Interval
    <3>3. Cardinality({t[j] : j \in 1 .. i - 1}) = n
      BY <2>2, <3>1, <3>2
    <3>4. t[i] \in 1 .. 1 + n
      BY <1>1, <2>3
    <3> QED BY <3>3, <3>4
  <2>4. CASE i # m + 1
    <3>1. i \in DOMAIN r /\ t[i] = r[i]
      BY <1>1, <2>4
    <3> QED BY <2>2, <3>1 DEF CountsUp
  <2> QED BY <2>3, <2>4
<1> QED BY <1>1, <1>3, <1>4 DEF CountsUp, t

\* Numbered by its own bibliography, a text of any tags counts up from one, and uses
\* every number the bibliography has.
LEMMA BibliographyFacts ==
  ASSUME NEW T, NEW tags \in Seq(T)
  PROVE  /\ Bibliography(tags) \in Seq(T)
         /\ IsInjective(Bibliography(tags))
         /\ ToSet(Bibliography(tags)) = ToSet(tags) \cap InGraph
         /\ Woven(tags, Bibliography(tags)) \in Seq(Nat)
         /\ ToSet(Woven(tags, Bibliography(tags))) = 1 .. Len(Bibliography(tags))
         /\ CountsUp(Woven(tags, Bibliography(tags)))
<1> DEFINE Good(u) == /\ Bibliography(u) \in Seq(T)
                      /\ IsInjective(Bibliography(u))
                      /\ ToSet(Bibliography(u)) = ToSet(u) \cap InGraph
                      /\ Woven(u, Bibliography(u)) \in Seq(Nat)
                      /\ ToSet(Woven(u, Bibliography(u))) = 1 .. Len(Bibliography(u))
                      /\ CountsUp(Woven(u, Bibliography(u)))
           G == {u \in Seq(T) : Good(u)}
<1>1. <<>> \in G
  <2> DEFINE e == <<>>
  <2>1. /\ e \in Seq(T) /\ e \in Seq(Nat) /\ Bibliography(e) = e /\ Woven(e, e) = e
        /\ Len(e) = 0 /\ DOMAIN e = {}
    BY BibliographyEmpty, SelectEmpty, EmptySeq DEF Woven
  <2> HIDE DEF e
  <2>2. ToSet(e) = {} /\ IsInjective(e) /\ CountsUp(e)
    BY <2>1 DEF ToSet, IsInjective, CountsUp
  <2>3. Good(e)
    BY <2>1, <2>2
  <2> QED BY <2>1, <2>3 DEF e
<1>2. ASSUME NEW s \in Seq(T), s \in G, NEW x \in T
      PROVE  Append(s, x) \in G
  <2> DEFINE b == Bibliography(s)
             t == Append(s, x)
             r == Woven(s, b)
  <2>1. /\ b \in Seq(T) /\ IsInjective(b) /\ ToSet(b) = ToSet(s) \cap InGraph
        /\ r \in Seq(Nat) /\ ToSet(r) = 1 .. Len(b) /\ CountsUp(r)
    BY <1>2
  <2>2. t \in Seq(T) /\ ToSet(t) = ToSet(s) \cup {x}
    BY AppendProperties, ToSetAppend
  <2>3. Bibliography(t) = IF x \in InGraph /\ x \notin ToSet(b) THEN Append(b, x) ELSE b
    BY BibliographyAppend DEF Assign
  <2> HIDE DEF b
  <2>4. \A order \in Seq(T) :
          Woven(t, order) = IF x \in InGraph THEN Append(Woven(s, order), Number(order, x))
                            ELSE Woven(s, order)
    BY WovenAppend
  <2>5. Len(b) \in Nat /\ DOMAIN b = 1 .. Len(b)
    BY <2>1
  <2> HIDE DEF t
  <2>6. CASE x \notin InGraph
    <3>1. Bibliography(t) = b /\ Woven(t, b) = r
      BY <2>1, <2>3, <2>4, <2>6
    <3>2. ToSet(b) = ToSet(t) \cap InGraph
      BY <2>1, <2>2, <2>6
    <3>3. Good(t)
      <4> HIDE DEF r
      <4> QED BY <2>1, <3>1, <3>2
    <3> HIDE DEF Good
    <3> QED BY <2>2, <3>3 DEF t
  <2>7. CASE x \in InGraph /\ x \in ToSet(b)
    <3> DEFINE v == Number(b, x)
    <3>1. v \in 1 .. Len(b)
      BY <2>1, <2>5, <2>7, NumberFacts
    <3>2. Bibliography(t) = b /\ Woven(t, b) = Append(r, v)
      BY <2>1, <2>3, <2>4, <2>7
    <3>3. ToSet(b) = ToSet(t) \cap InGraph
      BY <2>1, <2>2, <2>7
    <3> HIDE DEF v, r
    <3>4. v \in Nat /\ v \in 1 .. Len(b) + 1 /\ v # Len(b) + 1
      BY <2>5, <3>1
    <3>5. CountsUp(Append(r, v)) /\ ToSet(Append(r, v)) = 1 .. Len(b) /\ Append(r, v) \in Seq(Nat)
      BY <2>1, <2>5, <3>4, CountsUpAppend, AppendProperties
    <3>6. Good(t)
      BY <2>1, <3>2, <3>3, <3>5
    <3> HIDE DEF Good
    <3> QED BY <2>2, <3>6 DEF t
  <2>8. CASE x \in InGraph /\ x \notin ToSet(b)
    <3> DEFINE c == Append(b, x)
               v == Len(b) + 1
    <3>1. /\ IsInjective(c) /\ Number(c, x) = v
          /\ c \in Seq(T) /\ Len(c) = v /\ ToSet(c) = ToSet(b) \cup {x}
      BY <2>1, <2>8, NumberGrow, AppendProperties, ToSetAppend
    <3>2. Woven(s, c) = r
      BY <2>1, <2>8, WovenGrow
    <3>3. Bibliography(t) = c
      BY <2>3, <2>8
    <3> HIDE DEF c
    <3>4. Woven(t, c) = Append(r, v)
      BY <2>4, <2>8, <3>1, <3>2
    <3>5. ToSet(c) = ToSet(t) \cap InGraph
      BY <2>1, <2>2, <2>8, <3>1
    <3> HIDE DEF r
    <3>6. v \in Nat /\ v \in 1 .. Len(b) + 1
      BY <2>5
    <3>7. CountsUp(Append(r, v)) /\ ToSet(Append(r, v)) = 1 .. v /\ Append(r, v) \in Seq(Nat)
      BY <2>1, <2>5, <3>6, CountsUpAppend, AppendProperties
    <3>8. Good(t)
      BY <3>1, <3>3, <3>4, <3>5, <3>7
    <3> HIDE DEF Good
    <3> QED BY <2>2, <3>8 DEF t
  <2> QED BY <2>6, <2>7, <2>8 DEF t
<1>3. Seq(T) \subseteq G
  <2> HIDE DEF G
  <2> QED BY <1>1, <1>2, SeqInduction
<1> QED BY <1>3

\* What is in a piece is in the whole.
LEMMA FlattenContains ==
  ASSUME NEW T, NEW ss \in Seq(Seq(T)), NEW k \in DOMAIN ss
  PROVE  ToSet(ss[k]) \subseteq ToSet(FlattenSeq(ss))
<1> DEFINE A == Seq(T)
           Good(u) == \A i \in DOMAIN u : ToSet(u[i]) \subseteq ToSet(FlattenSeq(u))
           G == {u \in Seq(A) : Good(u)}
<1>1. <<>> \in G
  <2> DEFINE e == <<>>
  <2>1. e \in Seq(A) /\ DOMAIN e = {}
    BY EmptySeq
  <2> HIDE DEF e, A
  <2>2. e \in G
    BY <2>1
  <2> QED BY <2>2 DEF e
<1>2. ASSUME NEW u \in Seq(A), u \in G, NEW s \in A
      PROVE  Append(u, s) \in G
  <2> DEFINE v == Append(u, s)
             n == Len(u)
             p == FlattenSeq(u)
  <2>1. /\ v \in Seq(A) /\ n \in Nat /\ DOMAIN u = 1 .. n /\ DOMAIN v = 1 .. n + 1
        /\ v[n + 1] = s /\ \A i \in 1 .. n : v[i] = u[i]
    <3> HIDE DEF A
    <3> QED BY AppendProperties
  <2>2. FlattenSeq(v) = p \o s /\ p \in Seq(T)
    BY FlattenAppend, FlattenType
  <2> HIDE DEF v, p
  <2>3. ToSet(p) \subseteq ToSet(p \o s) /\ ToSet(s) \subseteq ToSet(p \o s)
    <3>1. /\ \A i \in DOMAIN p : i \in DOMAIN (p \o s) /\ (p \o s)[i] = p[i]
          /\ \A i \in DOMAIN s : Len(p) + i \in DOMAIN (p \o s) /\ (p \o s)[Len(p) + i] = s[i]
      BY <2>2
    <3> QED BY <3>1 DEF ToSet
  <2>4. \A i \in DOMAIN u : ToSet(u[i]) \subseteq ToSet(p)
    BY <1>2 DEF p
  <2> HIDE DEF n
  <2>5. ASSUME NEW i \in 1 .. n + 1 PROVE ToSet(v[i]) \subseteq ToSet(FlattenSeq(v))
    <3>1. i = n + 1 \/ i \in 1 .. n
      BY <2>1
    <3> QED BY <2>1, <2>2, <2>3, <2>4, <3>1
  <2>6. v \in G
    <3> HIDE DEF A
    <3> QED BY <2>1, <2>5
  <2> QED BY <2>6 DEF v
<1>3. Seq(A) \subseteq G
  <2> HIDE DEF G, A
  <2> QED BY <1>1, <1>2, SeqInduction
<1> QED BY <1>3

\* What is in a sentence is in the text.
LEMMA TagsFacts ==
  ASSUME NEW T, NEW ss, \E S : ss \in Seq(S), \A k \in DOMAIN ss : ss[k].body \in Seq(Seq(T))
  PROVE  /\ Tags(ss) \in Seq(T)
         /\ \A k \in DOMAIN ss : \A s \in DOMAIN ss[k].body :
              ToSet(ss[k].body[s]) \subseteq ToSet(Tags(ss))
<1> DEFINE bodies == [k \in DOMAIN ss |-> ss[k].body]
           A == Seq(T)
           F == FlattenSeq(bodies)
<1>1. bodies \in Seq(Seq(A))
  <2>1. PICK S : ss \in Seq(S)
    OBVIOUS
  <2>2. Len(ss) \in Nat /\ DOMAIN ss = 1 .. Len(ss)
    BY <2>1
  <2>3. bodies \in [1 .. Len(ss) -> Seq(A)]
    BY <2>2
  <2> HIDE DEF A, bodies
  <2> QED BY <2>2, <2>3
<1>2. DOMAIN bodies = DOMAIN ss /\ \A k \in DOMAIN ss : bodies[k] = ss[k].body
  OBVIOUS
<1>3. Tags(ss) = FlattenSeq(F)
  BY DEF Tags
<1>4. F \in Seq(Seq(T))
  <2> HIDE DEF bodies, A
  <2>1. F \in Seq(A)
    BY <1>1, FlattenType
  <2> QED BY <2>1 DEF A
<1>5. FlattenSeq(F) \in Seq(T)
  <2> HIDE DEF F
  <2> QED BY <1>4, FlattenType
<1>6. ASSUME NEW k \in DOMAIN ss, NEW s \in DOMAIN ss[k].body
      PROVE  ToSet(ss[k].body[s]) \subseteq ToSet(FlattenSeq(F))
  <2>1. ToSet(bodies[k]) \subseteq ToSet(F)
    <3> HIDE DEF bodies, A
    <3>1. k \in DOMAIN bodies
      BY <1>2
    <3> QED BY <1>1, <3>1, FlattenContains
  <2>2. ss[k].body[s] \in ToSet(F)
    BY <2>1 DEF ToSet
  <2>3. PICK i \in DOMAIN F : F[i] = ss[k].body[s]
    BY <2>2 DEF ToSet
  <2> HIDE DEF F
  <2>4. ToSet(F[i]) \subseteq ToSet(FlattenSeq(F))
    BY <1>4, FlattenContains
  <2> QED BY <2>3, <2>4
<1> QED BY <1>3, <1>5, <1>6

\* The text of the brief is the text that was written, tag for tag, with the tags
\* replaced: sections and sentences do not matter.
LEMMA TagsWoven ==
  ASSUME NEW T, NEW ss, \E S : ss \in Seq(S), \A k \in DOMAIN ss : ss[k].body \in Seq(Seq(T)),
         NEW U, NEW order \in Seq(U), NEW woven, DOMAIN woven = DOMAIN ss,
         \A k \in DOMAIN ss :
           woven[k].body = [s \in DOMAIN ss[k].body |-> Woven(ss[k].body[s], order)]
  PROVE  Tags(woven) = Woven(Tags(ss), order)
<1> DEFINE bodies == [k \in DOMAIN ss |-> ss[k].body]
           A == Seq(T)
           F == FlattenSeq(bodies)
           W == [s \in A |-> Woven(s, order)]
           M == [b \in Seq(A) |-> Mapped(b, W)]
           N == Seq(Nat)
<1>1. bodies \in Seq(Seq(A))
  <2>1. PICK S : ss \in Seq(S)
    OBVIOUS
  <2>2. Len(ss) \in Nat /\ DOMAIN ss = 1 .. Len(ss)
    BY <2>1
  <2>3. bodies \in [1 .. Len(ss) -> Seq(A)]
    BY <2>2
  <2> HIDE DEF A, bodies
  <2> QED BY <2>2, <2>3
<1>2. Homomorphism(W, T, Nat)
  BY WovenHom
<1>3. F \in Seq(A)
  <2> HIDE DEF bodies, A
  <2> QED BY <1>1, FlattenType
<1>4. FlattenSeq(F) \in A
  <2> HIDE DEF F
  <2> QED BY <1>3, FlattenType
<1>5. \A s \in A : W[s] = Woven(s, order)
  OBVIOUS
<1> HIDE DEF W
<1>6. Homomorphism(M, A, N)
  <2>0. W \in [A -> N]
    BY <1>2 DEF Homomorphism
  <2> HIDE DEF A, N
  <2>1. \A b \in Seq(A) : Mapped(b, W) \in Seq(N)
    BY <2>0, MapFacts
  <2>2. Mapped(<<>>, W) = <<>>
    BY DEF Mapped
  <2>3. \A s, t \in Seq(A) : Mapped(s \o t, W) = Mapped(s, W) \o Mapped(t, W)
    BY <2>0, MapConcat
  <2>4. <<>> \in Seq(A) /\ \A s, t \in Seq(A) : s \o t \in Seq(A)
    BY EmptySeq, ConcatProperties
  <2>5. M \in [Seq(A) -> Seq(N)] /\ \A b \in Seq(A) : M[b] = Mapped(b, W)
    BY <2>1
  <2> HIDE DEF M
  <2> QED BY <2>2, <2>3, <2>4, <2>5 DEF Homomorphism
<1>7. [k \in DOMAIN woven |-> woven[k].body] = Mapped(bodies, M)
  <2>1. ASSUME NEW k \in DOMAIN ss PROVE woven[k].body = M[ss[k].body]
    <3> DEFINE b == ss[k].body
    <3>1. b \in Seq(A) /\ woven[k].body = [s \in DOMAIN b |-> Woven(b[s], order)]
      OBVIOUS
    <3> HIDE DEF b, A
    <3>2. \A s \in DOMAIN b : b[s] \in A
      BY <3>1
    <3>3. [s \in DOMAIN b |-> Woven(b[s], order)] = Mapped(b, W)
      BY <3>2, <1>5 DEF Mapped
    <3> QED BY <3>1, <3>3 DEF b
  <2> HIDE DEF M, A
  <2> QED BY <2>1 DEF Mapped
<1>8. FlattenSeq(Mapped(bodies, M)) = M[F]
  <2> HIDE DEF bodies, M, A, N
  <2> QED BY <1>1, <1>6, FlattenMap
<1>9. M[F] = Mapped(F, W)
  <2> HIDE DEF F, A
  <2> QED BY <1>3
<1>10. FlattenSeq(Mapped(F, W)) = W[FlattenSeq(F)]
  <2> HIDE DEF F
  <2> QED BY <1>2, <1>3, FlattenMap
<1>11. Tags(woven) = FlattenSeq(FlattenSeq(Mapped(bodies, M)))
  <2> HIDE DEF bodies, M
  <2> QED BY <1>7 DEF Tags
<1>12. Tags(ss) = FlattenSeq(F)
  BY DEF Tags
<1> HIDE DEF F, M, bodies, A
<1> QED BY <1>4, <1>5, <1>8, <1>9, <1>10, <1>11, <1>12

-----------------------------------------------------------------------------
(* What is proved beside the properties of the runs.                         *)

Verdicts == {"AGREEMENT", "CONTRADICTION"}

Apart(gs) == \A g, h \in gs : g # h => g \cap h = {}

\* Nothing in the graph agrees or conflicts but a cluster of several findings of
\* which the model said so.
Judged(graph) ==
  \A g \in DOMAIN graph : graph[g] \in Verdicts =>
    /\ Cardinality(g) >= MinClusterSize
    /\ g \in DOMAIN said /\ said[g] = graph[g]

\* polarity.py:149: a brief has a section of consensus, or of conflicts, only if the
\* model judged a cluster of several findings to be just that.
Earned ==
  \A k \in DOMAIN brief : brief[k].heading \in Verdicts =>
    \E g \in DOMAIN said : Cardinality(g) >= MinClusterSize /\ said[g] = brief[k].heading

-----------------------------------------------------------------------------
(* The graph.  While the service works there is none yet, and its clusters, *)
(* those it has judged and those it has not, are apart from one another.    *)

GraphInv ==
  /\ at \in {"fetch", "cluster", "judge", "idle"}
  /\ at \in {"fetch", "cluster"} => judged = <<>> /\ said = <<>>
  /\ at = "idle" => groups = {} \/ pc = "failed"
  /\ at # "idle" => polarity = <<>> /\ pc = "graph"
  /\ Apart(groups \cup DOMAIN judged)
  /\ groups \cap DOMAIN judged = {}
  /\ DOMAIN said \subseteq DOMAIN judged \/ at = "idle"
  /\ Apart(DOMAIN polarity)
  /\ Judged(judged) /\ Judged(polarity)

LEMMA NoGraph == DOMAIN <<>> = {}
  OBVIOUS

\* The writer leaves the graph and the service's variables alone.
LEMMA WriteKeeps ==
  ASSUME Write
  PROVE  UNCHANGED polarity /\ pc # "graph" /\ pc' # "graph"
<1> QED
  BY DEF Write, SkipSection, WriteSection, WriteSummary, Fail, Weave

\* A cluster joins the graph with the judgement there is.
LEMMA JudgeStep ==
  ASSUME GraphInv, NEW g \in groups, Judge(g)
  PROVE  GraphInv'
<1>1. /\ at = "judge" /\ at' = at /\ UNCHANGED <<polarity, pc>>
      /\ groups' = groups \ {g} /\ g \notin DOMAIN judged
  BY DEF Judge, vars, GraphInv
<1>2. g \notin DOMAIN said
  BY <1>1 DEF GraphInv
<1>3. ASSUME Cardinality(g) < MinClusterSize, judged' = With(judged, g, "THIN_EVIDENCE"), UNCHANGED said
      PROVE  GraphInv'
  <2>1. /\ DOMAIN judged' = DOMAIN judged \cup {g}
        /\ \A h \in DOMAIN judged : judged'[h] = judged[h]
        /\ judged'[g] = "THIN_EVIDENCE"
    BY <1>1, <1>3 DEF With
  <2>2. Judged(judged)'
    BY <1>1, <1>3, <2>1 DEF GraphInv, Judged, Verdicts
  <2> QED
    BY <1>1, <1>3, <2>1, <2>2 DEF GraphInv, Apart, Judged
<1>4. ASSUME NEW word, Cardinality(g) >= MinClusterSize,
             judged' = With(judged, g, Valid(word)), said' = With(said, g, word)
      PROVE  GraphInv'
  <2>1. /\ DOMAIN judged' = DOMAIN judged \cup {g}
        /\ \A h \in DOMAIN judged : judged'[h] = judged[h]
        /\ judged'[g] = Valid(word)
    BY <1>1, <1>4 DEF With
  <2>2. /\ DOMAIN said' = DOMAIN said \cup {g}
        /\ \A h \in DOMAIN said : said'[h] = said[h]
        /\ said'[g] = word
    BY <1>2, <1>4 DEF With
  <2>3. Valid(word) \in Verdicts => Valid(word) = word
    BY DEF Valid, Verdicts
  <2>4. Judged(judged)'
    <3> SUFFICES ASSUME NEW h \in DOMAIN judged', judged'[h] \in Verdicts
                 PROVE  Cardinality(h) >= MinClusterSize /\ h \in DOMAIN said' /\ said'[h] = judged'[h]
      BY DEF Judged, Verdicts, MinClusterSize
    <3>1. CASE h = g
      BY <1>4, <2>1, <2>2, <2>3, <3>1
    <3>2. CASE h # g
      BY <2>1, <2>2, <3>2 DEF GraphInv, Judged
    <3> QED
      BY <3>1, <3>2
  <2>5. polarity = <<>> /\ Judged(polarity)'
    BY <1>1, NoGraph DEF GraphInv, Judged
  <2> QED
    BY <1>1, <2>1, <2>2, <2>4, <2>5 DEF GraphInv, Apart
<1> QED
  BY <1>3, <1>4 DEF Judge

\* Every step keeps the graph sound: a new attempt begins with an empty one.
LEMMA GraphStep ==
  ASSUME GraphInv, [SynthesisNext]_synthesisVars
  PROVE  GraphInv'
<1>1. CASE Fetch
  <2>1. PICK findings \in SUBSET Claims : groups' = {findings} \ {{}}
    BY <1>1 DEF Fetch
  <2> QED
    BY <1>1, <2>1, NoGraph DEF Fetch, GraphInv, Apart, Judged, vars
<1>2. CASE Cluster
  <2>1. groups' \in Partitions(UNION groups) /\ judged = <<>> /\ at = "cluster"
    BY <1>2 DEF Cluster, GraphInv
  <2>2. Apart(groups')
    BY <2>1 DEF Partitions, Apart
  <2> QED
    BY <1>2, <2>1, <2>2, NoGraph DEF Cluster, GraphInv, Apart, Judged, vars
<1>3. ASSUME NEW g \in groups, Judge(g)
      PROVE  GraphInv'
  BY <1>3, JudgeStep
<1>4. CASE Answer
  <2>1. /\ polarity' = judged /\ pc' = "section" /\ at' = "idle" /\ judged' = <<>>
        /\ groups = {} /\ UNCHANGED <<groups, said>>
    BY <1>4 DEF Answer, Begin
  <2> QED
    BY <2>1, NoGraph DEF GraphInv, Apart, Judged
<1>5. CASE Lost
  <2>1. CASE AskAgain /\ UNCHANGED vars
    BY <1>5, <2>1, NoGraph DEF Lost, AskAgain, GraphInv, Apart, Judged, vars
  <2>2. CASE pc' = "failed" /\ at' = "idle" /\ UNCHANGED <<groups, judged, said, polarity>>
    BY <1>5, <2>2, NoGraph DEF GraphInv, Judged
  <2> QED
    BY <1>5, <2>1, <2>2 DEF Lost
<1>6. CASE Write /\ UNCHANGED synthesis
  <2>1. UNCHANGED polarity /\ pc # "graph"
    BY <1>6, WriteKeeps
  <2>2. at = "idle" /\ (groups = {} \/ pc = "failed")
    BY <2>1 DEF GraphInv
  <2>3. pc = "failed" => FALSE
    BY <1>6 DEF Write, SkipSection, WriteSection, WriteSummary, Fail, Weave
  <2> QED
    BY <1>6, <2>1, <2>2, <2>3 DEF synthesis, GraphInv, Judged
<1>7. CASE UNCHANGED synthesisVars
  BY <1>7 DEF synthesisVars, synthesis, vars, GraphInv, Judged
<1> QED
  BY <1>1, <1>2, <1>3, <1>4, <1>5, <1>6, <1>7 DEF SynthesisNext

\* There is no graph to begin with.
LEMMA GraphInit == SynthesisInit => GraphInv
  BY NoGraph DEF SynthesisInit, Init, GraphInv, Apart, Judged

-----------------------------------------------------------------------------
(* The brief.  Whatever the writer writes, what is left of it after the      *)
(* filter is grounded in the graph, and the weaver is given just that.       *)

\* A text that is kept.
Body == (Texts \cup Summaries) \ {<<>>}

Section == [heading : Verdicts \cup {"THIN_EVIDENCE", "summary"}, body : Body]

\* Every sentence cites a finding of a cluster the section is about.
Grounded(section) ==
  \A s \in DOMAIN section.body :
    \E id \in ToSet(section.body[s]) : \E g \in DOMAIN polarity :
      id \in g /\ section.heading \in {"summary", polarity[g]}

Written(ss) == ss \in Seq(Section) /\ \A k \in DOMAIN ss : Grounded(ss[k])

\* The texts as they are woven with this bibliography.
Brief(ss, order) ==
  [k \in DOMAIN ss |->
     [heading |-> ss[k].heading,
      body |-> [s \in DOMAIN ss[k].body |-> Woven(ss[k].body[s], order)]]]

\* The types, with what they rest on.
GraphTyped ==
  /\ DOMAIN polarity \subseteq SUBSET Claims
  /\ \A g \in DOMAIN polarity : polarity[g] \in Polarities
  /\ DOMAIN judged \subseteq SUBSET Claims
  /\ \A g \in DOMAIN judged : judged[g] \in Polarities
  /\ DOMAIN said \subseteq SUBSET Claims
  /\ groups \subseteq SUBSET Claims
  /\ asked \in 0 .. SynthesizeRetries + 1

WriterTyped ==
  /\ pc \in {"graph", "section", "summary", "weave", "done", "failed"}
  /\ turn \in 1 .. Len(Order) + 1
  /\ tries \in 0 .. 1
  /\ Len(themed) < turn
  /\ Len(sections) <= Len(themed) + 1

\* The invariant.  The brief is what the weaver makes of the sections, all the time.
BriefInv ==
  /\ GraphInv
  /\ GraphTyped
  /\ WriterTyped
  /\ Written(themed) /\ Written(sections)
  /\ at # "idle" => themed = <<>> /\ sections = <<>>
  /\ IF pc = "done"
       THEN biblio = Bibliography(Tags(sections)) /\ brief = Brief(sections, biblio)
       ELSE biblio = <<>> /\ brief = <<>>

Tag == Claims \cup Invented

\* The bounded sequences of the library are the sequences that are short enough.
LEMMA BoundedFacts ==
  ASSUME NEW S, NEW n \in Nat, NEW s
  PROVE  s \in BoundedSeq(S, n) <=> s \in Seq(S) /\ Len(s) <= n
<1>1. BoundedSeq(S, n) = UNION {[1 .. m -> S] : m \in 0 .. n}
  BY DEF BoundedSeq, SeqOf
<1>2. ASSUME s \in BoundedSeq(S, n) PROVE s \in Seq(S) /\ Len(s) <= n
  <2>1. PICK m \in 0 .. n : s \in [1 .. m -> S]
    BY <1>1, <1>2
  <2>2. s \in Seq(S) /\ Len(s) = m
    BY <2>1
  <2> QED BY <2>2
<1>3. ASSUME s \in Seq(S), Len(s) <= n PROVE s \in BoundedSeq(S, n)
  <2>1. Len(s) \in 0 .. n /\ s \in [1 .. Len(s) -> S]
    BY <1>3
  <2> QED BY <1>1, <2>1
<1> QED BY <1>2, <1>3

LEMMA BodyFacts ==
  /\ Texts \cup Summaries \subseteq Seq(Sentences)
  /\ Sentences \subseteq Seq(Tag)
  /\ Body \subseteq Seq(Seq(Tag))
<1>1. Texts \cup Summaries \subseteq Seq(Sentences) /\ Sentences \subseteq Seq(Tag)
  BY ConstantsOK, BoundedFacts DEF Texts, Summaries, Sentences, Tag
<1>2. Seq(Sentences) \subseteq Seq(Seq(Tag))
  BY <1>1, SeqMonotonic
<1> QED BY <1>1, <1>2 DEF Body

\* The filter shortens a text, and leaves sentences that cite what they may.
LEMMA FilterFacts ==
  ASSUME NEW text \in Texts \cup Summaries, NEW allowed
  PROVE  LET kept == Filter(text, allowed) IN
         /\ kept \in Texts \cup Summaries
         /\ \A s \in DOMAIN kept : ToSet(kept[s]) \cap allowed # {}
<1> DEFINE S == {sentence \in ToSet(text) : Keep(sentence, allowed)}
           kept == Select(text, S)
<1>1. text \in Seq(Sentences)
  BY BodyFacts
<1>2. kept \in Seq(Sentences) /\ Len(kept) <= Len(text) /\ ToSet(kept) = ToSet(text) \cap S
  <2> HIDE DEF S
  <2> QED BY <1>1, SelectFacts
<1>3. Len(kept) \in Nat /\ Len(text) \in Nat
  BY <1>1, <1>2
<1>4. kept \in Texts \cup Summaries
  <2> HIDE DEF kept
  <2>1. text \in Texts => kept \in Texts
    BY <1>1, <1>2, <1>3, ConstantsOK, BoundedFacts DEF Texts
  <2>2. text \in Summaries => kept \in Summaries
    BY <1>1, <1>2, <1>3, ConstantsOK, BoundedFacts DEF Summaries
  <2> QED BY <2>1, <2>2
<1>5. ASSUME NEW s \in DOMAIN kept PROVE ToSet(kept[s]) \cap allowed # {}
  <2>1. kept[s] \in S
    <3> HIDE DEF kept, S
    <3> QED BY <1>2 DEF ToSet
  <2> HIDE DEF kept
  <2> QED BY <2>1 DEF Keep
<1> QED BY <1>4, <1>5 DEF Filter

\* A section may join at either end.
LEMMA WrittenJoined ==
  ASSUME NEW ss, Written(ss), NEW r \in Section, Grounded(r)
  PROVE  /\ Written(Append(ss, r)) /\ Len(Append(ss, r)) = Len(ss) + 1
         /\ Written(<<r>> \o ss) /\ Len(<<r>> \o ss) = Len(ss) + 1
         /\ Len(ss) \in Nat
<1>1. ss \in Seq(Section) /\ \A k \in DOMAIN ss : Grounded(ss[k])
  BY DEF Written
<1> HIDE DEF Section
<1>2. /\ Append(ss, r) \in Seq(Section) /\ DOMAIN Append(ss, r) = 1..(Len(ss) + 1)
      /\ \A k \in 1..Len(ss) : Append(ss, r)[k] = ss[k]
      /\ Append(ss, r)[Len(ss) + 1] = r
      /\ DOMAIN ss = 1..Len(ss) /\ Len(ss) \in Nat
      /\ Len(Append(ss, r)) = Len(ss) + 1
  BY <1>1, AppendProperties, LenProperties
<1>3. Written(Append(ss, r))
  <2>1. \A k \in DOMAIN Append(ss, r) : Grounded(Append(ss, r)[k])
    BY <1>1, <1>2
  <2> QED BY <1>2, <2>1 DEF Written
<1>4. /\ <<r>> \in Seq(Section) /\ Len(<<r>>) = 1 /\ <<r>>[1] = r
  OBVIOUS
<1>5. /\ <<r>> \o ss \in Seq(Section) /\ DOMAIN (<<r>> \o ss) = 1..(1 + Len(ss))
      /\ Len(<<r>> \o ss) = 1 + Len(ss)
      /\ (<<r>> \o ss)[1] = r
      /\ \A k \in 2..(1 + Len(ss)) : (<<r>> \o ss)[k] = ss[k - 1]
  BY <1>1, <1>2, <1>4, ConcatProperties, LenProperties
<1>6. Written(<<r>> \o ss)
  <2>1. \A k \in DOMAIN (<<r>> \o ss) : Grounded((<<r>> \o ss)[k])
    BY <1>1, <1>2, <1>5
  <2> QED BY <1>5, <2>1 DEF Written
<1> QED BY <1>2, <1>3, <1>5, <1>6

LEMMA NoneWritten == Written(<<>>)
  BY NoGraph, EmptySeq DEF Written

\* Nothing but the graph decides what a text is worth.
LEMMA WrittenKept ==
  ASSUME UNCHANGED polarity
  PROVE  \A ss : Written(ss) <=> Written(ss)'
  BY DEF Written, Grounded

\* Every step of the writer, its filter and the weaver keeps the brief sound.
LEMMA WriteStep ==
  ASSUME BriefInv, Write, UNCHANGED synthesis
  PROVE  BriefInv'
<1>1. /\ at = "idle" /\ at' = "idle" /\ UNCHANGED <<polarity, asked, judged, said, groups>>
      /\ pc \in {"section", "summary", "weave"} /\ brief = <<>> /\ biblio = <<>>
  <2>1. pc \in {"section", "summary", "weave"}
    BY DEF Write, SkipSection, WriteSection, WriteSummary, Fail, Weave
  <2> QED BY <2>1, WriteKeeps DEF BriefInv, GraphInv, synthesis
<1>2. GraphInv' /\ GraphTyped'
  BY <1>1, GraphStep DEF BriefInv, SynthesisNext, GraphTyped
<1>3. \A ss : Written(ss) => Written(ss)'
  BY <1>1, WrittenKept
<1>4. Written(themed) /\ Written(sections) /\ WriterTyped
  BY DEF BriefInv
<1>5. Len(themed) \in Nat /\ Len(sections) \in Nat
  BY <1>4 DEF Written
<1>6. Len(Order) = 3
  BY DEF Order
<1>7. CASE SkipSection
  <2>1. UNCHANGED <<themed, sections, brief, biblio, tries>> /\ pc' \in {"section", "summary", "weave"}
    BY <1>7 DEF SkipSection
  <2>2. turn' \in 1 .. Len(Order) + 1 /\ turn' >= turn
    BY <1>4, <1>6, <1>7 DEF SkipSection, WriterTyped
  <2>3. WriterTyped'
    BY <1>4, <1>5, <1>6, <2>1, <2>2 DEF WriterTyped
  <2>4. Written(themed)' /\ Written(sections)'
    BY <1>3, <1>4, <2>1
  <2> QED BY <1>1, <1>2, <2>1, <2>3, <2>4 DEF BriefInv
<1>8. CASE Fail
  <2>1. UNCHANGED <<themed, sections, brief, biblio, tries, turn>> /\ pc' = "failed"
    BY <1>8 DEF Fail
  <2>2. WriterTyped'
    BY <1>4, <2>1 DEF WriterTyped
  <2>3. Written(themed)' /\ Written(sections)'
    BY <1>3, <1>4, <2>1
  <2> QED BY <1>1, <1>2, <2>1, <2>2, <2>3 DEF BriefInv
<1>9. CASE WriteSection
  <2>1. UNCHANGED <<sections, brief, biblio>> /\ pc' = pc /\ pc = "section" /\ Allowed # {}
    BY <1>9 DEF WriteSection
  <2>2. turn \in 1 .. Len(Order) /\ Order[turn] \in {"AGREEMENT", "CONTRADICTION", "THIN_EVIDENCE"}
    BY <1>4, <1>6, <2>1 DEF Allowed, WriterTyped, Order
  <2>3. PICK text \in Texts :
          LET kept == Filter(text, Allowed) IN
          \/ tries' = 1 /\ UNCHANGED <<turn, themed>>
          \/ /\ themed' = IF kept = <<>> THEN themed
                          ELSE Append(themed, [heading |-> Order[turn], body |-> kept])
             /\ turn' = turn + 1 /\ tries' = 0
    BY <1>9 DEF WriteSection
  <2> DEFINE kept == Filter(text, Allowed)
             r == [heading |-> Order[turn], body |-> kept]
  <2>4. kept \in Texts \cup Summaries /\ \A s \in DOMAIN kept : ToSet(kept[s]) \cap Allowed # {}
    BY FilterFacts
  <2> HIDE DEF kept
  <2>5. kept # <<>> => r \in Section /\ Grounded(r)
    <3> SUFFICES ASSUME kept # <<>> PROVE r \in Section /\ Grounded(r)
      OBVIOUS
    <3>1. r \in Section
      BY <2>2, <2>4 DEF Section, Body, Verdicts
    <3>2. Grounded(r)
      BY <2>2, <2>4 DEF Grounded, Allowed
    <3> QED BY <3>1, <3>2
  <2> HIDE DEF r
  <2>6. CASE tries' = 1 /\ UNCHANGED <<turn, themed>>
    <3>1. WriterTyped'
      BY <1>4, <2>1, <2>6 DEF WriterTyped
    <3>2. Written(themed)' /\ Written(sections)'
      BY <1>3, <1>4, <2>1, <2>6
    <3> QED BY <1>1, <1>2, <2>1, <3>1, <3>2 DEF BriefInv
  <2>7. CASE /\ themed' = IF kept = <<>> THEN themed ELSE Append(themed, r)
             /\ turn' = turn + 1 /\ tries' = 0
    <3>1. Written(themed') /\ Len(themed') \in Nat /\ Len(themed') >= Len(themed) /\ Len(themed') <= Len(themed) + 1
      <4>1. CASE kept = <<>>
        BY <1>4, <1>5, <2>7, <4>1
      <4>2. CASE kept # <<>>
        <5>1. themed' = Append(themed, r) /\ r \in Section /\ Grounded(r)
          BY <2>5, <2>7, <4>2
        <5>2. Written(Append(themed, r)) /\ Len(Append(themed, r)) = Len(themed) + 1
          BY <1>4, <5>1, WrittenJoined
        <5> QED BY <1>5, <5>1, <5>2
      <4> QED BY <4>1, <4>2
    <3>2. WriterTyped'
      BY <1>4, <1>5, <1>6, <2>1, <2>2, <2>7, <3>1 DEF WriterTyped
    <3>3. Written(themed)' /\ Written(sections)'
      BY <1>3, <1>4, <2>1, <3>1, <1>1 DEF Written, Grounded
    <3> QED BY <1>1, <1>2, <2>1, <3>2, <3>3 DEF BriefInv
  <2> QED BY <2>3, <2>6, <2>7 DEF kept, r
<1>10. CASE WriteSummary
  <2>1. UNCHANGED <<themed, brief, biblio, turn, tries>> /\ pc' = "weave"
    BY <1>10 DEF WriteSummary
  <2>2. PICK text \in Summaries :
          LET kept == Filter(text, InGraph) IN
          sections' = IF kept = <<>> THEN themed
                      ELSE <<[heading |-> "summary", body |-> kept]>> \o themed
    BY <1>10 DEF WriteSummary
  <2> DEFINE kept == Filter(text, InGraph)
             r == [heading |-> "summary", body |-> kept]
  <2>3. kept \in Texts \cup Summaries /\ \A s \in DOMAIN kept : ToSet(kept[s]) \cap InGraph # {}
    BY FilterFacts
  <2> HIDE DEF kept
  <2>4. kept # <<>> => r \in Section /\ Grounded(r)
    BY <2>3 DEF Section, Body, Grounded, InGraph
  <2> HIDE DEF r
  <2>5. Written(sections') /\ Len(sections') <= Len(themed) + 1
    <3>1. CASE kept = <<>>
      BY <1>4, <1>5, <2>2, <3>1 DEF kept
    <3>2. CASE kept # <<>>
      <4>1. sections' = <<r>> \o themed
        BY <2>2, <3>2 DEF kept, r
      <4>2. Written(<<r>> \o themed) /\ Len(<<r>> \o themed) = Len(themed) + 1
        BY <1>4, <2>4, <3>2, WrittenJoined
      <4> QED BY <1>5, <4>1, <4>2
    <3> QED BY <3>1, <3>2
  <2>6. WriterTyped'
    BY <1>4, <2>1, <2>5 DEF WriterTyped
  <2>7. Written(themed)' /\ Written(sections)'
    BY <1>3, <1>4, <2>1, <2>5, <1>1 DEF Written, Grounded
  <2> QED BY <1>1, <1>2, <2>1, <2>6, <2>7 DEF BriefInv
<1>11. CASE Weave
  <2>1. /\ UNCHANGED <<themed, sections, turn, tries>> /\ pc' = "done"
        /\ biblio' = Bibliography(Tags(sections))
        /\ brief' = Brief(sections, biblio')
    BY <1>11 DEF Weave, Brief
  <2>2. WriterTyped'
    BY <1>4, <2>1 DEF WriterTyped
  <2>3. Written(themed)' /\ Written(sections)'
    BY <1>3, <1>4, <2>1
  <2>4. /\ Bibliography(Tags(sections))' = Bibliography(Tags(sections))
        /\ Brief(sections, biblio)' = Brief(sections, biblio')
    <3>1. InGraph' = InGraph
      BY <1>1 DEF InGraph
    <3> QED BY <2>1, <3>1 DEF Bibliography, Assign, Brief, Woven
  <2> QED BY <1>1, <1>2, <2>1, <2>2, <2>3, <2>4 DEF BriefInv
<1> QED
  BY <1>7, <1>8, <1>9, <1>10, <1>11 DEF Write

\* The service handles claims only, and judges with the words there are.
LEMMA TypedStep ==
  ASSUME GraphTyped, Fetch \/ Cluster \/ Lost \/ (\E g \in groups : Judge(g)) \/ Answer
  PROVE  GraphTyped'
<1>1. CASE Fetch
  BY <1>1 DEF Fetch, GraphTyped, vars
<1>2. CASE Cluster
  BY <1>2 DEF Cluster, Partitions, GraphTyped, vars
<1>3. CASE Lost
  BY <1>3, NoGraph DEF Lost, AskAgain, GraphTyped, vars, SynthesizeRetries
<1>4. CASE Answer
  BY <1>4, NoGraph DEF Answer, Begin, GraphTyped, SynthesizeRetries
<1>5. ASSUME NEW g \in groups, Judge(g) PROVE GraphTyped'
  <2>1. /\ groups' \subseteq SUBSET Claims /\ UNCHANGED <<polarity, asked>> /\ g \in SUBSET Claims
    BY <1>5 DEF Judge, GraphTyped, vars
  <2>2. \E word \in Polarities : judged' = With(judged, g, word)
    BY <1>5 DEF Judge, Valid, Polarities, Order, ToSet
  <2>3. DOMAIN judged' \subseteq SUBSET Claims /\ \A h \in DOMAIN judged' : judged'[h] \in Polarities
    BY <2>1, <2>2 DEF With, GraphTyped
  <2>4. DOMAIN said' \subseteq SUBSET Claims
    <3>1. UNCHANGED said \/ \E word : said' = With(said, g, word)
      BY <1>5 DEF Judge
    <3> QED BY <2>1, <3>1 DEF With, GraphTyped
  <2> QED BY <2>1, <2>3, <2>4 DEF GraphTyped
<1> QED BY <1>1, <1>2, <1>3, <1>4, <1>5

\* So does every other step, for it leaves the texts alone or there is none yet.
LEMMA BriefStep ==
  ASSUME BriefInv, [SynthesisNext]_synthesisVars
  PROVE  BriefInv'
<1>1. GraphInv'
  BY GraphStep DEF BriefInv
<1>2. CASE Write /\ UNCHANGED synthesis
  BY <1>2, WriteStep
<1>3. CASE Answer
  <2>1. /\ UNCHANGED <<themed, sections, brief, biblio, turn, tries>>
        /\ pc' = "section" /\ at = "judge" /\ pc = "graph"
    BY <1>3 DEF Answer, Begin
  <2>2. themed = <<>> /\ sections = <<>> /\ brief = <<>> /\ biblio = <<>>
    BY <2>1 DEF BriefInv, GraphInv
  <2>3. Written(themed)' /\ Written(sections)'
    BY <2>1, <2>2, NoneWritten, NoGraph, EmptySeq DEF Written
  <2>4. GraphTyped'
    BY <1>3, TypedStep DEF BriefInv
  <2>5. WriterTyped'
    BY <2>1 DEF BriefInv, WriterTyped
  <2> QED
    BY <1>1, <2>1, <2>2, <2>3, <2>4, <2>5 DEF BriefInv
<1>4. CASE Fetch \/ Cluster \/ Lost \/ (\E g \in groups : Judge(g))
  <2>1. /\ UNCHANGED <<polarity, themed, sections, brief, biblio, turn, tries>>
        /\ pc' \in {pc, "failed"}
        /\ at # "idle"
    BY <1>4 DEF Fetch, Cluster, Lost, Judge, vars
  <2>2. Written(themed)' /\ Written(sections)'
    BY <2>1, WrittenKept DEF BriefInv
  <2>3. GraphTyped'
    BY <1>4, TypedStep DEF BriefInv
  <2>4. WriterTyped'
    BY <2>1 DEF BriefInv, WriterTyped
  <2>5. pc # "done" /\ themed = <<>> /\ sections = <<>>
    BY <2>1 DEF BriefInv, GraphInv
  <2> QED BY <1>1, <2>1, <2>2, <2>3, <2>4, <2>5 DEF BriefInv
<1>5. CASE UNCHANGED synthesisVars
  <2>1. UNCHANGED <<polarity, themed, sections, brief, biblio, turn, tries, pc, at, judged, said, groups, asked>>
    BY <1>5 DEF synthesisVars, synthesis, vars
  <2>2. Written(themed)' /\ Written(sections)'
    BY <2>1, WrittenKept DEF BriefInv
  <2>3. /\ Bibliography(Tags(sections))' = Bibliography(Tags(sections))
        /\ Brief(sections, biblio)' = Brief(sections, biblio)
    <3>1. InGraph' = InGraph
      BY <2>1 DEF InGraph
    <3> QED BY <2>1, <3>1 DEF Bibliography, Assign, Brief, Woven
  <2>4. GraphTyped' /\ WriterTyped'
    BY <2>1 DEF BriefInv, GraphTyped, WriterTyped
  <2> QED BY <1>1, <2>1, <2>2, <2>3, <2>4 DEF BriefInv
<1> QED
  BY <1>2, <1>3, <1>4, <1>5 DEF SynthesisNext

LEMMA BriefInit == SynthesisInit => BriefInv
<1> SUFFICES ASSUME SynthesisInit PROVE BriefInv
  OBVIOUS
<1>1. GraphInv /\ GraphTyped
  BY GraphInit, NoGraph DEF SynthesisInit, Init, GraphTyped, SynthesizeRetries
<1>2. WriterTyped
  BY DEF SynthesisInit, Init, WriterTyped, Order
<1> QED BY <1>1, <1>2, NoneWritten DEF SynthesisInit, Init, BriefInv

LEMMA BriefCorrect == SynthesisSpec => []BriefInv
  BY BriefInit, BriefStep, PTL DEF SynthesisSpec

\* What the invariant says of a woven sentence: its numbers are those of the claims
\* cited in it, and the bibliography maps them back.
LEMMA SentenceFacts ==
  ASSUME BriefInv, NEW k \in DOMAIN brief, NEW s \in DOMAIN brief[k].body
  PROVE  LET cited == Select(sections[k].body[s], InGraph) IN
         /\ k \in DOMAIN sections /\ s \in DOMAIN sections[k].body
         /\ brief[k].heading = sections[k].heading
         /\ sections[k] \in Section /\ Grounded(sections[k])
         /\ cited \in Seq(Tag)
         /\ ToSet(cited) = ToSet(sections[k].body[s]) \cap InGraph
         /\ brief[k].body[s] = [i \in DOMAIN cited |-> Number(biblio, cited[i])]
         /\ \A i \in DOMAIN cited :
              Number(biblio, cited[i]) \in DOMAIN biblio /\ biblio[Number(biblio, cited[i])] = cited[i]
<1>1. pc = "done" /\ brief = Brief(sections, biblio) /\ biblio = Bibliography(Tags(sections))
  BY NoGraph DEF BriefInv
<1>2. /\ k \in DOMAIN sections /\ s \in DOMAIN sections[k].body
      /\ brief[k].heading = sections[k].heading
      /\ brief[k].body[s] = Woven(sections[k].body[s], biblio)
  BY <1>1 DEF Brief
<1>3. sections \in Seq(Section) /\ sections[k] \in Section /\ Grounded(sections[k])
  <2>1. sections \in Seq(Section) /\ \A j \in DOMAIN sections : Grounded(sections[j])
    BY DEF BriefInv, Written
  <2> HIDE DEF Section
  <2> QED BY <1>2, <2>1
<1>4. \A j \in DOMAIN sections : sections[j].body \in Seq(Seq(Tag))
  <2>1. \A r \in Section : r.body \in Seq(Seq(Tag))
    BY BodyFacts DEF Section
  <2> HIDE DEF Section
  <2> QED BY <1>3, <2>1
<1> DEFINE sentence == sections[k].body[s]
           cited == Select(sentence, InGraph)
<1>5. sentence \in Seq(Tag)
  <2>1. sections[k].body \in Seq(Seq(Tag))
    BY <1>2, <1>4
  <2> QED BY <1>2, <2>1
<1>6. cited \in Seq(Tag) /\ ToSet(cited) = ToSet(sentence) \cap InGraph
  <2> HIDE DEF sentence
  <2> QED BY <1>5, SelectFacts
<1>7. Tags(sections) \in Seq(Tag) /\ ToSet(sentence) \subseteq ToSet(Tags(sections))
  BY <1>2, <1>3, <1>4, TagsFacts
<1>8. biblio \in Seq(Tag) /\ ToSet(biblio) = ToSet(Tags(sections)) \cap InGraph
  BY <1>1, <1>7, BibliographyFacts
<1>9. brief[k].body[s] = [i \in DOMAIN cited |-> Number(biblio, cited[i])]
  BY <1>2 DEF Woven
<1>10. ASSUME NEW i \in DOMAIN cited
       PROVE  Number(biblio, cited[i]) \in DOMAIN biblio /\ biblio[Number(biblio, cited[i])] = cited[i]
  <2>1. cited[i] \in ToSet(biblio)
    <3> HIDE DEF cited, sentence
    <3>1. cited[i] \in ToSet(cited)
      BY <1>10 DEF ToSet
    <3> QED BY <3>1, <1>6, <1>7, <1>8
  <2> HIDE DEF cited
  <2> QED BY <1>8, <2>1, NumberFacts
<1> QED BY <1>2, <1>3, <1>6, <1>9, <1>10

\* Some reference of a sentence leads to a claim of a cluster its section is about.
LEMMA GroundedReference ==
  ASSUME BriefInv, NEW k \in DOMAIN brief, NEW s \in DOMAIN brief[k].body
  PROVE  \E n \in ToSet(brief[k].body[s]) : \E g \in DOMAIN polarity :
           /\ n \in DOMAIN biblio /\ biblio[n] \in g
           /\ brief[k].heading \in {"summary", polarity[g]}
<1> DEFINE sentence == sections[k].body[s]
           cited == Select(sentence, InGraph)
<1>1. PICK id \in ToSet(sentence), g \in DOMAIN polarity :
        id \in g /\ brief[k].heading \in {"summary", polarity[g]}
  <2>1. Grounded(sections[k]) /\ s \in DOMAIN sections[k].body /\ brief[k].heading = sections[k].heading
    BY SentenceFacts
  <2> QED BY <2>1 DEF Grounded
<1>2. ToSet(cited) = ToSet(sentence) \cap InGraph
      /\ brief[k].body[s] = [i \in DOMAIN cited |-> Number(biblio, cited[i])]
      /\ \A i \in DOMAIN cited :
           Number(biblio, cited[i]) \in DOMAIN biblio /\ biblio[Number(biblio, cited[i])] = cited[i]
  BY SentenceFacts
<1>3. id \in InGraph
  BY <1>1 DEF InGraph
<1> HIDE DEF sentence, cited
<1>4. PICK i \in DOMAIN cited : cited[i] = id
  <2>1. id \in ToSet(cited)
    BY <1>1, <1>2, <1>3
  <2> QED BY <2>1 DEF ToSet
<1>5. Number(biblio, cited[i]) \in ToSet(brief[k].body[s])
  BY <1>2 DEF ToSet
<1> QED BY <1>1, <1>2, <1>4, <1>5

\* README "zero hallucination": every sentence of every brief carries a reference to
\* a claim of the graph, whose clusters all are what its section is about, for any
\* graph, anything the writer writes and any bounds on it.
THEOREM SourcedCorrect == SynthesisSpec => []Sourced
<1>1. ASSUME BriefInv PROVE Sourced
  <2> SUFFICES ASSUME NEW k \in DOMAIN brief, NEW s \in DOMAIN brief[k].body
               PROVE  \E n \in ToSet(brief[k].body[s]) :
                        /\ n \in DOMAIN biblio /\ biblio[n] \in InGraph
                        /\ \A g \in DOMAIN polarity :
                             biblio[n] \in g => brief[k].heading \in {"summary", polarity[g]}
    BY DEF Sourced
  <2>1. PICK n \in ToSet(brief[k].body[s]), g \in DOMAIN polarity :
          /\ n \in DOMAIN biblio /\ biblio[n] \in g
          /\ brief[k].heading \in {"summary", polarity[g]}
    BY <1>1, GroundedReference
  <2>2. \A h \in DOMAIN polarity : biblio[n] \in h => h = g
    BY <1>1, <2>1 DEF BriefInv, GraphInv, Apart
  <2> QED BY <2>1, <2>2 DEF InGraph
<1> QED BY <1>1, BriefCorrect, PTL

\* Nothing is renumbered, shifted or swapped: each number of a woven sentence leads
\* to the claim the writer cited there, sentence for sentence, for any texts.
THEOREM ReferencesCorrect == SynthesisSpec => []ReferencesKept
<1>1. ASSUME BriefInv PROVE ReferencesKept
  <2> SUFFICES ASSUME NEW k \in DOMAIN brief, NEW s \in DOMAIN brief[k].body
               PROVE  LET numbers == brief[k].body[s]
                          cited   == Select(sections[k].body[s], InGraph)
                      IN  /\ Len(numbers) = Len(cited)
                          /\ \A i \in DOMAIN numbers :
                               numbers[i] \in DOMAIN biblio /\ biblio[numbers[i]] = cited[i]
    BY DEF ReferencesKept
  <2> DEFINE cited == Select(sections[k].body[s], InGraph)
  <2>1. /\ cited \in Seq(Tag)
        /\ brief[k].body[s] = [i \in DOMAIN cited |-> Number(biblio, cited[i])]
        /\ \A i \in DOMAIN cited :
             Number(biblio, cited[i]) \in DOMAIN biblio /\ biblio[Number(biblio, cited[i])] = cited[i]
    BY <1>1, SentenceFacts
  <2> HIDE DEF cited
  <2>2. Len(brief[k].body[s]) = Len(cited)
    BY <2>1
  <2> QED BY <2>1, <2>2 DEF cited
<1> QED BY <1>1, BriefCorrect, PTL

\* weaver.ts:3: read from the top, the references of a brief of any length count up
\* from 1 without gaps, and the bibliography has an entry for each, no claim twice.
THEOREM NumberingCorrect == SynthesisSpec => []FirstAppearance
<1>1. ASSUME BriefInv PROVE FirstAppearance
  <2> SUFFICES ASSUME pc = "done"
               PROVE  LET refs == Tags(brief) IN
                      /\ \A i \in DOMAIN refs :
                           refs[i] \in 1 .. 1 + Cardinality({refs[j] : j \in 1 .. i - 1})
                      /\ ToSet(refs) = DOMAIN biblio
                      /\ IsInjective(biblio)
    BY DEF FirstAppearance
  <2>1. brief = Brief(sections, biblio) /\ biblio = Bibliography(Tags(sections))
    BY <1>1 DEF BriefInv
  <2>2. sections \in Seq(Section)
    BY <1>1 DEF BriefInv, Written
  <2>3. \A j \in DOMAIN sections : sections[j].body \in Seq(Seq(Tag))
    <3>1. \A r \in Section : r.body \in Seq(Seq(Tag))
      BY BodyFacts DEF Section
    <3> HIDE DEF Section
    <3> QED BY <2>2, <3>1
  <2>4. Tags(sections) \in Seq(Tag)
    BY <2>2, <2>3, TagsFacts
  <2>5. /\ biblio \in Seq(Tag) /\ IsInjective(biblio)
        /\ ToSet(Woven(Tags(sections), biblio)) = 1 .. Len(biblio)
        /\ CountsUp(Woven(Tags(sections), biblio))
    BY <2>1, <2>4, BibliographyFacts
  <2>6. Tags(brief) = Woven(Tags(sections), biblio)
    <3>1. DOMAIN brief = DOMAIN sections
      BY <2>1 DEF Brief
    <3>2. \A k \in DOMAIN sections :
            brief[k].body = [s \in DOMAIN sections[k].body |-> Woven(sections[k].body[s], biblio)]
      BY <2>1 DEF Brief
    <3>3. \E S : sections \in Seq(S)
      BY <2>2
    <3> QED BY <2>3, <2>5, <3>1, <3>2, <3>3, TagsWoven
  <2>7. DOMAIN biblio = 1 .. Len(biblio)
    BY <2>5
  <2> QED BY <2>5, <2>6, <2>7 DEF CountsUp
<1> QED BY <1>1, BriefCorrect, PTL

\* polarity.py:149, "never fabricate consensus": every sentence under the consensus or
\* the conflicts of any brief cites a finding of a cluster of several, of which the
\* model said so in the attempt that counts.
THEOREM NothingFabricatedCorrect == SynthesisSpec => []NothingFabricated
<1>1. ASSUME BriefInv PROVE NothingFabricated
  <2> SUFFICES ASSUME NEW k \in DOMAIN brief, brief[k].heading \in Verdicts,
                      NEW s \in DOMAIN brief[k].body
               PROVE  \E n \in ToSet(brief[k].body[s]) : \E g \in DOMAIN said :
                        biblio[n] \in g /\ g # {biblio[n]} /\ said[g] = brief[k].heading
    BY DEF NothingFabricated, Verdicts
  <2>1. PICK n \in ToSet(brief[k].body[s]), g \in DOMAIN polarity :
          /\ n \in DOMAIN biblio /\ biblio[n] \in g
          /\ brief[k].heading \in {"summary", polarity[g]}
    BY <1>1, GroundedReference
  <2>2. polarity[g] = brief[k].heading
    BY <2>1 DEF Verdicts
  <2>3. Cardinality(g) >= MinClusterSize /\ g \in DOMAIN said /\ said[g] = brief[k].heading
    BY <1>1, <2>2 DEF BriefInv, GraphInv, Judged
  <2>4. g # {biblio[n]}
    <3>1. Cardinality({biblio[n]}) = 1
      BY FS_Singleton
    <3> QED BY <2>3, <3>1 DEF MinClusterSize
  <2> QED BY <2>1, <2>3, <2>4
<1> QED BY <1>1, BriefCorrect, PTL

\* A brief speaks of consensus, or of conflicts, only where the model did, of a
\* cluster of at least two findings in the graph the brief was written from.
THEOREM EarnedCorrect == SynthesisSpec => []Earned
<1>1. ASSUME BriefInv PROVE Earned
  <2> SUFFICES ASSUME NEW k \in DOMAIN brief, brief[k].heading \in Verdicts
               PROVE  \E g \in DOMAIN said :
                        Cardinality(g) >= MinClusterSize /\ said[g] = brief[k].heading
    BY DEF Earned
  <2>1. brief = Brief(sections, biblio) /\ k \in DOMAIN sections
    BY <1>1, NoGraph DEF BriefInv, Brief
  <2>2. sections[k] \in Section /\ brief[k].heading = sections[k].heading
        /\ DOMAIN brief[k].body = DOMAIN sections[k].body
    <3>1. sections \in Seq(Section)
      BY <1>1 DEF BriefInv, Written
    <3>2. sections[k] \in Section
      <4> HIDE DEF Section
      <4> QED BY <2>1, <3>1
    <3> QED BY <2>1, <3>2 DEF Brief
  <2>3. 1 \in DOMAIN brief[k].body
    <3>1. sections[k].body \in Seq(Seq(Tag)) /\ sections[k].body # <<>>
      BY <2>2, BodyFacts DEF Section, Body
    <3> QED BY <2>2, <3>1
  <2>4. PICK g \in DOMAIN polarity : brief[k].heading \in {"summary", polarity[g]}
    BY <1>1, <2>3, GroundedReference
  <2>5. polarity[g] = brief[k].heading
    BY <2>4 DEF Verdicts
  <2> QED BY <1>1, <2>5 DEF BriefInv, GraphInv, Judged
<1> QED BY <1>1, BriefCorrect, PTL

\* The types, for any claims and bounds: in particular no more than three themed
\* sections, and a bibliography of claims of the graph.
THEOREM SynthesisTypeCorrect == SynthesisSpec => []SynthesisTypeOK
<1>1. ASSUME BriefInv PROVE SynthesisTypeOK
  <2>1. themed \in Seq(Section) /\ sections \in Seq(Section) /\ GraphTyped /\ WriterTyped
    BY <1>1 DEF BriefInv, Written
  <2>2. \A r \in Section : r.body \in Texts \cup Summaries /\ r.body # <<>>
    BY DEF Section, Body
  <2>3. \A r \in ToSet(themed \o sections) : r.body \in Texts \cup Summaries /\ r.body # <<>>
    <3> HIDE DEF Section
    <3>1. themed \o sections \in Seq(Section)
      BY <2>1
    <3> QED BY <2>2, <3>1 DEF ToSet
  <2>4. Len(themed) <= 3 /\ Len(sections) <= 4
    <3>1. Len(themed) \in Nat /\ Len(sections) \in Nat
      BY <2>1
    <3> QED BY <2>1, <3>1 DEF WriterTyped, Order
  <2>5. Len(brief) = (IF pc = "done" THEN Len(sections) ELSE 0) /\ biblio \in Seq(InGraph)
    <3>1. CASE pc = "done"
      <4>1. brief = Brief(sections, biblio) /\ biblio = Bibliography(Tags(sections))
        BY <1>1, <3>1 DEF BriefInv
      <4>2. \A j \in DOMAIN sections : sections[j].body \in Seq(Seq(Tag))
        <5>1. \A r \in Section : r.body \in Seq(Seq(Tag))
          BY BodyFacts DEF Section
        <5> HIDE DEF Section
        <5> QED BY <2>1, <5>1
      <4>3. Tags(sections) \in Seq(Tag)
        BY <2>1, <4>2, TagsFacts
      <4>4. biblio \in Seq(Tag) /\ ToSet(biblio) \subseteq InGraph
        BY <4>1, <4>3, BibliographyFacts
      <4>5. biblio \in Seq(InGraph)
        <5>1. \A i \in 1 .. Len(biblio) : biblio[i] \in InGraph
          BY <4>4 DEF ToSet
        <5> QED BY <4>4, <5>1
      <4>6. Len(brief) = Len(sections)
        <5>1. DOMAIN brief = 1 .. Len(sections) /\ Len(sections) \in Nat
              /\ brief = [k \in 1 .. Len(sections) |-> brief[k]]
          BY <2>1, <4>1 DEF Brief
        <5> QED BY <5>1
      <4> QED BY <3>1, <4>5, <4>6
    <3>2. CASE pc # "done"
      BY <1>1, <3>2, EmptySeq DEF BriefInv
    <3> QED BY <3>1, <3>2
  <2>6. TypeOK
    BY <2>1, <2>3, <2>4, <2>5 DEF TypeOK, GraphTyped, WriterTyped
  <2>7. at \in {"fetch", "cluster", "judge", "idle"}
    BY <1>1 DEF BriefInv, GraphInv
  <2> QED BY <2>1, <2>6, <2>7 DEF SynthesisTypeOK, GraphTyped
<1> QED BY <1>1, BriefCorrect, PTL
=============================================================================
