----------------------- MODULE ResilientFetch_proofs -----------------------
(***************************************************************************)
(* Proofs about ResilientFetch and LlmFailover, for every number of        *)
(* retries, timeout, delay, header and lag: the time a call may take, what *)
(* its outcome is about, and when it may send a request; and for every     *)
(* list of language models the time of a completion, and that it fails     *)
(* only when all of them do.                                               *)
(***************************************************************************)
EXTENDS LlmFailover, TLAPS

(***************************************************************************)
(* The longest one attempt and the sleep after it take together.           *)
(***************************************************************************)
Round == AttemptTime + SleepTime

\* Where the timers stand: the attempts before this one took at most a Round
\* each, and a pending timer is at most Lag overdue.
TimeInv ==
  /\ pc = "called" => attempt = 0 /\ clock = 0
  /\ pc = "request" =>
       due <= attempt * Round + TimeoutMs /\ clock <= due + Lag
  /\ pc = "sleep" =>
       /\ due <= attempt * Round + AttemptTime + MaxDelayMs
       /\ clock <= due + Lag
  /\ Settled => Bounded

\* What the call knows of its latest attempt.
AttemptInv ==
  /\ pc = "called" => sent = 0
  /\ pc \in {"request", "sleep"} => sent = attempt + 1 /\ ~aborted
  /\ pc = "request" => answer = "none" /\ asked = Null
  /\ pc = "sleep" =>
       /\ attempt < Retries
       /\ answer \in {"none", "retryable"}
       /\ asked # Null => due - ended >= Smaller(asked, MaxDelayMs)
       /\ asked = Null => due - ended \in Backoff(attempt)
  /\ OutcomeIsLast

IInv == TypeOK /\ AttemptInv /\ TimeInv

\* What a step of time is worth.
LEMMA Rounds ==
  ASSUME NEW r \in Nat, NEW a \in Nat, NEW k \in Nat, a < r
  PROVE  /\ (a + 1) * k = a * k + k
         /\ (a + 1) * k <= r * k
         /\ a * k \in Nat /\ r * k \in Nat
<1>1. (a + 1) * k = a * k + k /\ a * k \in Nat /\ r * k \in Nat
  OBVIOUS
<1>2. (r - (a + 1)) * k >= 0
  OBVIOUS
<1>3. (r - (a + 1)) * k = r * k - (a + 1) * k
  OBVIOUS
<1> QED
  BY <1>1, <1>2, <1>3

LEMMA RoundType == Round \in Nat /\ AttemptTime \in Nat /\ SleepTime \in Nat
  BY ParameterAssumption DEF Round, AttemptTime, SleepTime

LEMMA BackoffType ==
  ASSUME NEW n, NEW d \in Backoff(n)
  PROVE  d \in Nat /\ d <= MaxDelayMs
  BY ParameterAssumption DEF Backoff

LEMMA ParseType ==
  ASSUME NEW header \in Headers \cup {NoHeader}, NEW now \in Nat
  PROVE  ParseRetryAfter(header, now) \in Nat \cup {Null}
<1>1. header.form \in {"seconds", "date", "none"} /\ header.at \in Int
  BY ParameterAssumption DEF NoHeader
<1>2. header.at * Second \in Int /\ header.at - now \in Int
  BY <1>1, ParameterAssumption
<1> QED
  BY <1>1, <1>2 DEF ParseRetryAfter, AtLeastZero, Null

\* The delay taken after a retryable status.
LEMMA RetryDelayType ==
  ASSUME NEW r \in Nat \cup {Null}, NEW d \in RetryDelays(r)
  PROVE  /\ d \in Nat /\ d <= MaxDelayMs
         /\ r # Null => d >= Smaller(r, MaxDelayMs)
         /\ r = Null => d \in Backoff(attempt)
<1>1. CASE r = Null
  BY <1>1, BackoffType DEF RetryDelays
<1>2. CASE r # Null
  BY <1>2, ParameterAssumption DEF RetryDelays, Smaller, Null
<1> QED
  BY <1>1, <1>2

LEMMA InitIInv == Init => IInv
<1> SUFFICES ASSUME Init PROVE IInv
  OBVIOUS
<1>1. TypeOK
  <2>1. 0 \in 0..Retries /\ 0 \in 0..(Retries + 1)
    BY ParameterAssumption
  <2> QED
    BY <2>1 DEF Init, TypeOK
<1>2. AttemptInv
  BY DEF Init, AttemptInv, OutcomeIsLast
<1>3. TimeInv
  BY DEF Init, TimeInv, Settled
<1> QED
  BY <1>1, <1>2, <1>3 DEF IInv

\* The top of the loop, entered in time.
LEMMA AttemptStep ==
  ASSUME IInv, NEW n \in 0..Retries, Attempt(n),
         \/ pc = "called" /\ n = 0
         \/ pc = "sleep" /\ n = attempt + 1 /\ clock <= n * Round
  PROVE  IInv'
<1> USE DEF IInv
<1>a. clock <= n * Round
  BY RoundType DEF TimeInv
<1>b. n * Round \in Nat /\ clock \in Nat /\ n * Round <= Retries * Round
  <2>1. n \in Nat /\ Retries \in Nat /\ (n < Retries \/ n = Retries)
    BY ParameterAssumption
  <2>2. CASE n = Retries
    BY <2>1, <2>2, RoundType DEF TypeOK
  <2>3. CASE n < Retries
    <3>1. (n + 1) * Round = n * Round + Round /\ (n + 1) * Round <= Retries * Round
          /\ n * Round \in Nat /\ Retries * Round \in Nat
      BY <2>1, <2>3, RoundType, Rounds
    <3> QED
      BY <3>1, RoundType DEF TypeOK
  <2> QED
    BY <2>1, <2>2, <2>3
<1>1. TypeOK'
  BY ParameterAssumption DEF TypeOK, Attempt, Null, AttemptInv
<1>2. AttemptInv'
  BY ParameterAssumption DEF TypeOK, Attempt, AttemptInv, OutcomeIsLast
<1>3. TimeInv'
  <2>1. CASE aborted
    BY <2>1, <1>a, <1>b, RoundType, ParameterAssumption
    DEF TimeInv, Attempt, Settled, Bounded, Round
  <2>2. CASE ~aborted
    <3>1. pc' = "request" /\ due' = clock + TimeoutMs /\ clock' = clock /\ attempt' = n
      BY <2>2 DEF Attempt
    <3>2. clock + TimeoutMs <= n * Round + TimeoutMs
          /\ clock <= clock + TimeoutMs + Lag
      BY <1>a, <1>b, ParameterAssumption
    <3> QED
      BY <3>1, <3>2 DEF TimeInv, Settled
  <2> QED
    BY <2>1, <2>2
<1> QED
  BY <1>1, <1>2, <1>3

\* While an attempt is pending the call is within its bound.
LEMMA InTime ==
  ASSUME IInv, pc \in {"request", "sleep"}
  PROVE  /\ attempt * Round \in Nat
         /\ Bounded
         /\ pc = "request" => clock <= attempt * Round + AttemptTime
         /\ pc = "sleep" => clock <= (attempt + 1) * Round
<1> USE DEF IInv
<1>1. attempt \in Nat /\ Retries \in Nat /\ clock \in Nat /\ due \in Nat
      /\ attempt <= Retries
  BY ParameterAssumption DEF TypeOK
<1>2. attempt * Round \in Nat /\ Retries * Round \in Nat
  BY <1>1, RoundType
<1>3. attempt < Retries =>
        /\ (attempt + 1) * Round = attempt * Round + Round
        /\ (attempt + 1) * Round <= Retries * Round
  BY <1>1, RoundType, Rounds
<1>4. attempt * Round <= Retries * Round
  <2>1. CASE attempt = Retries
    BY <2>1, <1>2
  <2>2. CASE attempt < Retries
    BY <2>2, <1>1, <1>2, <1>3, RoundType
  <2> QED
    BY <2>1, <2>2, <1>1
<1>5. CASE pc = "request"
  <2>1. clock <= attempt * Round + AttemptTime
    BY <1>5, <1>1, <1>2, ParameterAssumption DEF TimeInv, AttemptTime
  <2> QED
    BY <2>1, <1>1, <1>2, <1>4, <1>5, RoundType DEF Bounded, Round
<1>6. CASE pc = "sleep"
  <2>1. clock <= attempt * Round + Round
    BY <1>6, <1>1, <1>2, RoundType, ParameterAssumption
    DEF TimeInv, Round, SleepTime
  <2>2. attempt < Retries
    BY <1>6 DEF AttemptInv
  <2> QED
    BY <2>1, <2>2, <1>1, <1>2, <1>3, <1>6, RoundType DEF Bounded, Round
<1> QED
  BY <1>5, <1>6

LEMMA RespondStep ==
  ASSUME IInv, NEW status \in {"ok", "final", "retryable"},
         NEW header \in Headers \cup {NoHeader}, Respond(status, header)
  PROVE  IInv'
<1> USE DEF IInv
<1> DEFINE retryAfter == ParseRetryAfter(header, clock)
<1>0. pc = "request" /\ clock \in Nat /\ attempt \in 0..Retries
      /\ sent = attempt + 1 /\ ~aborted
  BY DEF Respond, TypeOK, AttemptInv
<1>r. retryAfter \in Nat \cup {Null}
  BY <1>0, ParseType
<1> HIDE DEF retryAfter
<1>t. attempt * Round \in Nat /\ Bounded /\ clock <= attempt * Round + AttemptTime
  BY <1>0, InTime
<1>1. CASE status = "retryable" /\ attempt # Retries
  <2>1. PICK delay \in RetryDelays(retryAfter) :
          /\ pc' = "sleep" /\ due' = clock + delay /\ asked' = retryAfter
          /\ answer' = status /\ ended' = clock
          /\ UNCHANGED <<attempt, aborted, lastError, sent, clock>>
    BY <1>1 DEF Respond, retryAfter
  <2>2. /\ delay \in Nat /\ delay <= MaxDelayMs
        /\ retryAfter # Null => delay >= Smaller(retryAfter, MaxDelayMs)
        /\ retryAfter = Null => delay \in Backoff(attempt)
    BY <1>r, RetryDelayType
  <2>3. TypeOK'
    BY <1>0, <1>1, <1>r, <2>1, <2>2 DEF TypeOK
  <2>4. (clock + delay) - clock = delay /\ attempt < Retries
    BY <1>0, <1>1, <2>2, ParameterAssumption
  <2>5. AttemptInv'
    BY <1>0, <1>1, <2>1, <2>2, <2>4 DEF AttemptInv, OutcomeIsLast
  <2>6. clock + delay <= attempt * Round + AttemptTime + MaxDelayMs
        /\ clock <= clock + delay + Lag
    BY <1>0, <1>t, <2>2, RoundType, ParameterAssumption
  <2>7. TimeInv'
    BY <2>1, <2>6 DEF TimeInv, Settled
  <2> QED
    BY <2>3, <2>5, <2>7
<1>2. CASE ~(status = "retryable" /\ attempt # Retries)
  <2>1. /\ pc' = "returned" /\ answer' = status /\ ended' = clock
        /\ UNCHANGED <<attempt, aborted, lastError, sent, clock, due, asked>>
    BY <1>2 DEF Respond
  <2>2. TypeOK'
    BY <1>0, <2>1 DEF TypeOK
  <2>3. AttemptInv'
    BY <1>0, <1>2, <2>1 DEF AttemptInv, OutcomeIsLast
  <2>4. TimeInv'
    BY <1>t, <2>1 DEF TimeInv, Bounded
  <2> QED
    BY <2>2, <2>3, <2>4
<1> QED
  BY <1>1, <1>2

LEMMA LoseStep ==
  ASSUME IInv, pc = "request", NEW error \in {"network", "timeout"}, Lose(error)
  PROVE  IInv'
<1> USE DEF IInv
<1>0. /\ clock \in Nat /\ attempt \in 0..Retries /\ sent = attempt + 1 /\ ~aborted
      /\ answer = "none" /\ asked = Null
  BY DEF TypeOK, AttemptInv
<1>t. attempt * Round \in Nat /\ Bounded /\ clock <= attempt * Round + AttemptTime
  BY InTime
<1>1. CASE attempt # Retries
  <2>1. PICK delay \in Backoff(attempt) :
          /\ pc' = "sleep" /\ due' = clock + delay /\ lastError' = error /\ ended' = clock
          /\ UNCHANGED <<attempt, aborted, answer, sent, clock, asked>>
    BY <1>1 DEF Lose
  <2>2. delay \in Nat /\ delay <= MaxDelayMs
    BY BackoffType
  <2>3. TypeOK'
    BY <1>0, <2>1, <2>2 DEF TypeOK
  <2>4. (clock + delay) - clock = delay /\ attempt < Retries
    BY <1>0, <1>1, <2>2, ParameterAssumption
  <2>5. AttemptInv'
    BY <1>0, <1>1, <2>1, <2>2, <2>4 DEF AttemptInv, OutcomeIsLast
  <2>6. clock + delay <= attempt * Round + AttemptTime + MaxDelayMs
        /\ clock <= clock + delay + Lag
    BY <1>0, <1>t, <2>2, RoundType, ParameterAssumption
  <2>7. TimeInv'
    BY <2>1, <2>6 DEF TimeInv, Settled
  <2> QED
    BY <2>3, <2>5, <2>7
<1>2. CASE attempt = Retries
  <2>1. /\ pc' = "threw" /\ lastError' = error /\ ended' = clock
        /\ UNCHANGED <<attempt, aborted, answer, sent, clock, asked, due>>
    BY <1>2 DEF Lose
  <2>2. TypeOK'
    BY <1>0, <2>1 DEF TypeOK
  <2>3. AttemptInv'
    BY <1>0, <1>2, <2>1 DEF AttemptInv, OutcomeIsLast
  <2>4. TimeInv'
    BY <1>t, <2>1 DEF TimeInv, Bounded
  <2> QED
    BY <2>2, <2>3, <2>4
<1> QED
  BY <1>1, <1>2

LEMMA WakeUpStep == ASSUME IInv, WakeUp PROVE IInv'
<1>1. pc = "sleep" /\ attempt < Retries /\ attempt \in 0..Retries
  BY DEF WakeUp, IInv, AttemptInv, TypeOK
<1>2. clock <= (attempt + 1) * Round
  BY <1>1, InTime
<1>3. attempt + 1 \in 0..Retries
  BY <1>1, ParameterAssumption
<1> QED
  BY <1>1, <1>2, <1>3, AttemptStep DEF WakeUp

LEMMA AbortStep == ASSUME IInv, Abort PROVE IInv'
<1> USE DEF IInv
<1>1. TypeOK'
  BY DEF TypeOK, Abort
<1>2. AttemptInv'
  BY DEF AttemptInv, Abort, OutcomeIsLast
<1>3. TimeInv'
  <2>1. CASE pc \in {"request", "sleep"}
    BY <2>1, InTime DEF TimeInv, Abort, Bounded, Settled
  <2>2. CASE pc \notin {"request", "sleep"}
    BY <2>2 DEF TimeInv, Abort, Bounded, Settled
  <2> QED
    BY <2>1, <2>2
<1> QED
  BY <1>1, <1>2, <1>3

LEMMA TickStep == ASSUME IInv, Tick PROVE IInv'
<1> USE DEF IInv
<1>0. clock \in Nat /\ due \in Nat /\ due + Lag \in Nat
  BY ParameterAssumption DEF TypeOK
<1>1. clock + 1 \in Nat /\ clock + 1 <= due + Lag
  BY <1>0, ParameterAssumption DEF Tick
<1>2. TypeOK'
  BY <1>1 DEF TypeOK, Tick
<1>3. AttemptInv'
  BY DEF AttemptInv, Tick, OutcomeIsLast
<1>4. TimeInv'
  BY <1>1 DEF TimeInv, Tick, Settled
<1> QED
  BY <1>2, <1>3, <1>4

\* Each step keeps the invariant.
LEMMA StepIInv == ASSUME IInv, [Next]_vars PROVE IInv'
<1>1. CASE Call
  BY <1>1, AttemptStep, ParameterAssumption DEF Call
<1>2. CASE Respond_Any
  BY <1>2, RespondStep DEF Respond_Any
<1>3. CASE Fail
  BY <1>3, LoseStep DEF Fail
<1>4. CASE Expire
  BY <1>4, LoseStep DEF Expire
<1>5. CASE WakeUp
  BY <1>5, WakeUpStep
<1>6. CASE Abort
  BY <1>6, AbortStep
<1>7. CASE Tick
  BY <1>7, TickStep
<1>8. CASE UNCHANGED vars
  BY <1>8 DEF vars, IInv, TypeOK, AttemptInv, TimeInv, OutcomeIsLast, Bounded, Settled
<1> QED
  BY <1>1, <1>2, <1>3, <1>4, <1>5, <1>6, <1>7, <1>8 DEF Next, Finished

\* The inductive invariant holds of every behaviour.
THEOREM Invariance == Spec => []IInv
<1>1. IInv /\ [Next]_vars => IInv'
  BY StepIInv
<1> QED
  BY InitIInv, <1>1, PTL DEF Spec

\* Every variable keeps its type; in particular at most Retries + 1 requests
\* are ever sent.
THEOREM TypeCorrect == Spec => []TypeOK
<1>1. IInv => TypeOK
  BY DEF IInv
<1> QED
  BY Invariance, <1>1, PTL

\* Whatever the call is doing, it is within its bound.
LEMMA BoundedHere == ASSUME IInv PROVE Bounded
<1>1. CASE pc \in {"request", "sleep"}
  BY <1>1, InTime
<1>2. CASE pc = "called"
  <2>1. clock = 0
    BY <1>2 DEF IInv, TimeInv
  <2>2. Retries * (AttemptTime + SleepTime) \in Nat /\ AttemptTime \in Nat
    BY RoundType, ParameterAssumption
  <2> QED
    BY <2>1, <2>2 DEF Bounded
<1>3. CASE Settled
  BY <1>3 DEF IInv, TimeInv
<1> QED
  BY <1>1, <1>2, <1>3 DEF IInv, TypeOK, Settled

\* A call never takes longer than its timeouts and its capped sleeps, whatever
\* the server answers and however many ticks Retry-After asks for.
THEOREM BoundedCorrect == Spec => []Bounded
<1>1. IInv => Bounded
  BY BoundedHere
<1> QED
  BY Invariance, <1>1, PTL

\* The outcome is the last attempt's.
THEOREM OutcomeCorrect == Spec => []OutcomeIsLast
<1>1. IInv => OutcomeIsLast
  BY DEF IInv, AttemptInv
<1> QED
  BY Invariance, <1>1, PTL

\* No step of a call sends a request after an abort.
LEMMA AbortAction == ASSUME [Next]_vars PROVE [aborted => sent' = sent]_vars
  BY DEF Next, Call, Respond_Any, Respond, Fail, Expire, Lose, WakeUp, Attempt, Abort,
         Tick, Finished, vars

\* An abort is final: no request goes out after it.
THEOREM AbortCorrect == Spec => AbortIsFinal
<1>1. [Next]_vars => [aborted => sent' = sent]_vars
  BY AbortAction
<1> QED
  BY <1>1, PTL DEF Spec, AbortIsFinal

\* What a step that sends a retry needs.
Sooner ==
  (sent' > sent /\ pc = "sleep") =>
    /\ answer \in {"none", "retryable"}
    /\ asked # Null => clock - ended >= Smaller(asked, MaxDelayMs)
    /\ asked = Null => \E delay \in Backoff(attempt) : clock - ended >= delay

\* No step of a call sends a retry too soon.
LEMMA PauseAction == ASSUME IInv, [Next]_vars PROVE [Sooner]_vars
<1> SUFFICES ASSUME sent' > sent, pc = "sleep" PROVE Sooner
  BY DEF Sooner
<1>1. sent \in Int /\ due \in Nat /\ clock \in Nat /\ ended \in Nat
  BY ParameterAssumption DEF IInv, TypeOK
<1>2. WakeUp
  BY <1>1 DEF Next, Call, Respond_Any, Respond, Fail, Expire, Lose, Abort, Tick, Finished, vars
<1>3. due <= clock
  BY <1>2 DEF WakeUp
<1>4. /\ answer \in {"none", "retryable"}
      /\ asked # Null => due - ended >= Smaller(asked, MaxDelayMs)
      /\ asked = Null => due - ended \in Backoff(attempt)
  BY DEF IInv, AttemptInv
<1>5. clock - ended >= due - ended
  BY <1>1, <1>3
<1>6. asked # Null => Smaller(asked, MaxDelayMs) \in Int
  BY ParameterAssumption DEF Smaller, IInv, TypeOK
<1> DEFINE low == Smaller(asked, MaxDelayMs)
<1> HIDE DEF low
<1>7. asked # Null => clock - ended >= low
  BY <1>1, <1>4, <1>5, <1>6 DEF low
<1> QED
  BY <1>4, <1>5, <1>7 DEF low, Sooner

\* No retry goes out before the pause the server asked for, or a delay of the
\* backoff, is over.
THEOREM PauseCorrect == Spec => NotTooSoon
<1>1. IInv /\ [Next]_vars => [Sooner]_vars
  BY PauseAction
<1> QED
  BY Invariance, <1>1, PTL DEF Spec, NotTooSoon, Sooner

(***************************************************************************)
(* The completions of a run: the loop over the listed providers.           *)
(***************************************************************************)

\* Who is asking, and who may abort.
ModeInv ==
  /\ llm # "unbuilt" => ~Plain
  /\ Asking => llm = "ready"
  /\ aborted => Plain

\* What the loop has been through: the providers before this turn failed, and
\* took at most CallTime each.
LoopInv ==
  /\ Asking => failed = {Position(i) : i \in 0..(turn - 1)}
  /\ spent <= turn * CallTime
  /\ StallsOnlyIfAll

FInv == IInv /\ FailoverTypeOK /\ ModeInv /\ LoopInv

LEMMA ListType ==
  ASSUME list \in Lists \cup {<<>>}, ~Plain
  PROVE  N \in Nat \ {0}
  BY FailoverAssumption DEF Plain, N

\* The positions go round the list.
LEMMA Wrap ==
  ASSUME NEW n \in Nat \ {0}, NEW f \in Nat, NEW i \in Nat, f < n, i < n
  PROVE  (f + i) % n = IF f + i < n THEN f + i ELSE f + i - n
<1>1. CASE f + i < n
  BY <1>1
<1>2. CASE ~(f + i < n)
  BY <1>2
<1> QED
  BY <1>1, <1>2

LEMMA PositionType ==
  ASSUME N \in Nat \ {0}, first \in Nat, first < N, NEW i \in Nat, i < N
  PROVE  /\ Position(i) \in 1..N
         /\ Position(i) = IF first + i < N THEN first + i + 1 ELSE first + i - N + 1
<1>1. (first + i) % N = IF first + i < N THEN first + i ELSE first + i - N
  BY Wrap, Zenon
<1> QED
  BY <1>1 DEF Position

\* Over as many turns as there are providers, each has its turn.
LEMMA AllPositions ==
  ASSUME N \in Nat \ {0}, first \in Nat, first < N
  PROVE  {Position(i) : i \in 0..(N - 1)} = 1..N
<1>1. ASSUME NEW i \in 0..(N - 1) PROVE Position(i) \in 1..N
  BY PositionType
<1>2. ASSUME NEW p \in 1..N PROVE \E i \in 0..(N - 1) : Position(i) = p
  <2>1. CASE p - 1 >= first
    <3>1. p - 1 - first \in 0..(N - 1) /\ p - 1 - first \in Nat
          /\ first + (p - 1 - first) = p - 1 /\ p - 1 < N
      BY <2>1
    <3>2. Position(p - 1 - first) = p
      BY <3>1, PositionType
    <3> QED
      BY <3>1, <3>2
  <2>2. CASE p - 1 < first
    <3>1. p - 1 - first + N \in 0..(N - 1) /\ p - 1 - first + N \in Nat
          /\ first + (p - 1 - first + N) = p - 1 + N /\ ~(p - 1 + N < N)
          /\ (p - 1 + N) - N + 1 = p
      BY <2>2
    <3>2. Position(p - 1 - first + N) = p
      BY <3>1, PositionType
    <3> QED
      BY <3>1, <3>2
  <2> QED
    BY <2>1, <2>2
<1> QED
  BY <1>1, <1>2

LEMMA CallTimeType == CallTime \in Nat
  BY RoundType, ParameterAssumption DEF CallTime

\* Each step is one of the call's, or makes a fresh one.
LEMMA StepKinds ==
  ASSUME FInv, [FailoverNext]_allVars
  PROVE  [Next]_vars \/ (FreshCall /\ ~Plain)
<1>1. CASE Complete \/ ProviderThrows \/ SdkThrows
  <2>1. llm = "ready" /\ ~Plain
    BY <1>1 DEF Complete, ProviderThrows, SdkThrows, ByFetch, FInv, ModeInv
  <2> QED
    BY <1>1, <2>1 DEF Complete, ProviderThrows, SdkThrows, Failover
<1>2. CASE ~(Complete \/ ProviderThrows \/ SdkThrows)
  BY <1>2 DEF FailoverNext, CreateLLMProvider, CallStep, PlainAbort, Content, SdkContent,
              Over, allVars, Next
<1> QED
  BY <1>1, <1>2

LEMMA FreshIInv == FreshCall => IInv'
<1>1. FreshCall => Init'
  BY DEF FreshCall, Init
<1>2. Init' => IInv'
  BY InitIInv, PTL
<1> QED
  BY <1>1, <1>2

LEMMA StepKeepsIInv == ASSUME FInv, [FailoverNext]_allVars PROVE IInv'
  BY StepKinds, StepIInv, FreshIInv DEF FInv


LEMMA FailoverInitInv == FailoverInit => FInv
<1> SUFFICES ASSUME FailoverInit PROVE FInv
  OBVIOUS
<1>1. IInv
  BY InitIInv DEF FailoverInit
<1>2. ~Plain => N \in Nat \ {0}
  BY ListType DEF FailoverInit
<1>3. FailoverTypeOK
  BY <1>1, <1>2, FailoverAssumption DEF FailoverInit, FailoverTypeOK, IInv
<1>4. ModeInv
  BY DEF FailoverInit, Init, ModeInv, Asking
<1>5. LoopInv
  <2>1. 0 <= 0 * CallTime
    BY CallTimeType
  <2> QED
    BY <2>1 DEF FailoverInit, LoopInv, Asking, StallsOnlyIfAll
<1> QED
  BY <1>1, <1>3, <1>4, <1>5 DEF FInv

\* A step of a provider's call leaves the loop alone.
LEMMA UnmovedStep ==
  ASSUME FInv, IInv', UNCHANGED failoverVars, aborted' => Plain
  PROVE  FInv'
<1>1. FailoverTypeOK'
  BY DEF FInv, FailoverTypeOK, failoverVars, IInv, Plain, N
<1>2. ModeInv'
  BY DEF FInv, ModeInv, failoverVars, Plain, Asking
<1>3. LoopInv'
  BY DEF FInv, LoopInv, failoverVars, Asking, StallsOnlyIfAll, Position, N, CallTime,
         AttemptTime, SleepTime
<1> QED
  BY <1>1, <1>2, <1>3 DEF FInv

LEMMA CreateStep == ASSUME FInv, IInv', CreateLLMProvider PROVE FInv'
<1>1. FailoverTypeOK'
  BY DEF FInv, FailoverTypeOK, CreateLLMProvider, IInv, Plain, N
<1>2. ModeInv'
  BY DEF FInv, ModeInv, CreateLLMProvider, vars, Plain, Asking
<1>3. LoopInv'
  BY DEF FInv, LoopInv, CreateLLMProvider, Asking, StallsOnlyIfAll, Position, N, CallTime,
         AttemptTime, SleepTime
<1> QED
  BY <1>1, <1>2, <1>3 DEF FInv

LEMMA CompleteStep == ASSUME FInv, IInv', Complete PROVE FInv'
<1>1. N \in Nat \ {0} /\ ~Plain
  BY ListType DEF FInv, FailoverTypeOK, ModeInv, Complete
<1>2. FailoverTypeOK'
  <2>1. next \in Nat /\ next < N /\ made + 1 \in 0..Calls
    BY <1>1, FailoverAssumption DEF FInv, FailoverTypeOK, Complete
  <2>2. (next + 1) % N \in Nat /\ (next + 1) % N < N
    BY <1>1, <2>1
  <2> QED
    BY <1>1, <2>1, <2>2 DEF FInv, FailoverTypeOK, Complete, IInv, Plain, N
<1>3. ModeInv'
  BY <1>1 DEF ModeInv, Complete, FreshCall, Plain, Asking
<1>4. LoopInv'
  <2>1. 0 <= 0 * CallTime /\ 0..(0 - 1) = {}
    BY CallTimeType
  <2>2. spent' <= turn' * CallTime
    BY <2>1 DEF Complete
  <2>3. failed' = {Position(i)' : i \in 0..(turn' - 1)}
    BY <2>1 DEF Complete
  <2> QED
    BY <2>2, <2>3 DEF Complete, LoopInv, Asking, StallsOnlyIfAll, Position, N, CallTime,
                      AttemptTime, SleepTime
<1> QED
  BY <1>2, <1>3, <1>4 DEF FInv

\* A completion has its content.
LEMMA ContentStep ==
  ASSUME FInv, IInv', Asking, out' = "content",
         UNCHANGED <<vars, list, keys, llm, next, first, turn, failed, spent, made>>
  PROVE  FInv'
<1>1. FailoverTypeOK'
  BY DEF FInv, FailoverTypeOK, IInv, Plain, N
<1>2. ModeInv'
  BY DEF FInv, ModeInv, Plain, Asking, vars
<1>3. LoopInv'
  BY DEF FInv, LoopInv, Asking, StallsOnlyIfAll, Position, N, CallTime, AttemptTime, SleepTime
<1> QED
  BY <1>1, <1>2, <1>3 DEF FInv

\* One more provider has failed.
LEMMA FailoverStep == ASSUME FInv, IInv', Asking, Failover PROVE FInv'
<1>1. /\ N \in Nat \ {0} /\ ~Plain /\ ~Plain' /\ N' = N
      /\ first \in Nat /\ first < N /\ turn \in Nat /\ turn < N
      /\ spent \in Nat /\ failed \subseteq 1..N
  BY ListType DEF FInv, FailoverTypeOK, ModeInv, Failover, Plain, N
<1>2. /\ first' = first /\ list' = list /\ llm' = llm /\ failed' = failed \cup {Position(turn)}
      /\ Position(turn) \in 1..N
      /\ failed' = {Position(i) : i \in 0..turn}
  <2>1. failed = {Position(i) : i \in 0..(turn - 1)}
    BY DEF FInv, LoopInv
  <2>2. 0..turn = (0..(turn - 1)) \cup {turn}
    BY <1>1
  <2> QED
    BY <1>1, <2>1, <2>2, PositionType DEF Failover
<1>3. clock \in Nat /\ clock <= CallTime
  BY BoundedHere DEF FInv, IInv, TypeOK, Bounded, CallTime
<1>4. CASE turn + 1 < N
  <2>1. turn' = turn + 1 /\ spent' = spent + clock /\ FreshCall /\ UNCHANGED out
    BY <1>4 DEF Failover
  <2>2. FailoverTypeOK'
    <3>1. turn + 1 \in Nat /\ spent + clock \in Nat
      BY <1>1, <1>3
    <3>3. turn' \in Nat /\ turn' < N /\ spent' \in Nat
      BY <1>4, <2>1, <3>1
    <3>4. failed' \subseteq 1..N
      BY <1>1, <1>2, Zenon
    <3>2. TypeOK' /\ UNCHANGED <<list, keys, llm, next, first, made, out>>
      BY <2>1 DEF IInv, Failover
    <3> QED
      BY <1>1, <3>2, <3>3, <3>4 DEF FInv, FailoverTypeOK
  <2>3. ModeInv'
    BY <1>1, <2>1 DEF FInv, ModeInv, Failover, FreshCall, Asking
  <2>4. LoopInv'
    <3>1. spent + clock <= (turn + 1) * CallTime
      BY <1>1, <1>3, CallTimeType DEF FInv, LoopInv
    <3>2. (turn + 1) - 1 = turn
      BY <1>1
    <3>3. failed' = {Position(i)' : i \in 0..(turn' - 1)}
      BY <1>2, <2>1, <3>2 DEF Position, N
    <3> QED
      BY <2>1, <3>1, <3>3 DEF LoopInv, Asking, StallsOnlyIfAll, CallTime, AttemptTime,
                              SleepTime
  <2> QED
    BY <2>2, <2>3, <2>4 DEF FInv
<1>5. CASE ~(turn + 1 < N)
  <2>1. out' = "threw" /\ UNCHANGED <<vars, turn, spent>>
    BY <1>5 DEF Failover
  <2>2. FailoverTypeOK'
    BY <1>1, <1>2, <2>1 DEF FInv, FailoverTypeOK, Failover, IInv
  <2>3. ModeInv'
    BY <1>1, <2>1 DEF FInv, ModeInv, Failover, Asking, vars
  <2>4. LoopInv'
    <3>1. turn = N - 1
      BY <1>1, <1>5
    <3>2. failed' = 1..N
      BY <1>1, <1>2, <3>1, AllPositions
    <3> QED
      BY <1>1, <2>1, <3>2 DEF FInv, LoopInv, Asking, StallsOnlyIfAll, CallTime, AttemptTime,
                              SleepTime
  <2> QED
    BY <2>2, <2>3, <2>4 DEF FInv
<1> QED
  BY <1>4, <1>5

LEMMA StepFInv == ASSUME FInv, [FailoverNext]_allVars PROVE FInv'
<1>0. IInv'
  BY StepKeepsIInv
<1>1. CASE CreateLLMProvider
  BY <1>0, <1>1, CreateStep
<1>2. CASE Complete
  BY <1>0, <1>2, CompleteStep
<1>3. CASE UNCHANGED failoverVars
  <2>1. aborted' => Plain
    BY <1>3 DEF FInv, ModeInv, FailoverNext, CreateLLMProvider, Complete, CallStep, PlainAbort,
                Content, ProviderThrows, SdkContent, SdkThrows, Over, allVars, vars,
                failoverVars, Call, Respond_Any, Respond, Fail, Expire, Lose, WakeUp, Attempt,
                Tick, Failover, FreshCall
  <2> QED
    BY <1>0, <1>3, <2>1, UnmovedStep
<1>4. CASE Content \/ SdkContent
  BY <1>0, <1>4, ContentStep DEF Content, SdkContent, ByFetch
<1>5. CASE ProviderThrows \/ SdkThrows
  BY <1>0, <1>5, FailoverStep DEF ProviderThrows, SdkThrows, ByFetch
<1> QED
  BY <1>1, <1>2, <1>3, <1>4, <1>5
  DEF FailoverNext, CallStep, PlainAbort, Over, allVars

THEOREM FailoverInvariance == FailoverSpec => []FInv
<1>1. FInv /\ [FailoverNext]_allVars => FInv'
  BY StepFInv
<1> QED
  BY FailoverInitInv, <1>1, PTL DEF FailoverSpec

\* The variables of a completion keep their types; in particular its turns
\* and positions stay within the list.
THEOREM FailoverTypeCorrect == FailoverSpec => []FailoverTypeOK
<1>1. FInv => FailoverTypeOK
  BY DEF FInv
<1> QED
  BY FailoverInvariance, <1>1, PTL

\* A completion takes no longer than a bounded call for each provider it has
\* asked, for every list and wherever the round robin stands.
THEOREM CompleteBoundedCorrect == FailoverSpec => []CompleteBounded
<1>1. FInv => CompleteBounded
  <2> SUFFICES ASSUME FInv PROVE CompleteBounded
    OBVIOUS
  <2>1. clock \in Nat /\ clock <= CallTime /\ turn \in Nat /\ spent \in Nat
    BY BoundedHere DEF FInv, IInv, TypeOK, FailoverTypeOK, Bounded, CallTime
  <2>2. spent + clock <= (turn + 1) * CallTime
    BY <2>1, CallTimeType DEF FInv, LoopInv
  <2> QED
    BY <2>2 DEF CompleteBounded
<1> QED
  BY FailoverInvariance, <1>1, PTL

\* A completion fails only after every listed provider has failed it.
THEOREM StallsCorrect == FailoverSpec => []StallsOnlyIfAll
<1>1. FInv => StallsOnlyIfAll
  BY DEF FInv, LoopInv
<1> QED
  BY FailoverInvariance, <1>1, PTL

\* With the loop around the calls too, an abort is final.
THEOREM FailoverAbortCorrect == FailoverSpec => AbortIsFinal
<1>1. FInv /\ [FailoverNext]_allVars => [aborted => sent' = sent]_vars
  <2> SUFFICES ASSUME FInv, [FailoverNext]_allVars
               PROVE  [aborted => sent' = sent]_vars
    OBVIOUS
  <2>1. CASE [Next]_vars
    BY <2>1, AbortAction
  <2>2. CASE ~Plain
    BY <2>2 DEF FInv, ModeInv
  <2> QED
    BY <2>1, <2>2, StepKinds
<1> QED
  BY FailoverInvariance, <1>1, PTL DEF FailoverSpec, AbortIsFinal

\* And no provider's retry goes out too soon.
THEOREM FailoverPauseCorrect == FailoverSpec => NotTooSoon
<1>1. FInv /\ [FailoverNext]_allVars => [Sooner]_vars
  <2> SUFFICES ASSUME FInv, [FailoverNext]_allVars PROVE [Sooner]_vars
    OBVIOUS
  <2>1. CASE [Next]_vars
    BY <2>1, PauseAction DEF FInv
  <2>2. CASE FreshCall
    <3>1. sent' = 0 /\ sent \in 0..(Retries + 1)
      BY <2>2 DEF FreshCall, FInv, IInv, TypeOK
    <3>2. ~(sent' > sent)
      BY <3>1, ParameterAssumption
    <3> QED
      BY <3>2 DEF Sooner
  <2> QED
    BY <2>1, <2>2, StepKinds
<1> QED
  BY FailoverInvariance, <1>1, PTL DEF FailoverSpec, NotTooSoon, Sooner
=============================================================================
