--------------------------- MODULE ResilientFetch ---------------------------
(***************************************************************************)
(* One call of resilientFetch (util/resilience.ts), the function through   *)
(* which the orchestrator reaches the Python services, the language models *)
(* and the paper providers.  Each attempt runs against a timer; a failed   *)
(* attempt or a retryable status is followed by a sleep and another        *)
(* attempt, until the retries are used up; the caller's signal may abort   *)
(* the call at any moment.                                                 *)
(*                                                                         *)
(* Time is a count of ticks.  A timer never fires early, and at most Lag   *)
(* ticks late (the event loop may be busy): a response that arrives while  *)
(* the timer is overdue still wins.  The timer covers the request up to    *)
(* the response's headers, as in the code; reading the body is the         *)
(* caller's.                                                               *)
(***************************************************************************)
EXTENDS Integers

CONSTANTS
  Retries,     \* options.retries
  TimeoutMs,   \* options.timeoutMs
  BaseDelayMs, \* options.baseDelayMs
  MaxDelayMs,  \* options.maxDelayMs
  Second,      \* how many ticks one second of a Retry-After header is
  Headers,     \* the Retry-After headers a server may send
  Lag          \* how late a timer may fire

NoHeader == [form |-> "none", at |-> 0]

ASSUME ParameterAssumption ==
  /\ Retries \in Nat
  /\ TimeoutMs \in Nat /\ BaseDelayMs \in Nat /\ MaxDelayMs \in Nat
  /\ Second \in Nat /\ Lag \in Nat
  /\ Headers \subseteq [form : {"seconds", "date"}, at : Int]

VARIABLES
  pc,        \* where the call is
  attempt,   \* the loop counter
  due,       \* when the pending timer is due: the attempt's, or the sleep's
  aborted,   \* options.signal.aborted
  lastError, \* the error kept for when the attempts run out
  answer,    \* what the latest attempt got: a class of status, or nothing
  sent,      \* how many requests went out
  clock,     \* ticks since the call
  ended,     \* when the latest attempt ended
  asked      \* the pause the latest response asked for

vars == <<pc, attempt, due, aborted, lastError, answer, sent, clock, ended,
          asked>>

Null == -1

Smaller(a, b) == IF a <= b THEN a ELSE b
AtLeastZero(a) == IF a <= 0 THEN 0 ELSE a

\* The delays of the exponential backoff after attempt n: half to the whole
\* of the capped exponential.
Backoff(n) ==
  LET exp == Smaller(MaxDelayMs, BaseDelayMs * 2 ^ n)
  IN  {d \in 0..MaxDelayMs : d <= exp /\ exp <= 2 * d}

\* A Retry-After header in ticks, or Null when there is none to be read.
ParseRetryAfter(header, now) ==
  CASE header.form = "seconds" -> AtLeastZero(header.at * Second)
    [] header.form = "date"    -> AtLeastZero(header.at - now)
    [] OTHER                   -> Null

\* A mutant of RetryDelays: the pause a server asks for is not read.
RetryDelays_OwnPace(retryAfter) == Backoff(attempt)

\* The sleeps that may follow a retryable status.
RetryDelays(retryAfter) ==
  IF retryAfter # Null THEN {Smaller(retryAfter, MaxDelayMs)}
                       ELSE Backoff(attempt)

Init ==
  /\ pc = "called"
  /\ attempt = 0
  /\ due = 0
  /\ aborted = FALSE
  /\ lastError = "none"
  /\ answer = "none"
  /\ sent = 0
  /\ clock = 0
  /\ ended = 0
  /\ asked = Null

\* A mutant of Attempt: the signal is not looked at.
Attempt_Deaf(n) ==
  /\ attempt' = n
  /\ pc' = "request"
  /\ due' = clock + TimeoutMs
  /\ sent' = sent + 1
  /\ answer' = "none"
  /\ asked' = Null
  /\ UNCHANGED <<aborted, lastError, clock, ended>>

\* The top of the loop: give up on an aborted signal, else send the request
\* and arm its timer.
Attempt(n) ==
  /\ attempt' = n
  /\ IF aborted
     THEN pc' = "threw" /\ UNCHANGED <<due, sent, answer, asked>>
     ELSE /\ pc' = "request"
          /\ due' = clock + TimeoutMs
          /\ sent' = sent + 1
          /\ answer' = "none"
          /\ asked' = Null
  /\ UNCHANGED <<aborted, lastError, clock, ended>>

Call == pc = "called" /\ Attempt(0)

\* The response's headers arrive: the call returns it, or sleeps.
Respond(status, header) ==
  LET retryAfter == ParseRetryAfter(header, clock)
      again == status = "retryable" /\ attempt # Retries
  IN  /\ pc = "request"
      /\ answer' = status
      /\ ended' = clock
      /\ IF again
         THEN /\ pc' = "sleep"
              /\ asked' = retryAfter
              /\ \E delay \in RetryDelays(retryAfter) : due' = clock + delay
         ELSE pc' = "returned" /\ UNCHANGED <<due, asked>>
      /\ UNCHANGED <<attempt, aborted, lastError, sent, clock>>

\* A mutant of Lose: it allows one attempt too many.
Lose_OneMore(error) ==
  /\ lastError' = error
  /\ ended' = clock
  /\ IF attempt > Retries
     THEN pc' = "threw" /\ UNCHANGED due
     ELSE /\ pc' = "sleep"
          /\ \E delay \in Backoff(attempt) : due' = clock + delay
  /\ UNCHANGED <<attempt, aborted, answer, sent, clock, asked>>

\* The attempt is lost to error: the loop sleeps, or ends with the error.
Lose(error) ==
  /\ lastError' = error
  /\ ended' = clock
  /\ IF attempt = Retries
     THEN pc' = "threw" /\ UNCHANGED due
     ELSE /\ pc' = "sleep"
          /\ \E delay \in Backoff(attempt) : due' = clock + delay
  /\ UNCHANGED <<attempt, aborted, answer, sent, clock, asked>>

\* The request fails by itself: connection refused, reset, name not found.
Fail == pc = "request" /\ Lose("network")

\* A mutant of Expire: only the first request is given a timer.
Expire_FirstOnly == pc = "request" /\ attempt = 0 /\ due <= clock /\ Lose("timeout")

\* The attempt's timer fires and aborts the request.
Expire == pc = "request" /\ due <= clock /\ Lose("timeout")

\* The sleep's timer fires.
WakeUp == pc = "sleep" /\ due <= clock /\ Attempt(attempt + 1)

\* The caller aborts.  A pending request or sleep rejects at once and the
\* call throws; before the call the loop finds the signal aborted, and after
\* it nothing listens.
Abort ==
  /\ ~aborted
  /\ aborted' = TRUE
  /\ pc' = IF pc \in {"request", "sleep"} THEN "threw" ELSE pc
  /\ UNCHANGED <<attempt, due, lastError, answer, sent, clock, ended, asked>>

\* Time passes while a timer is pending, which fires at most Lag late.
Tick ==
  /\ pc \in {"request", "sleep"}
  /\ clock < due + Lag
  /\ clock' = clock + 1
  /\ UNCHANGED <<pc, attempt, due, aborted, lastError, answer, sent, ended,
                 asked>>

Respond_Any ==
  \E status \in {"ok", "final", "retryable"}, header \in Headers \cup {NoHeader} :
    Respond(status, header)

Settled == pc \in {"returned", "threw"}

Finished == Settled /\ aborted /\ UNCHANGED vars

Next == Call \/ Respond_Any \/ Fail \/ Expire \/ WakeUp \/ Abort \/ Tick \/ Finished

\* Only the event loop is fair: it starts the call, time passes and its timers
\* fire.  Nothing is assumed of the server or of the caller.
Fairness == WF_vars(Call) /\ WF_vars(Tick) /\ WF_vars(Expire) /\ WF_vars(WakeUp)

Spec == Init /\ [][Next]_vars /\ Fairness

-----------------------------------------------------------------------------

TypeOK ==
  /\ pc \in {"called", "request", "sleep", "returned", "threw"}
  /\ attempt \in 0..Retries
  /\ due \in Nat
  /\ aborted \in BOOLEAN
  /\ lastError \in {"none", "network", "timeout"}
  /\ answer \in {"none", "ok", "final", "retryable"}
  /\ sent \in 0..(Retries + 1)
  /\ clock \in Nat
  /\ ended \in Nat
  /\ asked \in Nat \cup {Null}

\* The longest one attempt and one sleep can take.
AttemptTime == TimeoutMs + Lag
SleepTime == MaxDelayMs + Lag

\* However the server answers, and whatever Retry-After it asks for, a call
\* ends within its attempts' timeouts plus its capped sleeps ("a hung
\* dependency is abandoned", "honoured, then capped").
Bounded ==
  clock <= Retries * (AttemptTime + SleepTime) + AttemptTime

\* What the caller is told is about the last attempt and comes no sooner than
\* the code allows: a retryable status is returned, and an error thrown without
\* an abort, only by the last of the attempts, and the error thrown is not left
\* over from an attempt before one that was answered.
OutcomeIsLast ==
  /\ pc = "returned" =>
       \/ answer \in {"ok", "final"}
       \/ answer = "retryable" /\ sent = Retries + 1
  /\ (pc = "threw" /\ ~aborted) =>
       sent = Retries + 1 /\ answer = "none" /\ lastError # "none"

\* After an abort no request goes out: neither the one the call was about to
\* make nor the retry it was sleeping before ("wins over internal retries").
AbortIsFinal == [][aborted => sent' = sent]_vars

\* A retry never goes out before the pause the server asked for, up to the
\* cap, nor (without a header) before a delay of the backoff; and never because of an
\* answer that called for no retry.
NotTooSoon ==
  [][(sent' > sent /\ pc = "sleep") =>
       /\ answer \in {"none", "retryable"}
       /\ asked # Null => clock - ended >= Smaller(asked, MaxDelayMs)
       /\ asked = Null => \E delay \in Backoff(attempt) : clock - ended >= delay]_vars
=============================================================================
