-------------------------- MODULE ProviderDispatch --------------------------
(***************************************************************************)
(* Phase 2: searches of one academic graph, dispatched by concurrent runs  *)
(* that share the process-wide circuit breaker.  The breaker keeps its     *)
(* state per provider name, so one provider stands for each.               *)
(*                                                                         *)
(* Time is counted in ticks.  A timer fires within the tick it is due, as  *)
(* it does when the event loop is not blocked.                             *)
(***************************************************************************)
EXTENDS Naturals, Sequences

CONSTANTS
  Searches,    \* the runs that may be in Phase 2 at the same time
  Threshold,   \* CircuitBreaker.threshold, 3 in the code
  Cooldown,    \* cooldownMs, in ticks
  Timeout      \* DEFAULT_TIMEOUT_MS or the configured gateway timeout, in ticks

ASSUME ConstantsOK == {Threshold, Cooldown, Timeout} \subseteq Nat \ {0}

VARIABLES
  failures,   \* CircuitBreaker.failures
  left,       \* openUntil - now, or 0 when that has passed or is not set
  up,         \* the environment: the provider answers, and within the timeout
  age,        \* age[s]: ticks since search s was sent, or Idle
  refused,    \* the searches sent that the provider will answer with an error: a
              \* query it cannot parse, or one too many in a while
  results,    \* history: the last Threshold results recorded, latest first
  since       \* history: ticks since a failure was recorded, up to Cooldown

vars == <<failures, left, up, age, refused, results, since>>

Idle == Timeout + 1
Sent(s) == age[s] # Idle

TypeOK ==
  /\ failures \in 0 .. Threshold
  /\ left \in 0 .. Cooldown
  /\ up \in BOOLEAN
  /\ age \in [Searches -> 0 .. Idle]
  /\ refused \subseteq Searches
  /\ results \in Seq({"ok", "failed"}) /\ Len(results) <= Threshold
  /\ since \in 0 .. Cooldown

Init ==
  /\ failures = 0
  /\ left = 0
  /\ up \in BOOLEAN
  /\ age = [s \in Searches |-> Idle]
  /\ refused = {}
  /\ results = <<>>
  /\ since = Cooldown

Kept == IF Len(results) < Threshold THEN Len(results) + 1 ELSE Threshold

Note(result) ==
  /\ results' = [i \in 1 .. Kept |-> IF i = 1 THEN result ELSE results[i - 1]]
  /\ since' = IF result = "failed" THEN 0 ELSE since

\* Mutant: an open circuit is not closed.
RecordSuccess_KeepsOpen  == failures' = 0 /\ UNCHANGED left /\ Note("ok")

RecordSuccess == failures' = 0 /\ left' = 0 /\ Note("ok")

\* Threshold is the bound of the model on a count that goes on in the code; it is
\* only ever compared with the threshold, so that the circuit is the same.
RecordFailure ==
  /\ failures' = IF failures < Threshold THEN failures + 1 ELSE failures
  /\ left' = IF failures' >= Threshold THEN Cooldown ELSE left
  /\ Note("failed")

----------------------------------------------------------------------------
IsOpen == left > 0

\* Mutant: a search that an open circuit stops counts as a failed one.
Skip_Counts(s) == IsOpen /\ RecordFailure /\ UNCHANGED <<up, age, refused>>

\* CIRCUIT_OPEN: no request, nothing recorded.
Skip(s) == IsOpen /\ UNCHANGED vars

\* The request goes out.
Send(s) ==
  /\ ~IsOpen
  /\ age' = [age EXCEPT ![s] = 0]
  /\ refused' \in {refused, refused \cup {s}}
  /\ UNCHANGED <<failures, left, up, results, since>>

\* dispatchAll, for the provider.
Dispatch(s) ==
  /\ ~Sent(s)
  /\ Send(s) \/ Skip(s)

End(s) ==
  /\ age' = [age EXCEPT ![s] = Idle]
  /\ refused' = refused \ {s}
  /\ UNCHANGED up

Succeed(s) ==
  /\ Sent(s) /\ up /\ s \notin refused
  /\ RecordSuccess
  /\ End(s)

\* Mutant: without withTimeout, a provider that is down holds its search.
Fail_Untimed(s) == Sent(s) /\ s \in refused /\ RecordFailure /\ End(s)

\* An error, or withTimeout's timer; whatever arrives after that is ignored.
Fail(s) ==
  /\ Sent(s)
  /\ ~up \/ s \in refused
  /\ RecordFailure
  /\ End(s)

\* A search that is not answered by now is answered or abandoned before time goes on.
Tick ==
  /\ \A s \in Searches : Sent(s) => age[s] < Timeout
  /\ age' = [s \in Searches |-> IF Sent(s) THEN age[s] + 1 ELSE Idle]
  /\ left' = IF left > 0 THEN left - 1 ELSE 0
  /\ since' = IF since < Cooldown THEN since + 1 ELSE Cooldown
  /\ UNCHANGED <<failures, up, refused, results>>

\* The provider goes down or comes back.
Flip == up' = ~up /\ UNCHANGED <<failures, left, age, refused, results, since>>

Next ==
  \/ Tick \/ Flip
  \/ \E s \in Searches : Dispatch(s) \/ Succeed(s) \/ Fail(s)

Spec == Init /\ [][Next]_vars

\* Time passes, and a search that is sent ends.
FairSpec ==
  Spec /\ WF_vars(Tick) /\ \A s \in Searches : WF_vars(Succeed(s) \/ Fail(s))

----------------------------------------------------------------------------
(* Properties *)

Streak == Len(results) = Threshold /\ \A i \in 1 .. Threshold : results[i] = "failed"

\* docs/phase-2:83: the circuit is open exactly when the last Threshold results,
\* of whichever runs and in the order they came in, are failures and the latest is
\* less than a cooldown old.  In particular one failed probe opens it again, and an
\* answer to a search sent before the trip closes it.
OpenMeansOutage == left = IF Streak THEN Cooldown - since ELSE 0

\* A provider that answers again, and every query, is used again: from some point on
\* its circuit is never open, however many runs were turned away in the meantime.
Recovers == <>[](up /\ refused = {}) => <>[](~IsOpen)
=============================================================================
