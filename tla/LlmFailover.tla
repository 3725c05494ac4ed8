---------------------------- MODULE LlmFailover ----------------------------
(***************************************************************************)
(* The language models of a run of the orchestrator.  LLM_PROVIDER lists   *)
(* one or several; createLLMProvider builds them, and MultiLLMProvider     *)
(* spreads the run's completions over them and fails over to the next one  *)
(* on any error.  A provider's complete is one call of resilientFetch      *)
(* (module ResilientFetch), without a signal, and then the reading of the  *)
(* body; one provider goes through its vendor's library instead.           *)
(*                                                                         *)
(* The same module has the other callers of resilientFetch, the clients of *)
(* the Python services: they list no model (list = <<>>), make one call,   *)
(* and may abort it.                                                       *)
(***************************************************************************)
EXTENDS ResilientFetch, Sequences

CONSTANTS
  Names, \* the models' providers
  Sdk,   \* those reached through their vendor's library
  Lists, \* what LLM_PROVIDER may list
  Calls  \* a bound: the completions of one run

ASSUME FailoverAssumption ==
  /\ Sdk \subseteq Names
  /\ Lists \subseteq Seq(Names) \ {<<>>}
  /\ Calls \in Nat

VARIABLES
  list,   \* config.providers.llmList
  keys,   \* the providers whose API key is set
  llm,    \* what createLLMProvider has made of it
  next,   \* MultiLLMProvider's round robin
  first,  \* start: the position this completion began at
  turn,   \* i: how many providers it has gone past
  failed, \* the positions that failed it
  spent,  \* the ticks their calls took
  made,   \* how many completions the run has asked for
  out     \* how the latest one stands

failoverVars == <<list, keys, llm, next, first, turn, failed, spent, made, out>>
allVars == <<vars, failoverVars>>

Plain == list = <<>>
N == Len(list)

\* The position in the list a completion asks at its turn i.
Position(i) == ((first + i) % N) + 1

Provider == list[Position(turn)]

FailoverInit ==
  /\ Init
  /\ list \in Lists \cup {<<>>}
  /\ keys \in SUBSET Names
  /\ llm = "unbuilt"
  /\ next = 0 /\ first = 0 /\ turn = 0
  /\ failed = {}
  /\ spent = 0
  /\ made = 0
  /\ out = "none"

\* createLLMProvider: a provider without its key throws, and with it the
\* whole list.
CreateLLMProvider ==
  /\ ~Plain /\ llm = "unbuilt"
  /\ llm' = IF \A i \in 1..N : list[i] \in keys THEN "ready" ELSE "absent"
  /\ UNCHANGED <<vars, list, keys, next, first, turn, failed, spent, made, out>>

\* A call of resilientFetch that is yet to be made.
FreshCall ==
  /\ pc' = "called" /\ attempt' = 0 /\ due' = 0 /\ aborted' = FALSE
  /\ lastError' = "none" /\ answer' = "none" /\ sent' = 0
  /\ clock' = 0 /\ ended' = 0 /\ asked' = Null

\* MultiLLMProvider.complete: the next provider in turn begins.
Complete ==
  /\ llm = "ready" /\ out # "asking" /\ made < Calls
  /\ first' = next
  /\ next' = (next + 1) % N
  /\ turn' = 0 /\ failed' = {} /\ spent' = 0
  /\ made' = made + 1
  /\ out' = "asking"
  /\ FreshCall
  /\ UNCHANGED <<list, keys, llm>>

Asking == out = "asking"
ByFetch == Asking /\ Provider \notin Sdk

\* A step of the provider's, or of the plain client's, resilientFetch.  The
\* providers pass no signal.
CallStep(A) == (Plain \/ ByFetch) /\ A /\ UNCHANGED failoverVars

PlainAbort == Plain /\ Abort /\ UNCHANGED failoverVars

\* A mutant of Failover: the loop ends one provider early.
Failover_Early ==
  /\ failed' = failed \cup {Position(turn)}
  /\ IF turn + 2 < N
     THEN /\ turn' = turn + 1 /\ spent' = spent + clock
          /\ FreshCall
          /\ UNCHANGED out
     ELSE out' = "threw" /\ UNCHANGED <<vars, turn, spent>>
  /\ UNCHANGED <<list, keys, llm, next, first, made>>

\* A mutant of Failover: a provider that failed is asked once more.
Failover_Twice ==
  /\ failed' = failed \cup {Position(turn)}
  /\ IF Position(turn) \notin failed
     THEN /\ spent' = spent + clock /\ FreshCall /\ UNCHANGED <<turn, out>>
     ELSE IF turn + 1 < N
     THEN /\ turn' = turn + 1 /\ spent' = spent + clock
          /\ FreshCall
          /\ UNCHANGED out
     ELSE out' = "threw" /\ UNCHANGED <<vars, turn, spent>>
  /\ UNCHANGED <<list, keys, llm, next, first, made>>

\* A provider threw: the loop goes on to the next, or throws after the last.
Failover ==
  /\ failed' = failed \cup {Position(turn)}
  /\ IF turn + 1 < N
     THEN /\ turn' = turn + 1 /\ spent' = spent + clock
          /\ FreshCall
          /\ UNCHANGED out
     ELSE out' = "threw" /\ UNCHANGED <<vars, turn, spent>>
  /\ UNCHANGED <<list, keys, llm, next, first, made>>

\* The body of an ok response is read; what is not there reads as "".
Content ==
  /\ ByFetch /\ pc = "returned" /\ answer = "ok"
  /\ out' = "content"
  /\ UNCHANGED <<vars, list, keys, llm, next, first, turn, failed, spent, made>>

\* The provider throws: its call threw, its status was no success, or the
\* body broke off or was no JSON.
ProviderThrows == ByFetch /\ Settled /\ Failover

\* The vendor's library answers or throws, after retries of its own.
SdkContent ==
  /\ Asking /\ Provider \in Sdk
  /\ out' = "content"
  /\ UNCHANGED <<vars, list, keys, llm, next, first, turn, failed, spent, made>>

SdkThrows == Asking /\ Provider \in Sdk /\ Failover

\* The run has no more to ask, or the plain call is over and its signal dead.
Over ==
  /\ \/ Plain /\ Finished
     \/ llm = "absent"
     \/ llm = "ready" /\ ~Asking /\ made = Calls
  /\ UNCHANGED allVars

FailoverNext ==
  \/ CreateLLMProvider
  \/ Complete
  \/ CallStep(Call)
  \/ CallStep(Respond_Any)
  \/ CallStep(Fail)
  \/ CallStep(Expire)
  \/ CallStep(WakeUp)
  \/ CallStep(Tick)
  \/ PlainAbort
  \/ Content
  \/ ProviderThrows
  \/ SdkContent
  \/ SdkThrows
  \/ Over

\* The event loop runs a call and its timers.  A body ends or breaks: the
\* platform's fetch gives up on one that stalls; and so does the library.
FailoverFairness ==
  /\ WF_allVars(CallStep(Call)) /\ WF_allVars(CallStep(Tick))
  /\ WF_allVars(CallStep(Expire)) /\ WF_allVars(CallStep(WakeUp))
  /\ WF_allVars(Content \/ ProviderThrows)
  /\ WF_allVars(SdkContent \/ SdkThrows)

FailoverSpec == FailoverInit /\ [][FailoverNext]_allVars /\ FailoverFairness

-----------------------------------------------------------------------------

FailoverTypeOK ==
  /\ TypeOK
  /\ list \in Lists \cup {<<>>}
  /\ keys \in SUBSET Names
  /\ llm \in {"unbuilt", "ready", "absent"}
  /\ next \in Nat /\ first \in Nat /\ turn \in Nat
  /\ ~Plain => next < N /\ first < N /\ turn < N
  /\ failed \subseteq 1..N
  /\ spent \in Nat
  /\ made \in 0..Calls
  /\ out \in {"none", "asking", "content", "threw"}

\* The longest one call of resilientFetch may take.
CallTime == Retries * (AttemptTime + SleepTime) + AttemptTime

\* However the models' servers answer, the time a completion has spent in
\* requests and pauses stays within one call's timeouts and capped sleeps for
\* each provider it has asked; and a plain call's within those of one call.
CompleteBounded == spent + clock <= (turn + 1) * CallTime

\* A completion fails only when each of the listed providers has failed it
\* ("a run only stalls if EVERY provider is rate-limited at once"), wherever
\* the round robin stood when it began.
StallsOnlyIfAll == out = "threw" => failed = 1..N

\* Nobody waits forever: each completion, and each plain call, ends.
CompleteEnds == []<>(IF Plain THEN Settled ELSE ~Asking)
=============================================================================
