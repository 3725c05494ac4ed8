CONSTANTS
  Retries = 2
  TimeoutMs = 2
  BaseDelayMs = 1
  MaxDelayMs = 3
  Second = 2
  Headers <- SomeHeaders
  Lag = 1
  Names = {"gemini", "groq", "anthropic"}
  Sdk = {"anthropic"}
  Lists <- SomeLists
  Calls = 2
SPECIFICATION FailoverSpec
INVARIANTS FailoverTypeOK CompleteBounded StallsOnlyIfAll
PROPERTIES AbortIsFinal NotTooSoon CompleteEnds
