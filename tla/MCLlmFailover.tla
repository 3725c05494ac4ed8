---------------------------- MODULE MCLlmFailover ----------------------------
(***************************************************************************)
(* Three attempts, with headers that ask for no wait, a short one, one     *)
(* beyond the cap, and dates in the past and in the future; two providers  *)
(* behind resilientFetch and one behind its vendor's library, listed       *)
(* alone, together and in either order; two completions.                   *)
(***************************************************************************)
EXTENDS LlmFailover

SomeHeaders ==
  {[form |-> "seconds", at |-> s] : s \in {-1, 0, 1, 3}}
    \cup {[form |-> "date", at |-> t] : t \in {1, 8}}

SomeLists ==
  {<<"groq">>, <<"gemini", "groq">>, <<"groq", "anthropic">>,
   <<"anthropic", "gemini">>}
==============================================================================
