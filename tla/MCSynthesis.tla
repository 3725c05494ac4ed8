---------------------------- MODULE MCSynthesis ----------------------------
(* Small instances of Synthesis: three findings in any clusters, and one    *)
(* invented tag.  The claims are interchangeable.                           *)
EXTENDS Synthesis, TLC

CONSTANTS a, b, c, x

ThreeClaims == {a, b, c}
OneInvented == {x}
AnyOrder == Permutations({a, b, c})
=============================================================================
