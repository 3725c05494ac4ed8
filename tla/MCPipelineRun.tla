--------------------------- MODULE MCPipelineRun ---------------------------
(***************************************************************************)
(* Two runs.  The manifest of one has a paper without a file (d3) between  *)
(* two that are ingested and, beyond the cap, one more; the other run has  *)
(* a single paper, which contains no claims.  "c1" and "c2" are findings   *)
(* of d1, "c3" is another kind of claim, of d2.                            *)
(***************************************************************************)
EXTENDS PipelineRun

CONSTANTS d1, d2, d3, d4, d5, c1, c2, c3, r1, r2

AllDocs == {d1, d2, d3, d4, d5}
Calls == AllDocs \X (1..2)
AllContents == {c1, c2, c3}
AnchoredIn == [d \in Docs |-> CASE d = d1 -> {c1, c2} [] d = d2 -> {c3} [] OTHER -> {}]
OneDim == {384}
NoFault == {}
BothRuns == {r1, r2}
Manifests == [r \in Runs |-> IF r = r1 THEN <<d1, d3, d2, d5>> ELSE <<d4>>]
HaveFiles == {d1, d2, d4, d5}
FindingsOnly == {c1, c2}
=============================================================================
