--------------------------- MODULE MCPaperTable ----------------------------
(***************************************************************************)
(* A document that is ingested twice, one after the other or together,     *)
(* beside one of another project that may be in the collection from before *)
(* on, with a question about the project of the first, or its table, which *)
(* is made twice, one after the other or together.                         *)
(***************************************************************************)
EXTENDS PaperTable

CONSTANTS d1, d2, w1, w2, w3, p1, p2, a1, v1, g1, g2

TwoDocs == {d1, d2}
ProjectOf == [d \in Docs |-> IF d = d2 THEN p2 ELSE p1]
AllWrites == {w1, w2, w3}
Earlier == {w3}
DocOf == [w \in Writes |-> CASE w = w3 -> d2 [] OTHER -> d1]
OneAsk == {a1}
AboutFirst == [a \in Asks |-> p1]
OneView == {v1}
TwoPosts == {g1, g2}
SomeFaults == {"crash"}
=============================================================================
