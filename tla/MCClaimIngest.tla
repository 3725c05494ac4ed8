--------------------------- MODULE MCClaimIngest ---------------------------
(* Small instances of ClaimIngest.  "c3" is a hallucination: no document     *)
(* contains its quote.                                                       *)
EXTENDS ClaimIngest

CONSTANTS i1, i2, i3, d1, d2, c1, c2, c3

TwoCalls   == {i1, i2}
ThreeCalls == {i1, i2, i3}
OneDoc     == {d1}
TwoDocs    == {d1, d2}
AllContents == {c1, c2, c3}
AnchoredIn == [d \in Docs |-> IF d = d1 THEN {c1, c2} ELSE {c2}]
OneDim     == {384}
TwoDims    == {384, 768}
NoFault    == {}
AllButDelete == FaultPoints \ {"delete"}
=============================================================================
