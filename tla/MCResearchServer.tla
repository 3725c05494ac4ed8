------------------------- MODULE MCResearchServer -------------------------
(* Small instances of ResearchServer. *)
EXTENDS ResearchServer

CONSTANTS j1, j2, s1, p1

TwoJobs   == {j1, j2}
OneStream == {s1}
OnePage   == {p1}

CrashAndInsert == {"crash", "insert"}
=============================================================================
