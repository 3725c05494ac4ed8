------------------------- MODULE ResearchLifecycle -------------------------
(***************************************************************************)
(* What the orchestrator promises to someone who holds a research id: what *)
(* GET /research/:id may answer over time, whatever happens to the process *)
(* that runs the research, and what a page that polls it may show.         *)
(*                                                                         *)
(* There is no memory, database or request here, only the current answer:  *)
(* ResearchServer is shown to implement this.                              *)
(***************************************************************************)
CONSTANTS
  Jobs,      \* research ids
  Pages,     \* browser pages
  Reliable   \* no request of a page and no database read fails

VARIABLES
  state,     \* how far each research is
  present,   \* the researches the running process knows
  kept,      \* the researches that are in the History for good
  at, shown  \* the research each page is opened on, and what it shows

vars == <<state, present, kept, at, shown>>

Outcomes == {"ok", "rejected", "error"}
States   == {"new", "running"} \cup Outcomes

\* The current answer for a research.
Answer(j) ==
  CASE j \in present -> state[j]
    [] j \notin present /\ j \in kept -> "ok"
    [] OTHER -> "404"

Init ==
  /\ state = [j \in Jobs |-> "new"]
  /\ present = {}
  /\ kept = {}
  /\ at \in [Pages -> Jobs]
  /\ shown = [p \in Pages |-> "none"]

Begin(j) ==
  /\ state[j] = "new"
  /\ state' = [state EXCEPT ![j] = "running"]
  /\ present' = present \cup {j}
  /\ UNCHANGED <<kept, at, shown>>

Finish(j) ==
  /\ j \in present
  /\ state[j] = "running"
  /\ \E o \in Outcomes : state' = [state EXCEPT ![j] = o]
  /\ UNCHANGED <<present, kept, at, shown>>

\* Only a finished brief is ever kept, by a process that may have died since: its
\* answer then comes back.
Keep(j) ==
  /\ state[j] = "ok"
  /\ kept' = kept \cup {j}
  /\ UNCHANGED <<state, present, at, shown>>

\* The process dies: the answers for what is not kept, finished or not, go back to
\* "404", and the requests under way are cut off.
Forget ==
  /\ present' = {}
  /\ \E cut \in SUBSET Pages : shown' = [p \in Pages |-> IF p \in cut THEN "404" ELSE shown[p]]
  /\ UNCHANGED <<state, kept, at>>

Open(p, j) ==
  /\ state[j] # "new"
  /\ at' = [at EXCEPT ![p] = j]
  /\ shown' = [shown EXCEPT ![p] = "loading"]
  /\ UNCHANGED <<state, present, kept>>

\* A page shows the answer of this moment, not of an earlier one.
Show(p) ==
  /\ shown[p] \in {"loading", "running"}
  /\ \/ shown' = [shown EXCEPT ![p] = Answer(at[p])]
     \/ ~Reliable /\ shown' = [shown EXCEPT ![p] = "404"]
  /\ UNCHANGED <<state, present, kept, at>>

Next ==
  \/ Forget
  \/ \E j \in Jobs : Begin(j) \/ Finish(j) \/ Keep(j)
  \/ \E p \in Pages : Show(p) \/ \E j \in Jobs : Open(p, j)

Spec == Init /\ [][Next]_vars
=============================================================================
