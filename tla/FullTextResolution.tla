------------------------ MODULE FullTextResolution ------------------------
(***************************************************************************)
(* Phase 4 of the pipeline: the ranked papers are resolved to PDFs in the  *)
(* object vault by a pool of workers that share one cursor, and the papers *)
(* found behind a paywall are offered for upload, so that the user's next  *)
(* run of the same query finds them.                                       *)
(*                                                                         *)
(* The workers are async functions of one Node process: between two awaits *)
(* nothing interleaves, so an action is what a worker does from the answer *)
(* to one request up to its next request.  In particular it stores its     *)
(* result and takes the next paper in one step.                            *)
(***************************************************************************)
EXTENDS Naturals

CONSTANTS
  N,         \* papers in the ranked manifest, numbered by rank
  Limit,     \* ResolveDeps.concurrency, MAX_CONCURRENCY by default
  HasDoi,    \* HasDoi[p]: the paper's metadata carry a DOI
  OnArxiv,   \* OnArxiv[p]: that DOI is an arXiv one
  MaxRuns,   \* bound: runs of the query
  Faults     \* the vault's requests that may fail: a subset of {"head", "put"}

Papers == 1 .. N

ASSUME ConstantsOK ==
  /\ N \in Nat
  /\ Limit \in Nat \ {0}
  /\ MaxRuns \in Nat \ {0}
  /\ HasDoi \in [Papers -> BOOLEAN]
  /\ OnArxiv \in [Papers -> BOOLEAN]
  /\ \A p \in Papers : OnArxiv[p] => HasDoi[p]

VARIABLES
  run,      \* the current run of the query
  cursor,   \* the next paper to take
  pc,       \* the request each worker awaits, or "stopped"
  at,       \* the paper each worker is on
  body,     \* what each worker has downloaded
  status,   \* status[p]: p's entry in the manifest under construction
  vault,    \* vault[k]: the object under key k
  uploaded, \* history: the run in or after which the user uploaded p, 0 if never
  offered   \* what the results of the earlier runs offer for upload: papers and runs

vars == <<run, cursor, pc, at, body, status, vault, uploaded, offered>>

Workers == {w \in Papers : w <= Limit}
Resolved == {"RESOLVED_CACHE", "RESOLVED_DOWNLOAD"}
Final    == Resolved \cup {"PAYWALLED", "FAILED_CORRUPTED"}
Awaits   == {"exists", "unpaywall", "download", "put"}
Files    == {"pdf", "other"}

\* Mutant: a paper with a DOI is stored under its internalId all the same.
StorageKey_Internal(p, n) == <<p, n>>

\* A paper of run n is stored under its DOI, or else under the internalId that the
\* search of that run gave it.  Two DOIs with one sanitised form are taken not to
\* occur.
StorageKey(p, n) == <<p, IF HasDoi[p] THEN 0 ELSE n>>

Key(p) == StorageKey(p, run)
Keys == Papers \X (0 .. MaxRuns)

Busy(w) == pc[w] # "stopped"
Done == \A w \in Workers : ~Busy(w)

TypeOK ==
  /\ run \in 1 .. MaxRuns
  /\ cursor \in 1 .. N + 1
  /\ pc \in [Workers -> Awaits \cup {"stopped"}]
  /\ at \in [Workers -> Papers]
  /\ body \in [Workers -> Files]
  /\ status \in [Papers -> Final \cup {"pending"}]
  /\ vault \in [Keys -> Files \cup {"none"}]
  /\ uploaded \in [Papers -> 0 .. MaxRuns]
  /\ offered \subseteq Papers \X (1 .. MaxRuns)

\* Every worker takes its first paper as it is created.
FirstCursor == IF Limit < N THEN Limit + 1 ELSE N + 1

Init ==
  /\ run = 1
  /\ cursor = FirstCursor
  /\ pc = [w \in Workers |-> "exists"]
  /\ at = [w \in Workers |-> w]
  /\ body = [w \in Workers |-> "other"]
  /\ status = [p \in Papers |-> "pending"]
  /\ vault = [k \in Keys |-> "none"]
  /\ uploaded = [p \in Papers |-> 0]
  /\ offered = {}

Goto(w, label) ==
  /\ pc' = [pc EXCEPT ![w] = label]
  /\ UNCHANGED <<cursor, at, status>>

\* Mutants: the cursor is advanced only once the result is in; a worker whose
\* paper could not be resolved gives up the loop.
Advance_Late(w, s) ==
  IF cursor <= N
    THEN /\ at' = [at EXCEPT ![w] = cursor]
         /\ cursor' = IF at[w] = cursor THEN cursor + 1 ELSE cursor
         /\ pc' = [pc EXCEPT ![w] = "exists"]
    ELSE /\ pc' = [pc EXCEPT ![w] = "stopped"]
         /\ UNCHANGED <<cursor, at>>
Advance_StopOnFailure(w, s) ==
  IF cursor <= N /\ s \in Resolved
    THEN /\ at' = [at EXCEPT ![w] = cursor]
         /\ cursor' = cursor + 1
         /\ pc' = [pc EXCEPT ![w] = "exists"]
    ELSE /\ pc' = [pc EXCEPT ![w] = "stopped"]
         /\ UNCHANGED <<cursor, at>>

\* The worker's loop condition and cursor++, after a paper ended with status s.
Advance(w, s) ==
  \/ /\ cursor <= N
     /\ at' = [at EXCEPT ![w] = cursor]
     /\ cursor' = cursor + 1
     /\ pc' = [pc EXCEPT ![w] = "exists"]
  \/ /\ cursor > N
     /\ pc' = [pc EXCEPT ![w] = "stopped"]
     /\ UNCHANGED <<cursor, at>>

\* resolveOne returns: the result is stored and the worker goes on.
Settle(w, s) ==
  /\ status' = [status EXCEPT ![at[w]] = s]
  /\ Advance(w, s)

----------------------------------------------------------------------------
\* Track A, and on a miss (or an error, which reads as a miss) the choice of track.
Exists(w) ==
  /\ pc[w] = "exists"
  /\ \/ vault[Key(at[w])] # "none" /\ Settle(w, "RESOLVED_CACHE")
     \/ /\ vault[Key(at[w])] = "none" \/ "head" \in Faults
        /\ \/ OnArxiv[at[w]] /\ Goto(w, "download")
           \/ HasDoi[at[w]] /\ ~OnArxiv[at[w]] /\ Goto(w, "unpaywall")
           \/ ~HasDoi[at[w]] /\ Settle(w, "PAYWALLED")
  /\ UNCHANGED <<run, body, vault, uploaded, offered>>

\* Track C: a location, or none (no open copy, an error answer, an exception).
Unpaywall(w) ==
  /\ pc[w] = "unpaywall"
  /\ Goto(w, "download") \/ Settle(w, "PAYWALLED")
  /\ UNCHANGED <<run, body, vault, uploaded, offered>>

\* Mutant: the magic number is not looked at.
Accepted_AnyFile(file) == TRUE

\* hasPdfMagic.
Accepted(file) == file = "pdf"

\* The publisher answers with a file, with an HTML page, or with an error.
Download(w) ==
  /\ pc[w] = "download"
  /\ \/ \E file \in Files :
          /\ body' = [body EXCEPT ![w] = file]
          /\ \/ Accepted(file) /\ Goto(w, "put")
             \/ ~Accepted(file) /\ Settle(w, "FAILED_CORRUPTED")
     \/ \E s \in {"PAYWALLED", "FAILED_CORRUPTED"} : Settle(w, s) /\ UNCHANGED body
  /\ UNCHANGED <<run, vault, uploaded, offered>>

\* A put that fails may still have reached the vault.
Put(w) ==
  /\ pc[w] = "put"
  /\ \/ /\ vault' = [vault EXCEPT ![Key(at[w])] = body[w]]
        /\ Settle(w, "RESOLVED_DOWNLOAD")
     \/ /\ "put" \in Faults
        /\ vault' \in {vault, [vault EXCEPT ![Key(at[w])] = body[w]]}
        /\ Settle(w, "FAILED_CORRUPTED")
  /\ UNCHANGED <<run, body, uploaded, offered>>

\* The papers that the finished phase reported as paywalled.
Paywalled == {p \in Papers : Done /\ status[p] = "PAYWALLED"}

\* POST /uploads for a paper that this run, now finished, or an earlier one reported
\* as paywalled, with that run's internalId, also while a run is under way; the two
\* bytes it looks at do not make the file a PDF.
Upload(p, n) ==
  /\ <<p, n>> \in offered \/ (n = run /\ p \in Paywalled)
  /\ \E file \in Files : vault' = [vault EXCEPT ![StorageKey(p, n)] = file]
  /\ uploaded' = [uploaded EXCEPT ![p] = run]
  /\ UNCHANGED <<run, cursor, pc, at, body, status, offered>>

\* Another run in the same process stores a PDF it downloaded.
OtherSession(p) ==
  /\ HasDoi[p]
  /\ vault' = [vault EXCEPT ![Key(p)] = "pdf"]
  /\ UNCHANGED <<run, cursor, pc, at, body, status, uploaded, offered>>

\* The user runs the query again.
Rerun ==
  /\ Done
  /\ run < MaxRuns
  /\ run' = run + 1
  /\ cursor' = FirstCursor
  /\ pc' = [w \in Workers |-> "exists"]
  /\ at' = [w \in Workers |-> w]
  /\ body' = [w \in Workers |-> "other"]
  /\ status' = [p \in Papers |-> "pending"]
  /\ offered' = offered \cup (Paywalled \X {run})
  /\ UNCHANGED <<vault, uploaded>>

Work(w) == Exists(w) \/ Unpaywall(w) \/ Download(w) \/ Put(w)

Next ==
  \/ \E w \in Workers : Work(w)
  \/ \E p \in Papers : OtherSession(p) \/ \E n \in 1 .. MaxRuns : Upload(p, n)
  \/ Rerun

Spec == Init /\ [][Next]_vars

----------------------------------------------------------------------------
(* Properties *)

\* resolve.ts:74: the workers share one cursor without a lock; still no two of
\* them are ever on one paper.
NoDoubleWork ==
  \A v, w \in Workers : v # w /\ Busy(v) /\ Busy(w) => at[v] # at[w]

\* resolve.ts:76: when Promise.all returns, the manifest has an entry for every
\* paper; workers stopping early, failing or overtaking one another lose none.
Complete == Done => \A p \in Papers : status[p] \in Final

\* An entry of the manifest is written once in a run.
WrittenOnce ==
  [][\A p \in Papers : status[p] # "pending" => status'[p] = status[p] \/ run' # run]_vars

\* What Phase 5 is pointed at exists, and is a PDF unless a user uploaded it.
PointersResolve ==
  \A p \in Papers : status[p] \in Resolved =>
    \/ vault[Key(p)] = "pdf"
    \/ vault[Key(p)] = "other" /\ uploaded[p] # 0

\* server.ts:293: what the user uploaded after one run, or in the course of another, is
\* found by the next ones.
FoundAgain(p) ==
  uploaded[p] \in 1 .. run - 1 => status[p] \in {"pending", "RESOLVED_CACHE"}

UploadHonoured == \A p \in Papers : FoundAgain(p)

\* The same, for the papers whose metadata carry a DOI.
UploadHonouredByDoi == \A p \in Papers : HasDoi[p] => FoundAgain(p)
=============================================================================
