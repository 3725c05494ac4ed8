----------------------- MODULE ResearchServer_proofs -----------------------
(***************************************************************************)
(* Safety of the orchestrator process for any number of jobs, streams and  *)
(* pages and any set of faults: the reports of a run, the streams that     *)
(* follow it, the History, and the promises of ResearchLifecycle.          *)
(***************************************************************************)
EXTENDS ResearchServer, SequenceTheorems, TLAPS

\* Every event a phase reports is an event.
LEMMA ReportType == \A k \in Phases : Report(k) \in Seq(Event)
<1> SUFFICES ASSUME NEW k \in Phases PROVE Report(k) \in Seq(Event)
  OBVIOUS
<1>1. CASE k < 7
  <2>1. k + 1 \in Phases  BY <1>1 DEF Phases
  <2> QED BY <1>1, <2>1 DEF Report, Event
<1>2. CASE k = 7  BY <1>2 DEF Report, Event
<1> QED BY <1>1, <1>2 DEF Phases

LEMMA ToldType ==
  ASSUME NEW n \in 0 .. 15
  PROVE  Told(n) \in Seq(Event) /\ Len(Told(n)) = n
<1>1. \A i \in 1 .. n : <<i \div 2, IF i % 2 = 1 THEN "done" ELSE "start">> \in Event
  BY DEF Event, Phases
<1>2. Told(n) \in [1 .. n -> Event]  BY <1>1 DEF Told
<1> QED BY <1>2

\* What a phase reports continues the story.
LEMMA ReportTold ==
  ASSUME NEW k \in Phases, NEW n \in 0 .. 15, n = IF k = 7 THEN 15 ELSE 2 * (k + 1)
  PROVE  Told(2 * k) \o Report(k) = Told(n)
<1> DEFINE whole == Told(2 * k) \o Report(k)
<1>1. 2 * k \in 0 .. 15 /\ Told(2 * k) \in Seq(Event) /\ Len(Told(2 * k)) = 2 * k
  <2>1. 2 * k \in 0 .. 15  BY DEF Phases
  <2> QED BY <2>1, ToldType
<1>2. Report(k) \in Seq(Event) /\ Len(Report(k)) = n - 2 * k
  <2>1. CASE k = 7  BY <2>1, ReportType DEF Report, Phases
  <2>2. CASE k # 7  BY <2>2, ReportType DEF Report, Phases
  <2> QED BY <2>1, <2>2
<1>3. /\ whole \in Seq(Event) /\ Len(whole) = n
      /\ \A i \in 1 .. n : whole[i] = IF i <= 2 * k THEN Told(2 * k)[i] ELSE Report(k)[i - 2 * k]
  <2>1. Len(Told(2 * k)) + Len(Report(k)) = n  BY <1>1, <1>2
  <2>2. /\ whole \in Seq(Event)
        /\ Len(whole) = Len(Told(2 * k)) + Len(Report(k))
        /\ \A i \in 1 .. Len(Told(2 * k)) + Len(Report(k)) :
             whole[i] = IF i <= Len(Told(2 * k)) THEN Told(2 * k)[i]
                                                 ELSE Report(k)[i - Len(Told(2 * k))]
    BY <1>1, <1>2, ConcatProperties
  <2> HIDE DEF whole
  <2> QED BY <1>1, <2>1, <2>2
<1>4. Told(n) \in Seq(Event) /\ Len(Told(n)) = n  BY ToldType
<1>5. ASSUME NEW i \in 1 .. n PROVE whole[i] = Told(n)[i]
  <2> HIDE DEF whole
  <2>1. CASE i <= 2 * k
    <3>1. i \in 1 .. 2 * k /\ Told(2 * k)[i] = Told(n)[i]  BY <2>1, <1>1 DEF Told
    <3> QED BY <2>1, <3>1, <1>3
  <2>2. CASE i = 2 * k + 1
    <3>1. i \div 2 = k /\ i % 2 = 1 /\ i - 2 * k = 1 /\ ~(i <= 2 * k)
      BY <2>2 DEF Phases
    <3>2. Report(k)[1] = <<k, "done">>  BY DEF Report
    <3>3. Told(n)[i] = <<k, "done">>  BY <3>1 DEF Told
    <3> QED BY <1>3, <3>1, <3>2, <3>3
  <2>3. CASE i = 2 * k + 2
    <3>1. i = 2 * (k + 1) /\ i - 2 * k = 2 /\ ~(i <= 2 * k) /\ k + 1 \in Nat
      BY <2>3, <1>1 DEF Phases
    <3>2. i \div 2 = k + 1 /\ i % 2 = 0  BY <3>1
    <3>3. k < 7  BY <2>3 DEF Phases
    <3>4. Report(k)[2] = <<k + 1, "start">>  BY <3>3 DEF Report
    <3>5. Told(n)[i] = <<k + 1, "start">>  BY <3>2 DEF Told
    <3> QED BY <1>3, <3>1, <3>4, <3>5
  <2> QED BY <2>1, <2>2, <2>3 DEF Phases
<1> HIDE DEF whole
<1>6. whole = Told(n)  BY <1>3, <1>4, <1>5, SeqEqual
<1> QED BY <1>6 DEF whole

LEMMA PrefixOfEmpty ==
  ASSUME NEW S, NEW t \in Seq(S)
  PROVE  IsPrefix(<<>>, t)
  BY SubSeqEmpty DEF IsPrefix

LEMMA PrefixGrows ==
  ASSUME NEW S, NEW s \in Seq(S), NEW t \in Seq(S), NEW u \in Seq(S), IsPrefix(s, t)
  PROVE  IsPrefix(s, t \o u)
<1>1. Len(s) \in Nat /\ Len(t) \in Nat /\ Len(s) <= Len(t)  BY DEF IsPrefix
<1>2. Len(t \o u) >= Len(t)  BY <1>1
<1>3. SubSeq(t \o u, 1, Len(s)) = SubSeq(t, 1, Len(s))
  BY <1>1, SubSeqOfConcat1
<1> QED BY <1>1, <1>2, <1>3 DEF IsPrefix

\* The while loop of the timer brings a stream up to date.
LEMMA DrainUpdates ==
  ASSUME NEW S, NEW s \in Seq(S), NEW t \in Seq(S), IsPrefix(s, t)
  PROVE  s \o SubSeq(t, Len(s) + 1, Len(t)) = t
<1>1. s = SubSeq(t, 1, Len(s)) /\ Len(s) \in Nat /\ Len(t) \in Nat /\ Len(s) <= Len(t)
  BY SubSeqFull DEF IsPrefix
<1>2. SubSeq(t, 1, Len(s)) \o SubSeq(t, Len(s) + 1, Len(t)) = SubSeq(t, 1, Len(t))
  <2>1. 1 \in 1 .. Len(t) + 1 /\ Len(s) \in 1 - 1 .. Len(t) /\ Len(t) \in Len(s) .. Len(t)
    BY <1>1
  <2> QED BY <2>1, ConcatAdjacentSubSeq
<1>3. SubSeq(t, 1, Len(t)) = t  BY SubSeqFull
<1> QED BY <1>1, <1>2, <1>3

----------------------------------------------------------------------------
(* Types *)

LEMMA InitType == Init => TypeOK
  BY DEF Init, TypeOK, Phases, Settled, Outcomes

\* A stream that is a prefix is brought up to date within the type.
LEMMA TickType ==
  ASSUME TypeOK, NEW s \in Streams, Tick(s)
  PROVE  TypeOK'
<1>1. Drained(s) \in Seq(Event)
  <2>1. got[s] \in Seq(Event) /\ events[of[s]] \in Seq(Event)  BY DEF TypeOK
  <2>2. SubSeq(events[of[s]], Len(got[s]) + 1, Len(events[of[s]])) \in Seq(Event)
    BY <2>1
  <2> QED BY <2>1, <2>2 DEF Drained
<1>2. got' \in [Streams -> Seq(Event)]  BY <1>1 DEF Tick, TypeOK
<1>3. /\ stream' \in [Streams -> {"closed", "open", "ended", "broken"}]
      /\ final' \in [Streams -> Outcomes \cup {"none"}]
  <2>1. CASE ~Over(of[s])  BY <2>1 DEF Tick, TypeOK
  <2>2. CASE Over(of[s])
    <3>1. outcome[of[s]] \in Outcomes \cup {"none"}  BY DEF TypeOK
    <3> QED BY <2>2, <3>1 DEF Tick, TypeOK
  <2> QED BY <2>1, <2>2
<1> QED BY <1>2, <1>3 DEF Tick, TypeOK, job, page

LEMMA EmitType ==
  ASSUME TypeOK, NEW j \in Jobs, NEW k \in Phases, Emit(j, k)
  PROVE  events' \in [Jobs -> Seq(Event)]
<1>1. events[j] \o Report(k) \in Seq(Event)  BY ReportType DEF TypeOK
<1> QED BY <1>1 DEF Emit, TypeOK

LEMMA StepType == TypeOK /\ [Next]_vars => TypeOK'
<1> SUFFICES ASSUME TypeOK, [Next]_vars PROVE TypeOK'
  OBVIOUS
<1> USE DEF job, wire, page
<1>1. CASE Crash  BY <1>1 DEF Crash, TypeOK, Settled
<1>2. CASE StoreReady  BY <1>2 DEF StoreReady, TypeOK
<1>3. CASE History  BY <1>3 DEF History, OpenStore, TypeOK
<1>4. ASSUME NEW j \in Jobs, Post(j) PROVE TypeOK'
  BY <1>4 DEF Post, TypeOK
<1>5. ASSUME NEW j \in Jobs, Complete(j) PROVE TypeOK'
  <2>1. phase[j] \in Phases /\ phase[j] + 1 \in Phases
    BY <1>5 DEF Complete, TypeOK, Phases
  <2>2. events' \in [Jobs -> Seq(Event)]  BY <1>5, <2>1, EmitType DEF Complete
  <2>3. phase' \in [Jobs -> Phases]  BY <1>5, <2>1 DEF Complete, TypeOK
  <2> QED BY <1>5, <2>2, <2>3 DEF Complete, TypeOK
<1>6. ASSUME NEW j \in Jobs, NEW o \in Outcomes, End(j, o) PROVE TypeOK'
  <2>1. events' \in [Jobs -> Seq(Event)]
    <3>1. CASE Emit(j, 7)  BY <3>1, EmitType DEF Phases
    <3>2. CASE UNCHANGED events  BY <3>2 DEF TypeOK
    <3> QED BY <1>6, <3>1, <3>2 DEF End
  <2>2. live' \in [Jobs -> {"new", "running", "done", "lost"}]
    BY <1>6 DEF End, TypeOK
  <2>3. outcome' \in [Jobs -> Outcomes \cup {"none"}]
    BY <1>6 DEF End, TypeOK
  <2>4. /\ saving' \in [Jobs -> {"none", "waiting", "sent"}]
        /\ ready' \in {"none", "pending", "ok", "failed"}
    BY <1>6 DEF End, TypeOK, SaveStarts, OpenStore
  <2> QED BY <1>6, <2>1, <2>2, <2>3, <2>4 DEF End, TypeOK
<1>7. ASSUME NEW j \in Jobs, SendSave(j) PROVE TypeOK'
  BY <1>7 DEF SendSave, TypeOK
<1>8. ASSUME NEW j \in Jobs, Commit(j) PROVE TypeOK'
  BY <1>8 DEF Commit, TypeOK
<1>9. ASSUME NEW s \in Streams, Tick(s) PROVE TypeOK'
  BY <1>9, TickType
<1>10. ASSUME NEW s \in Streams, Disconnect(s) PROVE TypeOK'
  BY <1>10 DEF Disconnect, TypeOK
<1>11. ASSUME NEW s \in Streams, NEW j \in Jobs, Connect(s, j) PROVE TypeOK'
  BY <1>11 DEF Connect, TypeOK
<1>12. ASSUME NEW p \in Pages, Poll(p) PROVE TypeOK'
  <2>1. shown' \in [Pages -> Settled \cup {"none", "loading", "running"}]
    <3>1. outcome[at[p]] \in Outcomes \cup {"none"}  BY DEF TypeOK
    <3>2. shown \in [Pages -> Settled \cup {"none", "loading", "running"}]  BY DEF TypeOK
    <3>3. \/ UNCHANGED shown
          \/ Shows(p, outcome[at[p]]) /\ live[at[p]] = "done"
          \/ Shows(p, "running")
          \/ Shows(p, "404")
      BY <1>12 DEF Poll, Shows
    <3>4. CASE UNCHANGED shown  BY <3>2, <3>4
    <3>5. CASE Shows(p, "running")  BY <3>2, <3>5 DEF Shows
    <3>6. CASE Shows(p, "404")  BY <3>2, <3>6 DEF Shows, Settled
    <3>7. CASE Shows(p, outcome[at[p]]) /\ live[at[p]] = "done"
      BY <3>1, <3>2, <3>7, <1>12 DEF Shows, Settled, Poll, TypeOK
    <3> QED BY <3>3, <3>4, <3>5, <3>6, <3>7
  <2>2. /\ asking' \in [Pages -> BOOLEAN]
        /\ ready' \in {"none", "pending", "ok", "failed"}
    BY <1>12 DEF Poll, OpenStore, TypeOK
  <2> QED BY <1>12, <2>1, <2>2 DEF Poll, TypeOK
<1>13. ASSUME NEW p \in Pages, Lookup(p) PROVE TypeOK'
  BY <1>13 DEF Lookup, Shows, TypeOK, Settled, Outcomes
<1>14. ASSUME NEW p \in Pages, NEW j \in Jobs, Open(p, j) PROVE TypeOK'
  BY <1>14 DEF Open, TypeOK
<1>15. CASE UNCHANGED vars  BY <1>15 DEF vars, TypeOK
<1> QED
  BY <1>1, <1>2, <1>3, <1>4, <1>5, <1>6, <1>7, <1>8, <1>9, <1>10, <1>11, <1>12,
     <1>13, <1>14, <1>15 DEF Next, Pipeline, Persist

\* Types, for any number of jobs, streams and pages.
THEOREM TypeCorrect == Spec => []TypeOK
  BY InitType, StepType, PTL DEF Spec

----------------------------------------------------------------------------
(* The reports of a run *)

LEMMA ChronicleInit == Init => Chronicle
<1>1. Told(0) = <<>>  BY DEF Told
<1> QED BY <1>1 DEF Init, Chronicle

\* Chronicle only speaks of the jobs.
LEMMA ChronicleKept == Chronicle /\ UNCHANGED job => Chronicle'
  BY DEF Chronicle, job

LEMMA ChronicleStep == TypeOK /\ Chronicle /\ [Next]_vars => Chronicle'
<1> SUFFICES ASSUME TypeOK, Chronicle, [Next]_vars PROVE Chronicle'
  OBVIOUS
<1>1. CASE Crash
  BY <1>1 DEF Crash, InMap, Chronicle, TypeOK
<1>2. ASSUME NEW j \in Jobs, Post(j) PROVE Chronicle'
  BY <1>2 DEF Post, Chronicle, TypeOK
<1>3. ASSUME NEW j \in Jobs, Complete(j) PROVE Chronicle'
  <2>1. phase[j] \in 0 .. 6 /\ outcome[j] = "none" /\ live[j] = "running"
    <3>1. live[j] = "running" /\ phase[j] < 7  BY <1>3 DEF Complete
    <3>2. phase[j] \in 0 .. 7  BY DEF TypeOK, Phases
    <3>3. outcome[j] = "none"  BY <3>1 DEF Chronicle
    <3> QED BY <3>1, <3>2, <3>3
  <2>2. events[j] = Told(2 * phase[j])  BY <2>1 DEF Chronicle
  <2>3. /\ phase[j] \in Phases /\ 2 * (phase[j] + 1) \in 0 .. 15
        /\ 2 * (phase[j] + 1) = IF phase[j] = 7 THEN 15 ELSE 2 * (phase[j] + 1)
    BY <2>1 DEF Phases
  <2>4. Told(2 * phase[j]) \o Report(phase[j]) = Told(2 * (phase[j] + 1))
    BY <2>3, ReportTold
  <2>5. events' = [events EXCEPT ![j] = Told(2 * (phase[j] + 1))]
    BY <1>3, <2>2, <2>4 DEF Complete, Emit
  <2>6. /\ phase' = [phase EXCEPT ![j] = phase[j] + 1]
        /\ live' = live /\ outcome' = outcome
    BY <1>3 DEF Complete
  <2>7. ASSUME NEW i \in Jobs
        PROVE  /\ events'[i] = Told(IF outcome'[i] = "ok" THEN 15 ELSE 2 * phase'[i])
               /\ live'[i] = "done" <=> (outcome'[i] # "none" /\ live'[i] # "lost")
               /\ outcome'[i] = "ok" => phase'[i] = 7
    <3>1. CASE i = j  BY <3>1, <2>1, <2>5, <2>6 DEF TypeOK
    <3>2. CASE i # j  BY <3>2, <2>5, <2>6 DEF TypeOK, Chronicle
    <3> QED BY <3>1, <3>2
  <2> QED BY <2>7 DEF Chronicle
<1>4. ASSUME NEW j \in Jobs, NEW o \in Outcomes, End(j, o) PROVE Chronicle'
  <2>1. outcome[j] = "none" /\ live[j] = "running"
    BY <1>4 DEF End, Chronicle, TypeOK
  <2>2. events[j] = Told(2 * phase[j])  BY <2>1 DEF Chronicle
  <2>3. /\ live' = [live EXCEPT ![j] = "done"]
        /\ outcome' = [outcome EXCEPT ![j] = o]
        /\ phase' = phase
    BY <1>4 DEF End
  <2>4. \/ o = "ok" /\ phase[j] = 7 /\ events' = [events EXCEPT ![j] = Told(15)]
        \/ o # "ok" /\ events' = events
    <3>1. CASE o = "ok" /\ phase[j] = 7 /\ Emit(j, 7)
      <4>1. Told(2 * 7) \o Report(7) = Told(15)
        BY ReportTold DEF Phases
      <4>2. events[j] = Told(2 * 7)  BY <3>1, <2>2
      <4>3. events[j] \o Report(7) = Told(15)  BY <4>1, <4>2
      <4> QED BY <3>1, <4>3 DEF Emit
    <3>2. CASE o # "ok" /\ UNCHANGED events  BY <3>2
    <3> QED BY <1>4, <3>1, <3>2 DEF End
  <2>5. ASSUME NEW i \in Jobs
        PROVE  /\ events'[i] = Told(IF outcome'[i] = "ok" THEN 15 ELSE 2 * phase'[i])
               /\ live'[i] = "done" <=> (outcome'[i] # "none" /\ live'[i] # "lost")
               /\ outcome'[i] = "ok" => phase'[i] = 7
    <3>1. CASE i = j
      <4>1. live'[i] = "done" /\ outcome'[i] = o /\ o # "none" /\ phase'[i] = phase[j]
        BY <3>1, <2>3 DEF TypeOK, Outcomes
      <4>2. CASE o = "ok"
        <5>1. phase[j] = 7 /\ events'[i] = Told(15)  BY <3>1, <4>2, <2>4 DEF TypeOK
        <5> QED BY <4>1, <4>2, <5>1
      <4>3. CASE o # "ok"
        <5>1. events'[i] = Told(2 * phase[j])  BY <3>1, <4>3, <2>2, <2>4
        <5> QED BY <4>1, <4>3, <5>1
      <4> QED BY <4>2, <4>3
    <3>2. CASE i # j
      <4>1. /\ live'[i] = live[i] /\ outcome'[i] = outcome[i] /\ phase'[i] = phase[i]
            /\ events'[i] = events[i]
        BY <3>2, <2>3, <2>4 DEF TypeOK
      <4> QED BY <4>1 DEF Chronicle
    <3> QED BY <3>1, <3>2
  <2> QED BY <2>5 DEF Chronicle
<1>5. CASE UNCHANGED job  BY <1>5, ChronicleKept
<1> QED
  BY <1>1, <1>2, <1>3, <1>4, <1>5
  DEF Next, Pipeline, Persist, StoreReady, History, SendSave, Commit, Tick, Disconnect,
      Connect, Poll, Lookup, Open, vars

\* What a run has reported is always the right beginning of the story, and its
\* result tells how far it went.
THEOREM ReportsInOrder == Spec => []Chronicle
<1>1. Init => TypeOK /\ Chronicle  BY InitType, ChronicleInit
<1>2. TypeOK /\ Chronicle /\ [Next]_vars => (TypeOK /\ Chronicle)'
  BY StepType, ChronicleStep
<1> QED BY <1>1, <1>2, PTL DEF Spec

----------------------------------------------------------------------------
(* The History *)

\* What is being saved is a brief, and so is what has been.
SavedInv == \A j \in Jobs : saving[j] # "none" \/ j \in db => outcome[j] = "ok"

LEMMA SavedStep ==
  ASSUME TypeOK, Chronicle, SavedInv, [Next]_vars
  PROVE  SavedInv'
<1>1. CASE Crash
  BY <1>1 DEF Crash, SavedInv, TypeOK
<1>2. ASSUME NEW j \in Jobs, NEW o \in Outcomes, End(j, o) PROVE SavedInv'
  <2>1. /\ outcome[j] = "none" /\ db' = db
        /\ outcome' = [outcome EXCEPT ![j] = o]
    BY <1>2 DEF End, Chronicle
  <2>2. CASE o = "ok"
    <3>1. saving' = [saving EXCEPT ![j] = "waiting"]
      BY <1>2, <2>2 DEF End, SaveStarts
    <3> QED BY <2>1, <2>2, <3>1 DEF SavedInv, TypeOK
  <2>3. CASE o # "ok"
    <3>1. saving' = saving  BY <1>2, <2>3 DEF End, SaveStarts
    <3> QED BY <2>1, <3>1 DEF SavedInv, TypeOK
  <2> QED BY <2>2, <2>3
<1>3. ASSUME NEW j \in Jobs, SendSave(j) PROVE SavedInv'
  BY <1>3 DEF SendSave, SavedInv, TypeOK, job
<1>4. ASSUME NEW j \in Jobs, Commit(j) PROVE SavedInv'
  <2>1. outcome[j] = "ok" /\ outcome' = outcome
    BY <1>4 DEF Commit, SavedInv, job
  <2>2. db' \subseteq db \cup {j} /\ saving' = [saving EXCEPT ![j] = "none"]
    BY <1>4 DEF Commit
  <2> QED BY <2>1, <2>2 DEF SavedInv, TypeOK
<1>5. CASE UNCHANGED <<outcome, saving, db>>
  BY <1>5 DEF SavedInv
<1> QED
  BY <1>1, <1>2, <1>3, <1>4, <1>5
  DEF Next, Pipeline, Persist, Post, Complete, StoreReady, History, Tick, Disconnect,
      Connect, Poll, Lookup, Open, vars, job

\* Whatever dies when, the History lists finished briefs and nothing else.
THEOREM HistorySound == Spec => []HistoryIsBriefs
<1> DEFINE I == TypeOK /\ Chronicle /\ SavedInv
<1>1. Init => I
  BY InitType, ChronicleInit DEF Init, SavedInv
<1>2. I /\ [Next]_vars => I'
  BY StepType, ChronicleStep, SavedStep
<1>3. I => HistoryIsBriefs
  BY DEF TypeOK, SavedInv, HistoryIsBriefs
<1> QED BY <1>1, <1>2, <1>3, PTL DEF Spec

----------------------------------------------------------------------------
(* The streams *)

\* StreamFaithful and why it lasts: an ended stream's job reports no more.
StreamInv ==
  \A s \in Streams :
    /\ IsPrefix(got[s], events[of[s]])
    /\ stream[s] = "closed" => got[s] = <<>>
    /\ stream[s] = "open" => live[of[s]] \in {"running", "done"}
    /\ stream[s] = "ended" => /\ live[of[s]] \in {"done", "lost"}
                              /\ got[s] = events[of[s]] /\ final[s] = outcome[of[s]]

\* The steps of a job that runs leave the streams of the others alone and only
\* lengthen its own.
LEMMA StreamOfJob ==
  ASSUME TypeOK, StreamInv, NEW j \in Jobs, live[j] = "running", UNCHANGED wire,
         NEW x \in Seq(Event),
         NEW l \in {"running", "done"}, live' = [live EXCEPT ![j] = l],
         NEW o, outcome' = [outcome EXCEPT ![j] = o],
         \/ events' = [events EXCEPT ![j] = @ \o x]
         \/ events' = events
  PROVE  StreamInv'
<1> SUFFICES ASSUME NEW s \in Streams
             PROVE /\ IsPrefix(got[s], events'[of[s]])
                   /\ stream[s] = "closed" => got[s] = <<>>
                   /\ stream[s] = "open" => live'[of[s]] \in {"running", "done"}
                   /\ stream[s] = "ended" => /\ live'[of[s]] \in {"done", "lost"}
                                             /\ got[s] = events'[of[s]]
                                             /\ final[s] = outcome'[of[s]]
  BY DEF StreamInv, wire
<1>1. /\ IsPrefix(got[s], events[of[s]])
      /\ got[s] \in Seq(Event) /\ of[s] \in Jobs /\ events[of[s]] \in Seq(Event)
  BY DEF StreamInv, TypeOK
<1>2. CASE of[s] = j
  <2>1. stream[s] # "ended"  BY <1>2 DEF StreamInv
  <2>2. events'[of[s]] = events[of[s]] \o x \/ events'[of[s]] = events[of[s]]
    BY <1>2 DEF TypeOK
  <2>3. IsPrefix(got[s], events[of[s]] \o x)  BY <1>1, PrefixGrows
  <2>4. live'[of[s]] = l  BY <1>2 DEF TypeOK
  <2> QED BY <1>1, <2>1, <2>2, <2>3, <2>4 DEF StreamInv
<1>3. CASE of[s] # j
  <2>1. /\ events'[of[s]] = events[of[s]]
        /\ live'[of[s]] = live[of[s]]
        /\ outcome'[of[s]] = outcome[of[s]]
    BY <1>1, <1>3 DEF TypeOK
  <2> QED BY <1>1, <2>1 DEF StreamInv
<1> QED BY <1>2, <1>3

LEMMA StreamTick ==
  ASSUME TypeOK, StreamInv, NEW s \in Streams, Tick(s)
  PROVE  StreamInv'
<1>1. got[s] \in Seq(Event) /\ events[of[s]] \in Seq(Event) /\ IsPrefix(got[s], events[of[s]])
  BY DEF TypeOK, StreamInv
<1>2. Drained(s) = events[of[s]]  BY <1>1, DrainUpdates DEF Drained
<1>3. /\ got' = [got EXCEPT ![s] = events[of[s]]]
      /\ of' = of /\ UNCHANGED job /\ stream[s] = "open"
  BY <1>2 DEF Tick
<1>4. IsPrefix(events[of[s]], events[of[s]])  BY DEF IsPrefix
<1>5. \/ ~Over(of[s]) /\ stream' = stream /\ final' = final
      \/ /\ Over(of[s])
         /\ stream' = [stream EXCEPT ![s] = "ended"]
         /\ final' = [final EXCEPT ![s] = outcome[of[s]]]
  BY DEF Tick
<1>6. ASSUME NEW r \in Streams
      PROVE  /\ IsPrefix(got'[r], events[of[r]])
             /\ stream'[r] = "closed" => got'[r] = <<>>
             /\ stream'[r] = "open" => live[of[r]] \in {"running", "done"}
             /\ stream'[r] = "ended" => /\ live[of[r]] \in {"done", "lost"}
                                        /\ got'[r] = events[of[r]]
                                        /\ final'[r] = outcome[of[r]]
  <2>1. CASE r = s
    <3>1. got'[r] = events[of[r]]  BY <1>3, <2>1 DEF TypeOK
    <3>2. CASE ~Over(of[s])
      BY <1>3, <1>4, <1>5, <2>1, <3>1, <3>2 DEF StreamInv
    <3>3. CASE Over(of[s])
      BY <1>4, <1>5, <2>1, <3>1, <3>3 DEF Over, TypeOK
    <3> QED BY <3>2, <3>3
  <2>2. CASE r # s
    <3>1. got'[r] = got[r] /\ stream'[r] = stream[r] /\ final'[r] = final[r]
      BY <1>3, <1>5, <2>2 DEF TypeOK
    <3> QED BY <3>1 DEF StreamInv
  <2> QED BY <2>1, <2>2
<1> QED BY <1>3, <1>6 DEF StreamInv, job

LEMMA StreamStep ==
  ASSUME TypeOK, StreamInv, [Next]_vars
  PROVE  StreamInv'
<1>1. CASE Crash
  BY <1>1 DEF Crash, InMap, StreamInv, TypeOK
<1>2. ASSUME NEW j \in Jobs, Post(j) PROVE StreamInv'
  BY <1>2 DEF Post, wire, StreamInv, TypeOK
<1>3. ASSUME NEW j \in Jobs, Complete(j) PROVE StreamInv'
  <2>1. Report(phase[j]) \in Seq(Event)  BY ReportType DEF TypeOK
  <2>2. /\ live[j] = "running" /\ live' = [live EXCEPT ![j] = "running"]
        /\ outcome' = [outcome EXCEPT ![j] = outcome[j]]
        /\ events' = [events EXCEPT ![j] = @ \o Report(phase[j])]
        /\ UNCHANGED wire
    BY <1>3 DEF Complete, Emit, TypeOK
  <2> QED BY <2>1, <2>2, StreamOfJob
<1>4. ASSUME NEW j \in Jobs, NEW o \in Outcomes, End(j, o) PROVE StreamInv'
  <2>1. Report(7) \in Seq(Event)  BY ReportType DEF Phases
  <2>2. /\ live[j] = "running" /\ live' = [live EXCEPT ![j] = "done"]
        /\ outcome' = [outcome EXCEPT ![j] = o]
        /\ \/ events' = [events EXCEPT ![j] = @ \o Report(7)]
           \/ events' = events
        /\ UNCHANGED wire
    BY <1>4 DEF End, Emit
  <2> QED BY <2>1, <2>2, StreamOfJob
<1>5. ASSUME NEW s \in Streams, Tick(s) PROVE StreamInv'
  BY <1>5, StreamTick
<1>6. ASSUME NEW s \in Streams, Disconnect(s) PROVE StreamInv'
  <2>1. \A r \in Streams : IsPrefix(<<>>, events[of[r]])
    BY PrefixOfEmpty DEF TypeOK
  <2> QED BY <1>6, <2>1 DEF Disconnect, StreamInv, TypeOK, job
<1>7. ASSUME NEW s \in Streams, NEW j \in Jobs, Connect(s, j) PROVE StreamInv'
  <2>1. IsPrefix(<<>>, events[j])  BY PrefixOfEmpty DEF TypeOK
  <2> QED BY <1>7, <2>1 DEF Connect, InMap, StreamInv, TypeOK, job
<1>8. CASE UNCHANGED <<job, wire>>
  BY <1>8 DEF StreamInv, job, wire
<1> QED
  BY <1>1, <1>2, <1>3, <1>4, <1>5, <1>6, <1>7, <1>8
  DEF Next, Pipeline, Persist, StoreReady, History, SendSave, Commit, Poll, Lookup, Open, vars

\* Whenever it connects and however its timer falls between the job's steps, a
\* stream delivers the job's events in order, each once, and ends with all of them
\* and the job's own result.
THEOREM StreamsFaithful == Spec => []StreamFaithful
<1> DEFINE I == TypeOK /\ StreamInv
<1>1. Init => I
  <2> SUFFICES ASSUME Init PROVE I
    OBVIOUS
  <2>1. TypeOK  BY InitType
  <2>2. \A s \in Streams : IsPrefix(<<>>, events[of[s]])  BY <2>1, PrefixOfEmpty DEF TypeOK
  <2>3. StreamInv  BY <2>2 DEF Init, StreamInv
  <2> QED BY <2>1, <2>3
<1>2. I /\ [Next]_vars => I'
  BY StepType, StreamStep
<1>3. I => StreamFaithful
  BY DEF StreamInv, StreamFaithful
<1> QED BY <1>1, <1>2, <1>3, PTL DEF Spec

----------------------------------------------------------------------------
(* The promises of ResearchLifecycle *)

\* A page is on a research that was posted; it asks the database only for one that
\* the job map has lost; a store that failed had a reason.
PageInv ==
  /\ \A p \in Pages :
       /\ shown[p] # "none" => live[at[p]] # "new"
       /\ asking[p] => live[at[p]] = "lost" /\ shown[p] \in {"loading", "running"}
  /\ ready = "failed" => "create" \in Faults

LEMMA PageStep ==
  ASSUME TypeOK, PageInv, [Next]_vars
  PROVE  PageInv'
<1>1. CASE Crash
  BY <1>1 DEF Crash, InMap, PageInv, TypeOK
<1>2. CASE StoreReady
  BY <1>2 DEF StoreReady, PageInv, TypeOK, job, page
<1>3. ASSUME UNCHANGED page, ready' = ready \/ OpenStore,
             NEW j \in Jobs, live' = live \/ (live[j] # "lost" /\ \E l \in {"running", "done"} : live' = [live EXCEPT ![j] = l])
      PROVE  PageInv'
  BY <1>3 DEF OpenStore, PageInv, TypeOK, page
<1>4. ASSUME NEW j \in Jobs, Post(j) PROVE PageInv'
  BY <1>3, <1>4 DEF Post
<1>5. ASSUME NEW j \in Jobs, Complete(j) PROVE PageInv'
  BY <1>3, <1>5 DEF Complete
<1>6. ASSUME NEW j \in Jobs, NEW o \in Outcomes, End(j, o) PROVE PageInv'
  BY <1>3, <1>6 DEF End, SaveStarts
<1>7. ASSUME NEW j \in Jobs, Persist(j) PROVE PageInv'
  BY <1>3, <1>7 DEF Persist, SendSave, Commit, job
<1>8. ASSUME NEW p \in Pages, Poll(p) PROVE PageInv'
  <2>1. /\ shown[p] \in {"loading", "running"} /\ at' = at /\ live' = live
        /\ ready' = ready \/ OpenStore
        /\ \/ asking' = asking /\ ~asking[p] /\ \E a : shown' = [shown EXCEPT ![p] = a]
           \/ /\ live[at[p]] \notin {"running", "done"}
              /\ asking' = [asking EXCEPT ![p] = TRUE] /\ shown' = shown
    BY <1>8 DEF Poll, Shows, Remembered, InMap, job
  <2>2. live[at[p]] # "new" /\ live[at[p]] \in {"new", "running", "done", "lost"}
    BY <2>1 DEF PageInv, TypeOK
  <2>3. ready' = "failed" => "create" \in Faults
    BY <2>1 DEF PageInv, OpenStore
  <2>4. CASE asking' = asking /\ ~asking[p] /\ \E a : shown' = [shown EXCEPT ![p] = a]
    BY <2>1, <2>2, <2>3, <2>4 DEF PageInv, TypeOK
  <2>5. CASE /\ live[at[p]] \notin {"running", "done"}
             /\ asking' = [asking EXCEPT ![p] = TRUE] /\ shown' = shown
    BY <2>1, <2>2, <2>3, <2>5 DEF PageInv, TypeOK
  <2> QED BY <2>1, <2>4, <2>5
<1>9. ASSUME NEW p \in Pages, Lookup(p) PROVE PageInv'
  <2>1. /\ asking[p] /\ at' = at /\ live' = live /\ ready' = ready
        /\ asking' = [asking EXCEPT ![p] = FALSE]
        /\ \E a : shown' = [shown EXCEPT ![p] = a]
    BY <1>9 DEF Lookup, Shows, job
  <2> QED BY <2>1 DEF PageInv, TypeOK
<1>10. ASSUME NEW p \in Pages, NEW j \in Jobs, Open(p, j) PROVE PageInv'
  BY <1>10 DEF Open, PageInv, TypeOK, job
<1>11. CASE UNCHANGED <<live, ready, page>>
  BY <1>11 DEF PageInv, page
<1>12. CASE History
  BY <1>12 DEF History, OpenStore, PageInv, page, job
<1> QED
  BY <1>1, <1>2, <1>4, <1>5, <1>6, <1>7, <1>8, <1>9, <1>10, <1>11, <1>12
  DEF Next, Pipeline, Tick, Disconnect, Connect, vars, job

\* The states of the specification.
ServerInv == TypeOK /\ Chronicle /\ SavedInv /\ PageInv

LEMMA ServerSound == Spec => []ServerInv
<1>1. Init => ServerInv
  BY InitType, ChronicleInit DEF Init, SavedInv, PageInv, ServerInv
<1>2. ServerInv /\ [Next]_vars => ServerInv'
  BY StepType, ChronicleStep, SavedStep, PageStep DEF ServerInv
<1> QED BY <1>1, <1>2, PTL DEF Spec

LEMMA PromiseInit == Init => Promise!Init
  BY DEF Init, Promise!Init, State, Present, InMap

\* A step that moves neither the map, nor a result, nor the History, nor a page.
LEMMA PromiseStutter ==
  ASSUME UNCHANGED <<live, outcome, db, at, shown>>
  PROVE  UNCHANGED Promise!vars
  BY DEF Promise!vars, State, Present, InMap

LEMMA PromisePost ==
  ASSUME TypeOK, Chronicle, NEW j \in Jobs, Post(j)
  PROVE  Promise!Begin(j)
<1>1. live[j] = "new" /\ outcome[j] = "none" /\ outcome' = outcome
  BY DEF Post, Chronicle
<1>2. live' = [live EXCEPT ![j] = "running"]  BY DEF Post
<1>3. State[j] = "new"  BY <1>1 DEF State
<1>4. State' = [State EXCEPT ![j] = "running"]  BY <1>1, <1>2 DEF State, TypeOK
<1>5. Present' = Present \cup {j}  BY <1>1, <1>2 DEF Present, InMap, TypeOK
<1> QED BY <1>3, <1>4, <1>5 DEF Promise!Begin, Post, page

LEMMA PromiseEnd ==
  ASSUME TypeOK, Chronicle, NEW j \in Jobs, NEW o \in Outcomes, End(j, o)
  PROVE  Promise!Finish(j)
<1>1. live[j] = "running" /\ outcome[j] = "none"
  BY DEF End, Chronicle
<1>2. live' = [live EXCEPT ![j] = "done"] /\ outcome' = [outcome EXCEPT ![j] = o] /\ o # "none"
  BY DEF End, Outcomes
<1>3. State[j] = "running" /\ j \in Present  BY <1>1 DEF State, Present, InMap
<1>4. State' = [State EXCEPT ![j] = o]  BY <1>1, <1>2 DEF State, TypeOK
<1>5. Present' = Present  BY <1>1, <1>2 DEF Present, InMap, TypeOK
<1> QED BY <1>3, <1>4, <1>5 DEF Promise!Finish, Promise!Outcomes, Outcomes, End, page

LEMMA PromiseCommit ==
  ASSUME TypeOK, Chronicle, SavedInv, NEW j \in Jobs, Commit(j)
  PROVE  Promise!Keep(j) \/ UNCHANGED Promise!vars
<1>1. outcome[j] = "ok" /\ State[j] = "ok"
  BY DEF Commit, SavedInv, State, Chronicle
<1>2. State' = State /\ Present' = Present
  BY DEF Commit, job, State, Present, InMap
<1>3. db' = db \cup {j} \/ db' = db  BY DEF Commit
<1> QED BY <1>1, <1>2, <1>3 DEF Promise!Keep, Promise!vars, Commit, page

LEMMA PromiseCrash ==
  ASSUME TypeOK, Crash
  PROVE  Promise!Forget
<1>1. Present' = {}  BY DEF Crash, Present, InMap, TypeOK
<1>2. State' = State  BY DEF Crash, State, InMap, TypeOK
<1>3. \E cut \in SUBSET Pages : shown' = [p \in Pages |-> IF p \in cut THEN "404" ELSE shown[p]]
  <2> DEFINE cut == {p \in Pages : asking[p]}
  <2>1. shown' = [p \in Pages |-> IF p \in cut THEN "404" ELSE shown[p]]  BY DEF Crash
  <2> QED BY <2>1
<1> QED BY <1>1, <1>2, <1>3 DEF Promise!Forget, Crash

LEMMA PromisePoll ==
  ASSUME TypeOK, Chronicle, PageInv, NEW p \in Pages, Poll(p)
  PROVE  Promise!Show(p) \/ UNCHANGED Promise!vars
<1>1. shown[p] \in {"loading", "running"} /\ at[p] \in Jobs  BY DEF Poll, TypeOK
<1>2. State' = State /\ Present' = Present /\ db' = db /\ at' = at
  BY DEF Poll, job, State, Present, InMap
<1>3. CASE Remembered(at[p]) /\ Shows(p, IF live[at[p]] = "done" THEN outcome[at[p]] ELSE "running")
  <2>1. live[at[p]] \in {"running", "done"} /\ at[p] \in Present
    BY <1>1, <1>3 DEF Remembered, Present, InMap
  <2>2. State[at[p]] = IF live[at[p]] = "done" THEN outcome[at[p]] ELSE "running"
    BY <1>1, <2>1 DEF State, Chronicle
  <2>3. Promise!Answer(at[p]) = State[at[p]]  BY <2>1 DEF Promise!Answer
  <2>4. shown' = [shown EXCEPT ![p] = Promise!Answer(at[p])]
    BY <1>3, <2>2, <2>3 DEF Shows
  <2> QED BY <1>1, <1>2, <2>4 DEF Promise!Show
<1>4. CASE shown' = shown
  BY <1>2, <1>4 DEF Promise!vars
<1>5. CASE "request" \in Faults /\ Shows(p, "404")
  BY <1>1, <1>2, <1>5 DEF Promise!Show, Shows
<1> QED BY <1>3, <1>4, <1>5 DEF Poll

LEMMA PromiseLookup ==
  ASSUME TypeOK, PageInv, NEW p \in Pages, Lookup(p)
  PROVE  Promise!Show(p)
<1>1. /\ shown[p] \in {"loading", "running"} /\ live[at[p]] = "lost"
      /\ ready = "failed" => "create" \in Faults
  BY DEF Lookup, PageInv
<1>2. State' = State /\ Present' = Present /\ db' = db /\ at' = at
  BY DEF Lookup, job, State, Present, InMap
<1>3. Promise!Answer(at[p]) = IF at[p] \in db THEN "ok" ELSE "404"
  BY <1>1 DEF Promise!Answer, Present, InMap
<1>4. \/ shown' = [shown EXCEPT ![p] = Promise!Answer(at[p])]
      \/ /\ Faults \cap {"create", "select", "request"} # {}
         /\ shown' = [shown EXCEPT ![p] = "404"]
  BY <1>1, <1>3 DEF Lookup, Shows, Found
<1> QED BY <1>1, <1>2, <1>4 DEF Promise!Show

LEMMA PromiseStep ==
  ASSUME ServerInv, [Next]_vars
  PROVE  [Promise!Next]_(Promise!vars)
<1> USE DEF ServerInv
<1>1. CASE Crash  BY <1>1, PromiseCrash DEF Promise!Next
<1>2. ASSUME NEW j \in Jobs, Post(j) PROVE Promise!Next
  BY <1>2, PromisePost DEF Promise!Next
<1>3. ASSUME NEW j \in Jobs, NEW o \in Outcomes, End(j, o) PROVE Promise!Next
  BY <1>3, PromiseEnd DEF Promise!Next
<1>4. ASSUME NEW j \in Jobs, Commit(j) PROVE [Promise!Next]_(Promise!vars)
  BY <1>4, PromiseCommit DEF Promise!Next
<1>5. ASSUME NEW p \in Pages, Poll(p) PROVE [Promise!Next]_(Promise!vars)
  BY <1>5, PromisePoll DEF Promise!Next
<1>6. ASSUME NEW p \in Pages, Lookup(p) PROVE Promise!Next
  BY <1>6, PromiseLookup DEF Promise!Next
<1>7. ASSUME NEW p \in Pages, NEW j \in Jobs, Open(p, j) PROVE Promise!Next
  <2>1. State[j] # "new"
    <3>1. live[j] # "new" /\ outcome[j] # "new"  BY <1>7 DEF Open, TypeOK, Outcomes
    <3> QED BY <3>1 DEF State
  <2>2. State' = State /\ Present' = Present
    BY <1>7 DEF Open, job, State, Present, InMap
  <2>3. Promise!Open(p, j)  BY <1>7, <2>1, <2>2 DEF Open, Promise!Open
  <2> QED BY <2>3 DEF Promise!Next
<1>8. CASE UNCHANGED <<live, outcome, db, at, shown>>
  BY <1>8, PromiseStutter
<1> QED
  BY <1>1, <1>2, <1>3, <1>4, <1>5, <1>6, <1>7, <1>8
  DEF Next, Pipeline, Persist, Complete, StoreReady, History, SendSave, Tick, Disconnect,
      Connect, vars, job, page

\* The orchestrator implements ResearchLifecycle, for any number of jobs, streams
\* and pages and whatever faults: while a process lives an answer only goes forward,
\* a crash takes back no more than what is not in the History, and that stays.
THEOREM PromisesKept == Spec => KeepsPromise
<1> QED BY ServerSound, PromiseInit, PromiseStep, PTL DEF Spec, KeepsPromise, Promise!Spec
=============================================================================
