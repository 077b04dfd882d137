------------------------- MODULE SourceSweepProofs -------------------------
(***************************************************************************)
(* The scheduler's sweeps: one of a source at a time, verdicts that stand, *)
(* a discover that is reached whatever the backlog, and a tally of         *)
(* failures that the runs bear out. The inductive invariant under all of   *)
(* them is LockInv: a sweep under way holds the lock of its source, and    *)
(* its run is open and younger than the recovery threshold.                *)
(***************************************************************************)
EXTENDS SourceSweep, FiniteSetTheorems, SequenceTheorems, TLAPS

\* A function on 1..n is a sequence of length n.
LEMMA AsSequence ==
  ASSUME NEW S, NEW n \in Nat, NEW f \in [1..n -> S]
  PROVE  f \in Seq(S) /\ Len(f) = n
<1>1. f \in Seq(S)
  BY SeqDef
<1> QED BY <1>1, LenProperties

\* The recovery timer's verdict on an abandoned run.
LEMMA SalvagedFacts ==
  ASSUME NEW run \in Run
  PROVE  /\ Salvaged(run) \in Run
         /\ Salvaged(run).source = run.source /\ Salvaged(run).counts = run.counts
         /\ Salvaged(run).status \in {"partial", "failed"}
BY DEF Salvaged, Run

\* Recovery gives a verdict to the abandoned runs and touches no other.
LEMMA RecoveredFacts ==
  ASSUME runs \in Seq(Run)
  PROVE  /\ Recovered \in Seq(Run) /\ Len(Recovered) = Len(runs) /\ DOMAIN Recovered = DOMAIN runs
         /\ \A r \in DOMAIN runs :
              /\ Recovered[r].source = runs[r].source /\ Recovered[r].counts = runs[r].counts
              /\ r \notin Abandoned => Recovered[r] = runs[r]
              /\ r \in Abandoned => Recovered[r].status \in {"partial", "failed"}
<1>1. /\ DOMAIN Recovered = 1..Len(runs) /\ DOMAIN runs = 1..Len(runs) /\ Len(runs) \in Nat
      /\ \A r \in DOMAIN runs : runs[r] \in Run
  BY DEF Recovered
<1>2. \A r \in DOMAIN runs : Recovered[r] = IF r \in Abandoned THEN Salvaged(runs[r]) ELSE runs[r]
  BY DEF Recovered
<1>3. \A r \in DOMAIN runs : Recovered[r] \in Run
  BY <1>1, <1>2, SalvagedFacts
<1>4. Recovered \in [1..Len(runs) -> Run]
  BY <1>1, <1>3 DEF Recovered
<1>5. Recovered \in Seq(Run) /\ Len(Recovered) = Len(runs)
  BY <1>1, <1>4, AsSequence
<1> QED BY <1>1, <1>2, <1>5, SalvagedFacts

\* Settling a job adds to the counts of its run, and to nothing else of it.
LEMMA RecordFacts ==
  ASSUME runs \in Seq(Run), stops \in Nat, errors \in Nat, stops + errors <= MaxMishaps,
         NEW j, NEW tally \in Tally, Record(j, tally)
  PROVE  /\ runs' \in Seq(Run) /\ Len(runs') = Len(runs) /\ DOMAIN runs' = DOMAIN runs
         /\ \A r \in DOMAIN runs :
              /\ runs'[r].source = runs[r].source /\ runs'[r].status = runs[r].status
              /\ runs[r].counts \subseteq runs'[r].counts
         /\ errors' \in Nat /\ stops + errors' <= MaxMishaps
<1>0. MaxMishaps \in Nat
  BY SweepConstants
<1>1. CASE runs' = runs
  BY <1>0, <1>1 DEF Record
<1>2. CASE runs' = [runs EXCEPT ![jobs[j].run].counts = @ \cup tally] /\ errors' = errors
  <2> DEFINE x == jobs[j].run
  <2>1. DOMAIN runs = 1..Len(runs) /\ Len(runs) \in Nat /\ \A r \in DOMAIN runs : runs[r] \in Run
    OBVIOUS
  <2>2. DOMAIN runs' = DOMAIN runs
    BY <1>2
  <2>3. \A r \in DOMAIN runs : r # x => runs'[r] = runs[r]
    BY <1>2
  <2>4. x \in DOMAIN runs => /\ runs'[x] \in Run
                            /\ runs'[x].source = runs[x].source /\ runs'[x].status = runs[x].status
                            /\ runs[x].counts \subseteq runs'[x].counts
    BY <1>2, <2>1 DEF Run, Tally
  <2>5. runs' \in [1..Len(runs) -> Run]
    BY <1>2, <2>1, <2>2, <2>3, <2>4
  <2>6. runs' \in Seq(Run) /\ Len(runs') = Len(runs)
    BY <2>1, <2>5, AsSequence
  <2> QED BY <1>2, <2>2, <2>3, <2>4, <2>6
<1> QED BY <1>1, <1>2 DEF Record

\* Where a sweep can be.
Pcs == {"none", "opened", "found", "own", "help", "drained", "read"}

\* A field of a sweep's record changes within its range.
LEMMA SweepSet ==
  ASSUME NEW s \in [Sweeps -> Sweep], NEW w \in Sweeps
  PROVE  /\ \A x \in Pcs : [s EXCEPT ![w].pc = x] \in [Sweeps -> Sweep]
         /\ \A x \in 0..MaxRuns : [s EXCEPT ![w].run = x] \in [Sweeps -> Sweep]
         /\ \A x \in Discovers \cup {Nobody} : [s EXCEPT ![w].seen = x] \in [Sweeps -> Sweep]
         /\ \A x \in {"early", "ticked", "late"} : [s EXCEPT ![w].clock = x] \in [Sweeps -> Sweep]
         /\ \A x \in BOOLEAN : [s EXCEPT ![w].processed = x] \in [Sweeps -> Sweep]
         /\ \A x \in {"finished", "deadline", "threw"} : [s EXCEPT ![w].outcome = x] \in [Sweeps -> Sweep]
         /\ \A x \in Tally : [s EXCEPT ![w].read = x] \in [Sweeps -> Sweep]
<1>1. \A x \in Pcs : [s EXCEPT ![w].pc = x] \in [Sweeps -> Sweep]
  BY DEF Pcs, Sweep
<1>2. \A x \in 0..MaxRuns : [s EXCEPT ![w].run = x] \in [Sweeps -> Sweep]
  BY DEF Sweep
<1>3. \A x \in Discovers \cup {Nobody} : [s EXCEPT ![w].seen = x] \in [Sweeps -> Sweep]
  BY DEF Sweep
<1>4. \A x \in {"early", "ticked", "late"} : [s EXCEPT ![w].clock = x] \in [Sweeps -> Sweep]
  BY DEF Sweep
<1>5. \A x \in BOOLEAN : [s EXCEPT ![w].processed = x] \in [Sweeps -> Sweep]
  BY DEF Sweep
<1>6. \A x \in {"finished", "deadline", "threw"} : [s EXCEPT ![w].outcome = x] \in [Sweeps -> Sweep]
  BY DEF Sweep
<1>7. \A x \in Tally : [s EXCEPT ![w].read = x] \in [Sweeps -> Sweep]
  BY DEF Sweep
<1> QED BY <1>1, <1>2, <1>3, <1>4, <1>5, <1>6, <1>7

\* A claim keeps the types of jobs and hands.
LEMMA TakeFacts ==
  ASSUME TypeOK, NEW w \in Workers, NEW j \in Jobs, Take(w, j)
  PROVE  /\ jobs' \in [Jobs -> Job] /\ hand' \in [Workers -> Jobs \cup {Nobody}]
         /\ reached' \subseteq Sources
BY DEF Take, TypeOK, Job

\* A job changes its status within its range.
LEMMA JobSet ==
  ASSUME NEW j \in Jobs, jobs \in [Jobs -> Job],
         NEW st \in {"waiting", "due", "running", "done", "blocked"}
  PROVE  [jobs EXCEPT ![j].status = st] \in [Jobs -> Job]
BY DEF Job

\* The end of a drain keeps the types of the sweeps.
LEMMA DrainedFacts ==
  ASSUME sweep \in [Sweeps -> Sweep], NEW w \in Sweeps,
         NEW how \in {"finished", "deadline", "threw"}, Drained(w, how)
  PROVE  sweep' \in [Sweeps -> Sweep]
<1>1. [sweep EXCEPT ![w].pc = "drained"] \in [Sweeps -> Sweep]
  BY SweepSet DEF Pcs
<1>2. [[sweep EXCEPT ![w].pc = "drained"] EXCEPT ![w].outcome = how] \in [Sweeps -> Sweep]
  BY <1>1, SweepSet
<1> QED BY <1>2 DEF Drained

\* A sweep under way has a run.
HasRun == \A w \in Sweeps : Sweeping(w) => sweep[w].run \in DOMAIN runs

\* Closing a run gives it a verdict and its counts, and changes no other.
LEMMA ClosedRun ==
  ASSUME runs \in Seq(Run), NEW x \in DOMAIN runs, NEW c \in Tally,
         NEW st \in {"succeeded", "partial", "failed"},
         runs' = [runs EXCEPT ![x].status = st, ![x].counts = c]
  PROVE  /\ runs' \in Seq(Run) /\ Len(runs') = Len(runs)
         /\ runs'[x].source = runs[x].source /\ runs'[x].status = st /\ runs'[x].counts = c
         /\ \A r \in DOMAIN runs : r # x => runs'[r] = runs[r]
<1>1. DOMAIN runs = 1..Len(runs) /\ Len(runs) \in Nat /\ \A r \in DOMAIN runs : runs[r] \in Run
  OBVIOUS
<1>2. DOMAIN runs' = DOMAIN runs /\ \A r \in DOMAIN runs : r # x => runs'[r] = runs[r]
  OBVIOUS
<1>3. /\ runs'[x] \in Run /\ runs'[x].source = runs[x].source
      /\ runs'[x].status = st /\ runs'[x].counts = c
  BY <1>1 DEF Run
<1>4. runs' \in [1..Len(runs) -> Run]
  BY <1>1, <1>2, <1>3
<1>5. \A f \in [1..Len(runs) -> Run] : f \in Seq(Run) /\ Len(f) = Len(runs)
  BY <1>1, AsSequence
<1> QED BY <1>2, <1>3, <1>4, <1>5

\* A run is classified as one of three verdicts.
LEMMA ClassifyFacts == \A s : Classify(s) \in {"succeeded", "partial", "failed"}
BY DEF Classify

\* The types hold at first.
LEMMA SweepInitTyped == Init => TypeOK
<1> SUFFICES ASSUME Init PROVE TypeOK
  OBVIOUS
<1>1. NoSweep \in Sweep /\ [status |-> "absent", run |-> 0] \in Job
  BY SweepConstants DEF NoSweep, Sweep, Tally, Job
<1>2. /\ lock \in [Sources -> Servers \cup {Nobody}] /\ hand \in [Workers -> Jobs \cup {Nobody}]
      /\ failures \in [Sources -> Nat]
  BY DEF Init
<1>3. sweep \in [Sweeps -> Sweep] /\ jobs \in [Jobs -> Job]
  BY <1>1 DEF Init
<1>4. /\ runs \in Seq(Run) /\ Len(runs) <= MaxRuns /\ old \subseteq DOMAIN runs /\ reached \subseteq Sources
      /\ stops \in Nat /\ errors \in Nat /\ stops + errors <= MaxMishaps
  BY SweepConstants DEF Init
<1> QED BY <1>2, <1>3, <1>4 DEF TypeOK

\* Every step keeps the types; opening, closing and recovering need that a
\* sweep under way has a run.
LEMMA SweepStepTyped == TypeOK /\ HasRun /\ [Next]_vars => TypeOK'
<1> SUFFICES ASSUME TypeOK, HasRun, [Next]_vars PROVE TypeOK'
  OBVIOUS
<1>0. /\ MaxRuns \in Nat /\ MaxMishaps \in Nat /\ NoSweep \in Sweep
      /\ Sweeps \subseteq Workers /\ \A w \in Sweeps : Source(w) \in Sources /\ w[1] \in Servers
  BY SweepConstants DEF NoSweep, Sweep, Tally, Workers, Source
<1>1. ASSUME NEW w \in Sweeps, Open(w) PROVE TypeOK'
  <2> DEFINE run == [source |-> Source(w), counts |-> {}, status |-> "running"]
  <2>1. run \in Run
    BY <1>0 DEF Run, Tally
  <2>2. Recovered \in Seq(Run) /\ Len(Recovered) = Len(runs)
    BY RecoveredFacts DEF TypeOK
  <2>3. /\ runs' \in Seq(Run) /\ Len(runs') = Len(runs) + 1 /\ Len(runs) + 1 \in 0..MaxRuns
        /\ DOMAIN runs \subseteq DOMAIN runs'
    BY <1>0, <1>1, <2>1, <2>2 DEF Open, TypeOK
  <2>4. sweep' \in [Sweeps -> Sweep]
    <3>1. [sweep EXCEPT ![w].pc = "opened"] \in [Sweeps -> Sweep]
      BY SweepSet DEF TypeOK, Pcs
    <3>2. [[sweep EXCEPT ![w].pc = "opened"] EXCEPT ![w].run = Len(runs) + 1] \in [Sweeps -> Sweep]
      BY <2>3, <3>1, SweepSet
    <3> QED BY <1>1, <3>2 DEF Open
  <2> QED BY <1>0, <1>1, <2>3, <2>4 DEF Open, TypeOK
<1>2. ASSUME NEW w \in Sweeps, FindDiscover(w) PROVE TypeOK'
  <2>1. PICK j \in OldestPending(w) : sweep' = [sweep EXCEPT ![w].pc = "found", ![w].seen = j]
    BY <1>2 DEF FindDiscover
  <2>2. j \in Discovers \cup {Nobody}
    BY DEF OldestPending, PendingDiscovers
  <2>3. sweep' \in [Sweeps -> Sweep]
    <3>1. [sweep EXCEPT ![w].pc = "found"] \in [Sweeps -> Sweep]
      BY SweepSet DEF TypeOK, Pcs
    <3>2. [[sweep EXCEPT ![w].pc = "found"] EXCEPT ![w].seen = j] \in [Sweeps -> Sweep]
      BY <2>2, <3>1, SweepSet
    <3> QED BY <2>1, <3>2
  <2> QED BY <1>2, <2>3 DEF FindDiscover, TypeOK
<1>3. ASSUME NEW w \in Sweeps, SeeToDiscover(w) PROVE TypeOK'
  <2>1. sweep' \in [Sweeps -> Sweep]
    <3>1. [sweep EXCEPT ![w].pc = "own"] \in [Sweeps -> Sweep]
      BY SweepSet DEF TypeOK, Pcs
    <3>2. [[sweep EXCEPT ![w].pc = "own"] EXCEPT ![w].seen = Nobody] \in [Sweeps -> Sweep]
      BY <3>1, SweepSet
    <3> QED BY <1>3, <3>2 DEF SeeToDiscover
  <2>2. [status |-> "due", run |-> sweep[w].run] \in Job
    BY DEF TypeOK, Sweep, Job
  <2>3. jobs' \in [Jobs -> Job]
    BY <1>3, <2>2 DEF SeeToDiscover, TypeOK
  <2> QED BY <1>3, <2>1, <2>3 DEF SeeToDiscover, TypeOK
<1>4. ASSUME NEW w \in Sweeps, ClaimOwn(w) \/ ClaimAny(w) PROVE TypeOK'
  <2>1. sweep' \in [Sweeps -> Sweep]
    <3>1. [sweep EXCEPT ![w].clock = "ticked"] \in [Sweeps -> Sweep]
      BY SweepSet DEF TypeOK
    <3> QED BY <1>4, <3>1 DEF ClaimOwn, ClaimAny
  <2>2. \E j \in Jobs : Take(w, j)
    BY <1>4 DEF ClaimOwn, ClaimAny, OwnDue, Due
  <2> QED BY <1>0, <2>1, <2>2, TakeFacts DEF Take, TypeOK
<1>5. ASSUME NEW w \in Sweeps, EndOwn(w) \/ EndHelp(w) \/ TimeUp(w) PROVE TypeOK'
  <2>1. \A how \in {"deadline", "finished"} : Drained(w, how) => sweep' \in [Sweeps -> Sweep]
    BY DrainedFacts DEF TypeOK
  <2>2. sweep' \in [Sweeps -> Sweep]
    <3>1. /\ [sweep EXCEPT ![w].pc = "help"] \in [Sweeps -> Sweep]
          /\ [sweep EXCEPT ![w].clock = "late"] \in [Sweeps -> Sweep]
      BY SweepSet DEF TypeOK, Pcs
    <3>2. CASE EndOwn(w)
      BY <2>1, <3>1, <3>2 DEF EndOwn
    <3>3. CASE EndHelp(w)
      <4>1. PICK how \in {"deadline", "finished"} : Drained(w, how)
        BY <3>3 DEF EndHelp
      <4> QED BY <2>1, <4>1
    <3>4. CASE TimeUp(w)
      BY <3>1, <3>4 DEF TimeUp
    <3> QED BY <1>5, <3>2, <3>3, <3>4
  <2> QED BY <1>5, <2>2 DEF EndOwn, EndHelp, TimeUp, TypeOK
<1>6. ASSUME NEW w \in Sweeps, ReadCounts(w) PROVE TypeOK'
  <2>1. runs[sweep[w].run].counts \in Tally
    <3>1. sweep[w].run \in DOMAIN runs
      BY <1>6 DEF ReadCounts, At, Sweeping, HasRun
    <3>2. runs[sweep[w].run] \in Run
      BY <3>1 DEF TypeOK
    <3> QED BY <3>2 DEF Run
  <2>2. sweep' \in [Sweeps -> Sweep]
    <3>1. [sweep EXCEPT ![w].pc = "read"] \in [Sweeps -> Sweep]
      BY SweepSet DEF TypeOK, Pcs
    <3>2. [[sweep EXCEPT ![w].pc = "read"] EXCEPT ![w].read = runs[sweep[w].run].counts]
            \in [Sweeps -> Sweep]
      BY <2>1, <3>1, SweepSet
    <3> QED BY <1>6, <3>2 DEF ReadCounts
  <2> QED BY <1>6, <2>2 DEF ReadCounts, TypeOK
<1>7. ASSUME NEW w \in Sweeps, Close(w) PROVE TypeOK'
  <2> DEFINE s == sweep[w]
  <2>1. s \in Sweep /\ s.read \in Tally /\ s.run \in DOMAIN runs
    BY <1>7 DEF Close, At, Sweeping, HasRun, TypeOK, Sweep
  <2>2. runs' = [runs EXCEPT ![s.run].status = Classify(s), ![s.run].counts = s.read]
    BY <1>7 DEF Close
  <2>3. runs' \in Seq(Run) /\ Len(runs') = Len(runs)
    BY <2>1, <2>2, ClosedRun, ClassifyFacts DEF TypeOK
  <2>4. failures' \in [Sources -> Nat]
    <3>1. Health(Classify(s), s.read, failures[Source(w)]) \in Nat
      BY <1>0 DEF Health, TypeOK
    <3> QED BY <1>0, <1>7, <3>1 DEF Close, TypeOK
  <2> QED BY <1>0, <1>7, <2>3, <2>4 DEF Close, TypeOK
<1>8. ASSUME NEW w \in Sweeps, Throw(w) PROVE TypeOK'
  <2>1. sweep' \in [Sweeps -> Sweep]
    BY <1>8, DrainedFacts DEF Throw, TypeOK
  <2>2. errors' \in Nat /\ stops + errors' <= MaxMishaps
    BY <1>0, <1>8 DEF Throw, TypeOK
  <2> QED BY <1>8, <2>1, <2>2 DEF Throw, TypeOK
<1>9. ASSUME NEW w \in Sweeps, Stop(w) PROVE TypeOK'
  <2>1. stops' \in Nat /\ stops' + errors <= MaxMishaps
    BY <1>0, <1>9 DEF Stop, TypeOK
  <2> QED BY <1>0, <1>9, <2>1 DEF Stop, TypeOK
<1>10. CASE ClaimLoop
  <2>1. Loop \in Workers /\ \E j \in Jobs : Take(Loop, j)
    BY <1>10 DEF ClaimLoop, Due, Workers
  <2>2. sweep' = sweep
    BY <1>10 DEF ClaimLoop
  <2> QED BY <2>1, <2>2, TakeFacts DEF Take, TypeOK
<1>11. ASSUME NEW w \in Workers, Settle(w) PROVE TypeOK'
  <2>1. hand[w] \in Jobs
    BY <1>11 DEF Settle, TypeOK
  <2>2. PICK tally \in {{"work"}, {"errors"}} : Record(hand[w], tally)
    BY <1>11 DEF Settle, Succeeds, Fails
  <2>3. tally \in Tally
    BY DEF Tally
  <2>4. /\ runs' \in Seq(Run) /\ Len(runs') = Len(runs) /\ DOMAIN runs' = DOMAIN runs
        /\ errors' \in Nat /\ stops + errors' <= MaxMishaps
    BY <2>2, <2>3, RecordFacts DEF TypeOK
  <2>5. jobs' \in [Jobs -> Job]
    <3>1. CASE Fails(hand[w])
      <4>1. PICK st \in {"waiting", "blocked"} : jobs' = [jobs EXCEPT ![hand[w]].status = st]
        BY <3>1 DEF Fails
      <4> QED BY <2>1, <4>1, JobSet DEF TypeOK
    <3>2. CASE Succeeds(w, hand[w])
      <4>1. [jobs[hand[w]] EXCEPT !.status = "done"] \in Job
        BY <2>1 DEF TypeOK, Job
      <4>2. [status |-> "due", run |-> jobs[hand[w]].run] \in Job
        BY <2>1 DEF TypeOK, Job
      <4> QED BY <3>2, <4>1, <4>2 DEF Succeeds, TypeOK
    <3> QED BY <1>11, <3>1, <3>2 DEF Settle
  <2>6. sweep' \in [Sweeps -> Sweep]
    <3>1. w \in Sweeps => [sweep EXCEPT ![w].processed = TRUE] \in [Sweeps -> Sweep]
      BY SweepSet DEF TypeOK
    <3>2. w \in Sweeps \/ w = Loop
      BY DEF Workers
    <3> QED BY <1>11, <3>1, <3>2 DEF Settle, Succeeds, Fails, TypeOK
  <2>7. hand' \in [Workers -> Jobs \cup {Nobody}] /\ UNCHANGED <<lock, old, failures, reached, stops>>
    BY <1>11 DEF Settle, TypeOK
  <2> QED BY <2>4, <2>5, <2>6, <2>7 DEF TypeOK
<1>12. ASSUME NEW r \in 1..MaxRuns, GetsOld(r) PROVE TypeOK'
  BY <1>12 DEF GetsOld, Unclosed, TypeOK
<1>13. CASE RecoverRuns
  BY <1>13, RecoveredFacts DEF RecoverRuns, TypeOK
<1>14. ASSUME NEW j \in Jobs, RecoverJob(j) \/ FallsDue(j) PROVE TypeOK'
  BY <1>14, JobSet DEF RecoverJob, FallsDue, TypeOK
<1>15. CASE UNCHANGED vars
  BY <1>15 DEF vars, TypeOK
<1> QED
  BY <1>1, <1>2, <1>3, <1>4, <1>5, <1>6, <1>7, <1>8, <1>9, <1>10, <1>11, <1>12, <1>13, <1>14, <1>15
  DEF Next, Steps, DrainSteps, Closes

\* A sweep under way holds its source's lock, and its run is still open, of its
\* source, and younger than the recovery threshold.
Held(w) ==
  Sweeping(w) =>
    /\ lock[Source(w)] = w[1] /\ sweep[w].run \in DOMAIN runs
    /\ runs[sweep[w].run].source = Source(w) /\ runs[sweep[w].run].status = "running"
    /\ sweep[w].run \notin old
\* What the advisory lock guarantees of every sweep.
LockInv == \A w \in Sweeps : Held(w)

\* Between its opening and its end a sweep keeps its run.
Keeps == \A v \in Sweeps : (Sweeping(v)' <=> Sweeping(v)) /\ sweep'[v].run = sweep[v].run
\* The steps of a sweep that leave locks and runs alone.
Quiet(w) == FindDiscover(w) \/ SeeToDiscover(w) \/ DrainSteps(w) \/ ReadCounts(w) \/ Throw(w) \/ TimeUp(w)

\* A quiet step keeps every sweep on its run.
LEMMA QuietKeeps ==
  ASSUME TypeOK, NEW w \in Sweeps, Quiet(w)
  PROVE  Keeps /\ UNCHANGED <<lock, runs, old>>
<1>1. UNCHANGED <<lock, runs, old>>
  BY DEF Quiet, FindDiscover, SeeToDiscover, DrainSteps, ClaimOwn, ClaimAny, Take, EndOwn, EndHelp,
         ReadCounts, Throw, TimeUp
<1>2. sweep \in [Sweeps -> Sweep]
  BY DEF TypeOK
<1>3. \A how : Drained(w, how) /\ Sweeping(w) => Keeps
  BY <1>2 DEF Drained, Keeps, Sweeping, At, Sweep
<1>4. CASE FindDiscover(w)
  BY <1>1, <1>2, <1>4 DEF FindDiscover, Keeps, Sweeping, At, Sweep
<1>5. CASE SeeToDiscover(w)
  BY <1>1, <1>2, <1>5 DEF SeeToDiscover, Keeps, Sweeping, At, Sweep
<1>6. CASE ClaimOwn(w) \/ ClaimAny(w)
  BY <1>1, <1>2, <1>6 DEF ClaimOwn, ClaimAny, Keeps, Sweeping, At, Sweep
<1>7. CASE EndOwn(w)
  <2>1. CASE sweep' = [sweep EXCEPT ![w].pc = "help"]
    BY <1>1, <1>2, <1>7, <2>1 DEF EndOwn, Keeps, Sweeping, At, Sweep
  <2>2. CASE Drained(w, "deadline")
    BY <1>1, <1>3, <1>7, <2>2 DEF EndOwn, Sweeping, At
  <2> QED BY <1>7, <2>1, <2>2 DEF EndOwn
<1>8. CASE EndHelp(w)
  BY <1>1, <1>3, <1>8 DEF EndHelp, Sweeping, At
<1>9. CASE ReadCounts(w)
  BY <1>1, <1>2, <1>9 DEF ReadCounts, Keeps, Sweeping, At, Sweep
<1>10. CASE Throw(w)
  BY <1>1, <1>3, <1>10 DEF Throw, Sweeping, At
<1>11. CASE TimeUp(w)
  BY <1>1, <1>2, <1>11 DEF TimeUp, Keeps, Sweeping, At, Sweep
<1> QED BY <1>4, <1>5, <1>6, <1>7, <1>8, <1>9, <1>10, <1>11 DEF Quiet, DrainSteps

\* Settling a job keeps every sweep on its run.
LEMMA SettleKeeps ==
  ASSUME TypeOK, NEW w \in Workers, Settle(w)
  PROVE  Keeps /\ UNCHANGED <<lock, old>>
<1>1. UNCHANGED <<lock, old>> /\ (w \in Sweeps \/ w = Loop)
  BY DEF Workers, Settle
<1>2. sweep' = sweep \/ (w \in Sweeps /\ sweep' = [sweep EXCEPT ![w].processed = TRUE])
  BY <1>1 DEF Settle, Succeeds, Fails
<1>3. CASE sweep' = sweep
  BY <1>1, <1>3 DEF Keeps, Sweeping, At
<1>4. CASE w \in Sweeps /\ sweep' = [sweep EXCEPT ![w].processed = TRUE]
  <2>1. sweep \in [Sweeps -> Sweep]
    BY DEF TypeOK
  <2> QED BY <1>1, <1>4, <2>1 DEF Keeps, Sweeping, At, Sweep
<1> QED BY <1>2, <1>3, <1>4

\* Two sweeps of one source hold the same lock, in the same process.
LEMMA LockIsExclusive ==
  ASSUME LockInv, NEW v \in Sweeps, NEW w \in Sweeps, Sweeping(v), Sweeping(w),
         Source(v) = Source(w)
  PROVE  v = w
<1>1. v[1] = w[1]
  BY DEF LockInv, Held
<1>2. v = <<v[1], v[2]>> /\ w = <<w[1], w[2]>>
  BY SweepConstants
<1> QED BY <1>1, <1>2 DEF Source

\* What a step does to the runs that stand.
RunsKept ==
  /\ DOMAIN runs \subseteq DOMAIN runs'
  /\ \A r \in DOMAIN runs : runs'[r].source = runs[r].source
  /\ \A r \in DOMAIN runs \ old : runs[r].status = "running" => runs'[r].status = "running"

\* What a step has to keep for LockInv to hold after it.
LEMMA LocksKept ==
  ASSUME LockInv, Keeps, RunsKept, lock' = lock, \A w \in Sweeps : Sweeping(w) => sweep[w].run \notin old'
  PROVE  LockInv'
BY DEF LockInv, Held, Keeps, RunsKept

\* Every step keeps LockInv: only Open takes a lock, when it is free, and a run
\* cannot get old while its sweep is under way.
LEMMA LockStep == TypeOK /\ TypeOK' /\ LockInv /\ [Next]_vars => LockInv'
<1> SUFFICES ASSUME TypeOK, TypeOK', LockInv, [Next]_vars PROVE LockInv'
  OBVIOUS
<1>0. /\ \A w \in Sweeps : Source(w) \in Sources /\ w[1] \in Servers /\ w[1] # Nobody
      /\ sweep \in [Sweeps -> Sweep] /\ lock \in [Sources -> Servers \cup {Nobody}]
  BY SweepConstants DEF Source, TypeOK
<1>r. /\ Recovered \in Seq(Run) /\ Len(Recovered) = Len(runs) /\ DOMAIN Recovered = DOMAIN runs
      /\ \A r \in DOMAIN runs : Recovered[r].source = runs[r].source
      /\ \A r \in DOMAIN runs \ old : Recovered[r] = runs[r]
      /\ DOMAIN runs = 1..Len(runs) /\ Len(runs) \in Nat
  BY RecoveredFacts DEF TypeOK, Abandoned
<1>k. ASSUME runs' = runs PROVE RunsKept
  BY <1>k DEF RunsKept
<1>1. ASSUME NEW w \in Sweeps, Open(w) PROVE LockInv'
  <2> DEFINE n == Len(runs) + 1
             run == [source |-> Source(w), counts |-> {}, status |-> "running"]
  <2>1. run \in Run
    BY <1>0 DEF Run, Tally
  <2>2. /\ runs' = Append(Recovered, run)
        /\ n \in DOMAIN runs' /\ runs'[n] = run
        /\ \A r \in DOMAIN runs : r \in DOMAIN runs' /\ runs'[r] = Recovered[r] /\ r # n
    BY <1>r, <1>1, <2>1 DEF Open
  <2>3. n \notin old'
    BY <1>r, <1>1 DEF Open, TypeOK
  <2>4. ASSUME NEW v \in Sweeps, v # w PROVE Held(v)'
    <3>1. sweep'[v] = sweep[v]
      BY <1>0, <1>1, <2>4 DEF Open
    <3>2. SUFFICES ASSUME Sweeping(v) PROVE Held(v)'
      BY <3>1 DEF Held, Sweeping, At
    <3>3. Source(v) # Source(w)
      BY <1>0, <1>1, <3>2 DEF Open, LockFree, LockInv, Held
    <3>4. lock'[Source(v)] = lock[Source(v)] /\ old' = old
      BY <1>0, <1>1, <3>3 DEF Open
    <3>5. LET r == sweep[v].run IN r \in DOMAIN runs /\ r \in DOMAIN runs' /\ runs'[r] = runs[r]
      BY <1>r, <2>2, <3>2 DEF LockInv, Held
    <3> QED BY <3>1, <3>2, <3>4, <3>5 DEF LockInv, Held
  <2>5. Held(w)'
    <3>1. sweep'[w].run = n /\ lock'[Source(w)] = w[1]
      BY <1>0, <1>1 DEF Open, Sweep
    <3> QED BY <2>2, <2>3, <3>1 DEF Held
  <2> QED BY <2>4, <2>5 DEF LockInv
<1>2. ASSUME NEW w \in Sweeps, Quiet(w) PROVE LockInv'
  BY <1>2, <1>k, QuietKeeps, LocksKept DEF LockInv, Held
<1>3. ASSUME NEW w \in Sweeps, Close(w) PROVE LockInv'
  <2>1. Sweeping(w) /\ sweep[w].run \in DOMAIN runs
    BY <1>3 DEF Close, At, Sweeping, LockInv, Held
  <2>2. ASSUME NEW v \in Sweeps, v # w PROVE Held(v)'
    <3>1. sweep'[v] = sweep[v]
      BY <1>3, <2>2 DEF Close
    <3>2. SUFFICES ASSUME Sweeping(v) PROVE Held(v)'
      BY <3>1 DEF Held, Sweeping, At
    <3>3. Source(v) # Source(w)
      BY <2>1, <2>2, <3>2, LockIsExclusive
    <3>4. sweep[v].run # sweep[w].run
      BY <2>1, <3>2, <3>3 DEF LockInv, Held
    <3>5. runs'[sweep[v].run] = runs[sweep[v].run] /\ DOMAIN runs' = DOMAIN runs
      BY <1>3, <2>1, <3>2, <3>4 DEF Close, LockInv, Held
    <3>6. lock'[Source(v)] = lock[Source(v)] /\ old' = old
      BY <1>0, <1>3, <3>3 DEF Close
    <3> QED BY <3>1, <3>2, <3>5, <3>6 DEF LockInv, Held
  <2>3. Held(w)'
    BY <1>0, <1>3 DEF Close, Held, Sweeping, At, NoSweep
  <2> QED BY <2>2, <2>3 DEF LockInv
<1>4. ASSUME NEW w \in Sweeps, Stop(w) PROVE LockInv'
  <2>1. ASSUME NEW v \in Sweeps, v # w PROVE Held(v)'
    <3>1. sweep'[v] = sweep[v]
      BY <1>4, <2>1 DEF Stop
    <3>2. SUFFICES ASSUME Sweeping(v) PROVE Held(v)'
      BY <3>1 DEF Held, Sweeping, At
    <3>3. Source(v) # Source(w)
      BY <1>4, <2>1, <3>2, LockIsExclusive DEF Stop
    <3>4. lock'[Source(v)] = lock[Source(v)] /\ old' = old /\ runs' = runs
      BY <1>0, <1>4, <3>3 DEF Stop
    <3> QED BY <3>1, <3>2, <3>4 DEF LockInv, Held
  <2>2. Held(w)'
    BY <1>0, <1>4 DEF Stop, Held, Sweeping, At, NoSweep
  <2> QED BY <2>1, <2>2 DEF LockInv
<1>5. ASSUME UNCHANGED <<lock, sweep, runs, old>> PROVE LockInv'
  BY <1>5 DEF LockInv, Held, Sweeping, At
<1>6. ASSUME NEW w \in Workers, Settle(w) PROVE LockInv'
  <2>1. PICK tally \in {{"work"}, {"errors"}} : Record(hand[w], tally)
    BY <1>6 DEF Settle, Succeeds, Fails
  <2>2. tally \in Tally
    BY DEF Tally
  <2>3. RunsKept
    BY <2>1, <2>2, RecordFacts DEF TypeOK, RunsKept
  <2> QED BY <1>6, <2>3, SettleKeeps, LocksKept DEF LockInv, Held
<1>7. ASSUME NEW r \in 1..MaxRuns, GetsOld(r) PROVE LockInv'
  <2>1. \A w \in Sweeps : Sweeping(w) => sweep[w].run # r
    BY <1>7 DEF GetsOld, Live
  <2>2. UNCHANGED <<lock, sweep, runs>> /\ old' = old \cup {r}
    BY <1>7 DEF GetsOld
  <2> QED BY <2>1, <2>2 DEF LockInv, Held, Sweeping, At
<1>8. CASE RecoverRuns
  <2>1. RunsKept
    BY <1>8, <1>r DEF RecoverRuns, RunsKept
  <2>2. Keeps
    BY <1>8 DEF RecoverRuns, Keeps, Sweeping, At
  <2> QED BY <1>8, <2>1, <2>2, LocksKept DEF RecoverRuns, LockInv, Held
<1> QED
  BY <1>1, <1>2, <1>3, <1>4, <1>5, <1>6, <1>7, <1>8
  DEF Next, Steps, Closes, Quiet, ClaimLoop, Take, RecoverJob, FallsDue, vars

\* LockInv says that a sweep under way has a run.
LEMMA LockHasRun == LockInv => HasRun
BY DEF LockInv, Held, HasRun

\* Types and locks hold together.
LEMMA SweepInvariants == Spec => [](TypeOK /\ LockInv)
<1>1. Init => LockInv
  BY DEF Init, LockInv, Held, Sweeping, At, NoSweep
<1>2. TypeOK /\ LockInv /\ [Next]_vars => (TypeOK /\ LockInv)'
  BY LockHasRun, SweepStepTyped, LockStep
<1> QED BY <1>1, <1>2, SweepInitTyped, PTL DEF Spec

\* Sweeps, runs, jobs, hands, locks and tallies keep their types, over any
\* number of servers, sources and workers (scheduler.ts).
THEOREM SweepTypeCorrect == Spec => []TypeOK
BY SweepInvariants, PTL

\* A source is swept by one sweep at a time, in whichever process
\* (scheduler.ts: "The advisory lock below is the real one").
THEOREM SweepsAreExclusive == Spec => []OneSweepPerSource
<1>1. LockInv => OneSweepPerSource
  BY LockIsExclusive DEF OneSweepPerSource
<1> QED BY <1>1, SweepInvariants, PTL

\* A run's verdict is final: the recovery timer does not close a run whose
\* sweep is still at it, and no sweep closes one that recovery has closed
\* (recoverAbandonedRuns).
THEOREM VerdictsAreFinal == Spec => ClosedOnce
<1> DEFINE Final == \A r \in DOMAIN runs : runs[r].status # "running" => runs'[r].status = runs[r].status
<1>1. TypeOK /\ LockInv /\ [Next]_vars => Final
  <2> SUFFICES ASSUME TypeOK, LockInv, [Next]_vars, NEW r \in DOMAIN runs, runs[r].status # "running"
               PROVE  runs'[r].status = runs[r].status
    OBVIOUS
  <2>1. Recovered[r] = runs[r] /\ Recovered \in Seq(Run) /\ Len(Recovered) = Len(runs)
        /\ r \in 1..Len(runs) /\ Len(runs) \in Nat
    BY RecoveredFacts DEF TypeOK, Abandoned
  <2>2. ASSUME NEW w \in Sweeps, Open(w) PROVE runs'[r].status = runs[r].status
    BY <2>1, <2>2 DEF Open
  <2>3. ASSUME NEW w \in Sweeps, Close(w) PROVE runs'[r].status = runs[r].status
    <3>1. r # sweep[w].run
      BY <2>3 DEF Close, At, Sweeping, LockInv, Held
    <3> QED BY <2>3, <3>1 DEF Close
  <2>4. ASSUME NEW w \in Workers, Settle(w) PROVE runs'[r].status = runs[r].status
    <3>1. PICK tally \in {{"work"}, {"errors"}} : Record(hand[w], tally)
      BY <2>4 DEF Settle, Succeeds, Fails
    <3>2. tally \in Tally
      BY DEF Tally
    <3> QED BY <3>1, <3>2, RecordFacts DEF TypeOK
  <2>5. CASE RecoverRuns
    BY <2>1, <2>5 DEF RecoverRuns
  <2>6. ASSUME runs' = runs PROVE runs'[r].status = runs[r].status
    BY <2>6
  <2>7. ASSUME NEW w \in Sweeps, Quiet(w) PROVE runs' = runs
    BY <2>7, QuietKeeps
  <2> QED
    BY <2>2, <2>3, <2>4, <2>5, <2>6, <2>7
    DEF Next, Steps, Closes, Quiet, Stop, ClaimLoop, Take, GetsOld, RecoverJob, FallsDue, vars
<1> QED BY <1>1, SweepInvariants, PTL DEF Spec, ClosedOnce

-----------------------------------------------------------------------------
(* The discovers: who is on a job, which runs jobs belong to.              *)

\* A job in a hand is running, and in one hand only.
HandInv ==
  /\ \A w \in Workers : hand[w] # Nobody => jobs[hand[w]].status = "running"
  /\ \A v, w \in Workers : hand[v] = hand[w] /\ hand[v] # Nobody => v = w

\* A discover is there once its run's sweep has put it in, not before.
JobInv ==
  /\ \A j \in Jobs : jobs[j].run \in 0..Len(runs) /\ (jobs[j].status = "absent" => jobs[j].run = 0)
  /\ \A r \in Discovers : r > Len(runs) => jobs[r].status = "absent"
  /\ \A w \in Sweeps : At(w, "opened") \/ At(w, "found") => jobs[sweep[w].run].status = "absent"

\* What a step does to the rows, for a sweep that it is not a step of.
Grows == Len(runs) <= Len(runs') /\ \A r \in DOMAIN runs : runs'[r].source = runs[r].source

\* Runs are only added, and keep their source.
LEMMA GrowsAlways == TypeOK /\ TypeOK' /\ LockInv /\ [Next]_vars => Grows
<1> SUFFICES ASSUME TypeOK, TypeOK', LockInv, [Next]_vars PROVE Grows
  OBVIOUS
<1>1. /\ Recovered \in Seq(Run) /\ Len(Recovered) = Len(runs)
      /\ \A r \in DOMAIN runs : Recovered[r].source = runs[r].source
      /\ DOMAIN runs = 1..Len(runs) /\ Len(runs) \in Nat
  BY RecoveredFacts DEF TypeOK
<1>2. ASSUME NEW w \in Sweeps, Open(w) PROVE Grows
  BY <1>1, <1>2 DEF Open, Grows
<1>3. ASSUME NEW w \in Sweeps, Close(w) PROVE Grows
  <2>1. /\ sweep[w] \in Sweep /\ sweep[w].read \in Tally /\ sweep[w].run \in DOMAIN runs
    BY <1>3 DEF Close, At, Sweeping, LockInv, Held, TypeOK, Sweep
  <2>2. runs' = [runs EXCEPT ![sweep[w].run].status = Classify(sweep[w]), ![sweep[w].run].counts = sweep[w].read]
    BY <1>3 DEF Close
  <2>3. Len(runs') = Len(runs) /\ \A r \in DOMAIN runs : runs'[r].source = runs[r].source
    BY <2>1, <2>2, ClosedRun, ClassifyFacts DEF TypeOK
  <2> QED BY <1>1, <2>3 DEF Grows
<1>4. ASSUME NEW w \in Workers, Settle(w) PROVE Grows
  <2>1. PICK tally \in {{"work"}, {"errors"}} : Record(hand[w], tally)
    BY <1>4 DEF Settle, Succeeds, Fails
  <2>2. tally \in Tally
    BY DEF Tally
  <2> QED BY <1>1, <2>1, <2>2, RecordFacts DEF TypeOK, Grows
<1>5. CASE RecoverRuns
  BY <1>1, <1>5 DEF RecoverRuns, Grows
<1>6. ASSUME runs' = runs PROVE Grows
  BY <1>1, <1>6 DEF Grows
<1>7. ASSUME NEW w \in Sweeps, Quiet(w) PROVE runs' = runs
  BY <1>7, QuietKeeps
<1> QED
  BY <1>2, <1>3, <1>4, <1>5, <1>6, <1>7
  DEF Next, Steps, Closes, Quiet, Stop, ClaimLoop, Take, GetsOld, RecoverJob, FallsDue, vars

\* The job a handler is done with, and the fetches it put in.
LEMMA SettledJobs ==
  ASSUME TypeOK, HandInv, NEW w \in Workers, Settle(w)
  PROVE  /\ hand[w] \in Jobs /\ jobs[hand[w]].status = "running"
         /\ jobs'[hand[w]].run = jobs[hand[w]].run
         /\ jobs'[hand[w]].status \in {"done", "waiting", "blocked"}
         /\ \A j \in Jobs \ {hand[w]} :
              \/ jobs'[j] = jobs[j]
              \/ /\ j \in Fetches /\ hand[w] \in Discovers /\ jobs[j].status = "absent"
                 /\ jobs'[j] = [status |-> "due", run |-> jobs[hand[w]].run]
<1>1. hand[w] \in Jobs /\ jobs[hand[w]].status = "running" /\ jobs \in [Jobs -> Job]
  BY DEF Settle, TypeOK, HandInv
<1>2. CASE Fails(hand[w])
  <2>1. PICK st \in {"waiting", "blocked"} : jobs' = [jobs EXCEPT ![hand[w]].status = st]
    BY <1>2 DEF Fails
  <2> QED BY <1>1, <2>1 DEF Job
<1>3. CASE Succeeds(w, hand[w])
  <2> DEFINE x == hand[w]
  <2>1. PICK found \in SUBSET {f \in Fetches : x \in Discovers /\ jobs[f].status = "absent"} :
          jobs' = [i \in Jobs |->
                     IF i \in found THEN [status |-> "due", run |-> jobs[x].run]
                     ELSE IF i = x THEN [jobs[x] EXCEPT !.status = "done"] ELSE jobs[i]]
    BY <1>3 DEF Succeeds
  <2>2. x \notin found
    BY <1>1, <2>1
  <2>3. jobs'[x] = [jobs[x] EXCEPT !.status = "done"]
    BY <1>1, <2>1, <2>2
  <2>4. jobs[x] \in Job
    BY <1>1
  <2>5. jobs'[x].run = jobs[x].run /\ jobs'[x].status = "done"
    BY <2>3, <2>4 DEF Job
  <2>6. ASSUME NEW j \in Jobs \ {x} PROVE
               jobs'[j] = IF j \in found THEN [status |-> "due", run |-> jobs[x].run] ELSE jobs[j]
    BY <2>1, <2>6
  <2>7. found \subseteq Fetches /\ \A j \in found : x \in Discovers /\ jobs[j].status = "absent"
    BY <2>1
  <2> QED BY <1>1, <2>5, <2>6, <2>7
<1> QED BY <1>2, <1>3 DEF Settle

\* Every step keeps what is known of hands and discovers.
LEMMA JobStep ==
  TypeOK /\ TypeOK' /\ LockInv /\ HandInv /\ JobInv /\ [Next]_vars => HandInv' /\ JobInv'
<1> SUFFICES ASSUME TypeOK, TypeOK', LockInv, HandInv, JobInv, [Next]_vars PROVE HandInv' /\ JobInv'
  OBVIOUS
<1>0. /\ jobs \in [Jobs -> Job] /\ hand \in [Workers -> Jobs \cup {Nobody}] /\ sweep \in [Sweeps -> Sweep]
      /\ Len(runs) \in Nat /\ Len(runs') \in Nat /\ Len(runs) <= Len(runs') /\ MaxRuns \in Nat
      /\ Discovers \subseteq Jobs /\ Discovers \subseteq Nat /\ Nobody \notin Jobs /\ Fetches \cap Discovers = {}
      /\ \A w \in Sweeps : w \in Workers /\ w # Loop
      /\ \A w \in Sweeps : Sweeping(w) => sweep[w].run \in 1..Len(runs) /\ sweep[w].run \in Discovers
  <2>1. /\ jobs \in [Jobs -> Job] /\ hand \in [Workers -> Jobs \cup {Nobody}] /\ sweep \in [Sweeps -> Sweep]
        /\ Len(runs) \in Nat /\ Len(runs') \in Nat /\ DOMAIN runs = 1..Len(runs) /\ Len(runs) <= MaxRuns
    BY DEF TypeOK
  <2>2. Len(runs) <= Len(runs')
    BY GrowsAlways DEF Grows
  <2>3. MaxRuns \in Nat /\ Fetches \cap Discovers = {} /\ Nobody \notin Jobs
    BY SweepConstants DEF Discovers, Jobs
  <2>4. Discovers \subseteq Jobs /\ Discovers \subseteq Nat
    BY <2>3 DEF Discovers, Jobs
  <2>5. \A w \in Sweeps : w \in Workers /\ w # Loop
    BY SweepConstants DEF Workers
  <2>6. \A w \in Sweeps : Sweeping(w) => sweep[w].run \in 1..Len(runs) /\ sweep[w].run \in Discovers
    BY <2>1, <2>3 DEF LockInv, Held, Discovers
  <2> QED BY <2>1, <2>2, <2>3, <2>4, <2>5, <2>6
<1>f. ASSUME jobs' = jobs, \A w \in Workers : hand'[w] \in {hand[w], Nobody},
             \A w \in Sweeps : At(w, "opened")' \/ At(w, "found")'
               => (At(w, "opened") \/ At(w, "found")) /\ sweep'[w].run = sweep[w].run
      PROVE  HandInv' /\ JobInv'
  <2>1. HandInv'
    BY <1>f DEF HandInv
  <2>2. JobInv'
    BY <1>0, <1>f DEF JobInv
  <2> QED BY <2>1, <2>2
<1>1. ASSUME NEW w \in Sweeps, Open(w) PROVE HandInv' /\ JobInv'
  <2>1. /\ jobs' = jobs /\ hand' = hand /\ Len(runs) < MaxRuns
        /\ \A v \in Sweeps : v # w => sweep'[v] = sweep[v]
        /\ sweep'[w].run = Len(runs) + 1
    BY <1>0, <1>1 DEF Open, Sweep
  <2>2. Len(runs) + 1 \in Discovers /\ jobs[Len(runs) + 1].status = "absent"
    BY <1>0, <2>1 DEF Discovers, JobInv
  <2>3. HandInv'
    BY <2>1 DEF HandInv
  <2>4. JobInv'
    BY <1>0, <2>1, <2>2 DEF JobInv, At
  <2> QED BY <2>3, <2>4
<1>2. ASSUME NEW w \in Sweeps, FindDiscover(w) PROVE HandInv' /\ JobInv'
  <2>1. /\ jobs' = jobs /\ hand' = hand
        /\ \A v \in Sweeps : v # w => sweep'[v] = sweep[v]
        /\ sweep'[w].run = sweep[w].run /\ At(w, "opened")
    BY <1>0, <1>2 DEF FindDiscover, Sweep
  <2> QED BY <1>f, <2>1 DEF At
<1>3. ASSUME NEW w \in Sweeps, SeeToDiscover(w) PROVE HandInv' /\ JobInv'
  <2> DEFINE s == sweep[w]
             j == IF s.seen = Nobody THEN s.run ELSE s.seen
  <2>1. /\ s.run \in 1..Len(runs) /\ s.run \in Discovers /\ jobs[s.run].status = "absent"
        /\ s.seen # Nobody => s.seen \in Discovers
    <3>1. At(w, "found") /\ Sweeping(w)
      BY <1>3 DEF SeeToDiscover, At, Sweeping
    <3>2. s.seen \in Discovers \cup {Nobody}
      BY <1>0 DEF Sweep
    <3> QED BY <1>0, <3>1, <3>2 DEF JobInv
  <2>2. j \in Discovers /\ (jobs' # jobs => jobs[j].status # "running")
    BY <1>0, <1>3, <2>1 DEF SeeToDiscover, Pending
  <2>3. hand' = hand /\ (jobs' = jobs \/ jobs' = [jobs EXCEPT ![j] = [status |-> "due", run |-> s.run]])
    BY <1>3 DEF SeeToDiscover
  <2>4. HandInv'
    BY <1>0, <2>2, <2>3 DEF HandInv
  <2>5. ASSUME NEW v \in Sweeps, At(v, "opened")' \/ At(v, "found")'
        PROVE  v # w /\ (At(v, "opened") \/ At(v, "found")) /\ sweep'[v] = sweep[v]
    BY <1>0, <1>3, <2>5 DEF SeeToDiscover, At, Sweep
  <2>6. ASSUME NEW v \in Sweeps, v # w, At(v, "opened") \/ At(v, "found")
        PROVE  sweep[v].run # j \/ jobs' = jobs
    <3>1. CASE s.seen # Nobody
      <4>1. jobs' # jobs => jobs[j].status # "absent"
        BY <1>3, <3>1 DEF SeeToDiscover, Pending
      <4> QED BY <2>6, <4>1 DEF JobInv
    <3>2. CASE s.seen = Nobody
      <4>1. sweep[v].run = s.run => Source(v) = Source(w)
        BY <1>3, <2>6 DEF LockInv, Held, Sweeping, At, SeeToDiscover
      <4> QED BY <1>3, <2>6, <3>2, <4>1, LockIsExclusive DEF Sweeping, At, SeeToDiscover
    <3> QED BY <3>1, <3>2
  <2>7. JobInv'
    <3>1. \A i \in Jobs : jobs'[i].run \in 0..Len(runs') /\ (jobs'[i].status = "absent" => jobs'[i].run = 0)
      BY <1>0, <2>1, <2>3 DEF JobInv
    <3>2. \A r \in Discovers : r > Len(runs') => jobs'[r].status = "absent"
      <4>1. jobs' # jobs => ~(j > Len(runs))
        BY <1>0, <1>3, <2>1, <2>2 DEF JobInv, SeeToDiscover, Pending
      <4> QED BY <1>0, <2>3, <4>1 DEF JobInv
    <3>3. ASSUME NEW v \in Sweeps, At(v, "opened")' \/ At(v, "found")'
          PROVE  jobs'[sweep'[v].run].status = "absent"
      <4>1. v # w /\ (At(v, "opened") \/ At(v, "found")) /\ sweep'[v] = sweep[v]
        BY <2>5, <3>3
      <4>2. jobs'[sweep[v].run] = jobs[sweep[v].run]
        BY <1>0, <2>3, <2>6, <4>1 DEF Sweeping, At
      <4> QED BY <4>1, <4>2 DEF JobInv
    <3> QED BY <3>1, <3>2, <3>3 DEF JobInv
  <2> QED BY <2>4, <2>7
<1>4. ASSUME NEW w \in Workers, NEW j \in Jobs, Take(w, j), jobs[j].status = "due",
             \A v \in Sweeps : At(v, "opened")' \/ At(v, "found")'
               => (At(v, "opened") \/ At(v, "found")) /\ sweep'[v].run = sweep[v].run
      PROVE  HandInv' /\ JobInv'
  <2>1. /\ hand' = [hand EXCEPT ![w] = j] /\ jobs' = [jobs EXCEPT ![j].status = "running"]
        /\ runs' = runs
    BY <1>4 DEF Take
  <2>2. jobs'[j].status = "running" /\ jobs'[j].run = jobs[j].run /\ \A i \in Jobs : i # j => jobs'[i] = jobs[i]
    BY <1>0, <2>1 DEF Job
  <2>3. \A v \in Workers : hand[v] # j
    BY <1>0, <1>4 DEF HandInv
  <2>4. HandInv'
    BY <1>0, <2>1, <2>2, <2>3 DEF HandInv
  <2>5. \A i \in Jobs : jobs'[i].run = jobs[i].run /\ (jobs'[i].status = "absent" <=> jobs[i].status = "absent")
    BY <1>4, <2>2
  <2>6. JobInv'
    BY <1>0, <1>4, <2>1, <2>5 DEF JobInv, Sweeping, At
  <2> QED BY <2>4, <2>6
<1>5. ASSUME NEW w \in Sweeps, ClaimOwn(w) \/ ClaimAny(w) PROVE HandInv' /\ JobInv'
  <2>1. \E j \in Jobs : Take(w, j) /\ jobs[j].status = "due"
    BY <1>5 DEF ClaimOwn, ClaimAny, OwnDue, Due
  <2>2. \A v \in Sweeps : sweep'[v].pc = sweep[v].pc /\ sweep'[v].run = sweep[v].run
    <3>1. sweep' = [sweep EXCEPT ![w].clock = "ticked"]
      BY <1>5 DEF ClaimOwn, ClaimAny
    <3>2. sweep \in [Sweeps -> Sweep]
      BY <1>0
    <3> QED BY <3>1, <3>2 DEF Sweep
  <2>3. \A v \in Sweeps : At(v, "opened")' \/ At(v, "found")'
          => (At(v, "opened") \/ At(v, "found")) /\ sweep'[v].run = sweep[v].run
    BY <2>2 DEF At
  <2>4. w \in Workers
    BY DEF Workers
  <2> QED BY <1>4, <2>1, <2>3, <2>4
<1>6. CASE ClaimLoop
  <2>1. Loop \in Workers /\ \E j \in Jobs : Take(Loop, j) /\ jobs[j].status = "due"
    BY <1>6 DEF ClaimLoop, Due, Workers
  <2> QED BY <1>4, <1>6, <2>1 DEF ClaimLoop, At
<1>7. ASSUME NEW w \in Sweeps, EndOwn(w) \/ EndHelp(w) \/ ReadCounts(w) \/ Throw(w) \/ TimeUp(w)
             \/ Close(w) \/ Stop(w)
      PROVE  HandInv' /\ JobInv'
  <2>1. jobs' = jobs /\ \A v \in Workers : hand'[v] \in {hand[v], Nobody}
    BY <1>0, <1>7 DEF EndOwn, EndHelp, ReadCounts, Throw, TimeUp, Close, Stop
  <2>2. \A v \in Sweeps : v # w => sweep'[v] = sweep[v]
    <3>1. CASE TimeUp(w) \/ ReadCounts(w)
      BY <1>0, <3>1 DEF TimeUp, ReadCounts
    <3>2. CASE EndOwn(w) \/ EndHelp(w)
      BY <1>0, <3>2 DEF EndOwn, EndHelp, Drained
    <3>3. CASE Close(w) \/ Stop(w) \/ Throw(w)
      BY <1>0, <3>3 DEF Close, Stop, Throw, Drained
    <3> QED BY <1>7, <3>1, <3>2, <3>3
  <2>3. ~(At(w, "opened")' \/ At(w, "found")')
    <3>1. CASE TimeUp(w)
      BY <1>0, <3>1 DEF TimeUp, At, Sweep
    <3>2. CASE EndOwn(w) \/ EndHelp(w) \/ ReadCounts(w) \/ Throw(w)
      BY <1>0, <3>2 DEF EndOwn, EndHelp, ReadCounts, Throw, Drained, At, Sweep
    <3>3. CASE Close(w) \/ Stop(w)
      BY <1>0, <3>3 DEF Close, Stop, NoSweep, At
    <3> QED BY <1>7, <3>1, <3>2, <3>3
  <2> QED BY <1>f, <2>1, <2>2, <2>3 DEF At
<1>8. ASSUME NEW w \in Workers, Settle(w) PROVE HandInv' /\ JobInv'
  <2>1. hand' = [hand EXCEPT ![w] = Nobody]
    BY <1>8 DEF Settle
  <2>2. /\ hand[w] \in Jobs /\ jobs[hand[w]].status = "running"
        /\ jobs'[hand[w]].run = jobs[hand[w]].run
        /\ jobs'[hand[w]].status \in {"done", "waiting", "blocked"}
        /\ \A j \in Jobs \ {hand[w]} :
             \/ jobs'[j] = jobs[j]
             \/ /\ j \in Fetches /\ hand[w] \in Discovers /\ jobs[j].status = "absent"
                /\ jobs'[j] = [status |-> "due", run |-> jobs[hand[w]].run]
    BY <1>8, SettledJobs
  <2>3. HandInv'
    <3>1. \A v \in Workers : hand'[v] # Nobody => v # w /\ hand'[v] = hand[v]
      BY <1>0, <2>1
    <3>2. \A v \in Workers : hand'[v] # Nobody => hand[v] \in Jobs /\ hand[v] # hand[w]
      BY <1>0, <2>2, <3>1 DEF HandInv
    <3>3. \A v \in Workers : hand'[v] # Nobody => jobs[hand[v]].status = "running"
      BY <3>1 DEF HandInv
    <3>4. \A v \in Workers : hand'[v] # Nobody => jobs'[hand[v]].status = "running"
      BY <2>2, <3>2, <3>3
    <3> QED BY <3>1, <3>4 DEF HandInv
  <2>4. \A v \in Sweeps : At(v, "opened")' \/ At(v, "found")'
               => (At(v, "opened") \/ At(v, "found")) /\ sweep'[v].run = sweep[v].run
    <3>1. w \in Sweeps \/ w = Loop
      BY DEF Workers
    <3>2. sweep' = sweep \/ (w \in Sweeps /\ sweep' = [sweep EXCEPT ![w].processed = TRUE])
      BY <1>8, <3>1 DEF Settle, Succeeds, Fails
    <3>3. CASE sweep' = sweep
      BY <3>3 DEF At
    <3>4. CASE w \in Sweeps /\ sweep' = [sweep EXCEPT ![w].processed = TRUE]
      BY <1>0, <3>4 DEF At, Sweep
    <3> QED BY <3>2, <3>3, <3>4
  <2>5. \A j \in Jobs : jobs'[j].run \in 0..Len(runs') /\ (jobs'[j].status = "absent" => jobs'[j].run = 0)
    <3>1. \A j \in Jobs : jobs[j].run \in 0..Len(runs')
      BY <1>0 DEF JobInv
    <3> QED BY <2>2, <3>1 DEF JobInv
  <2>6. \A r \in Discovers : jobs[r].status = "absent" => jobs'[r].status = "absent"
    BY <1>0, <2>2
  <2>7. \A r \in Discovers : r > Len(runs') => jobs'[r].status = "absent"
    BY <1>0, <2>6 DEF JobInv
  <2>8. \A v \in Sweeps : At(v, "opened")' \/ At(v, "found")' => jobs'[sweep'[v].run].status = "absent"
    BY <1>0, <2>4, <2>6 DEF JobInv, Sweeping, At
  <2> QED BY <2>3, <2>5, <2>7, <2>8 DEF JobInv
<1>9. ASSUME NEW j \in Jobs, RecoverJob(j) \/ FallsDue(j) PROVE HandInv' /\ JobInv'
  <2>1. /\ jobs' = [jobs EXCEPT ![j].status = "due"] /\ UNCHANGED <<hand, sweep, runs>>
        /\ \A w \in Workers : hand[w] # j
        /\ jobs[j].status # "absent"
    BY <1>0, <1>9 DEF RecoverJob, FallsDue, HandInv
  <2>2. jobs'[j].status = "due" /\ jobs'[j].run = jobs[j].run /\ \A i \in Jobs : i # j => jobs'[i] = jobs[i]
    BY <1>0, <2>1 DEF Job
  <2>3. HandInv'
    BY <1>0, <2>1, <2>2 DEF HandInv
  <2>4. JobInv'
    BY <1>0, <2>1, <2>2 DEF JobInv, Sweeping, At
  <2> QED BY <2>3, <2>4
<1>10. ASSUME UNCHANGED <<jobs, hand, sweep>> PROVE HandInv' /\ JobInv'
  BY <1>f, <1>10 DEF At
<1> QED
  BY <1>1, <1>2, <1>3, <1>5, <1>6, <1>7, <1>8, <1>9, <1>10
  DEF Next, Steps, DrainSteps, Closes, GetsOld, RecoverRuns, vars

-----------------------------------------------------------------------------
(* A sweep that did not throw has reached its source's discover.           *)

\* The discover of the sweep's source has been claimed since the sweep began.
Reached(v) == Source(v) \in reached

\* A job of the sweep's run that is no longer a discover waiting for a claim.
Beyond(j, v) == jobs[j].run = sweep[v].run /\ ~(j \in Discovers /\ Pending(j))

\* A discover of the sweep's run that anybody may claim.
Offered(j, v) == jobs[j].status = "due" /\ jobs[j].run = sweep[v].run

\* Where a sweep stands towards its source's discover: found and pending,
\* offered to it before its deadline, or claimed.
Reaches(v) ==
  /\ Sweeping(v) => \A j \in Jobs : Beyond(j, v) => Reached(v)
  /\ At(v, "found") /\ sweep[v].seen # Nobody =>
       /\ DiscoverOf(sweep[v].seen, Source(v))
       /\ Pending(sweep[v].seen) \/ Reached(v)
  /\ At(v, "own") => Reached(v) \/ (sweep[v].clock = "early" /\ \E j \in Discovers : Offered(j, v))
  /\ At(v, "help") => Reached(v)
  /\ (At(v, "drained") \/ At(v, "read")) /\ sweep[v].outcome # "threw" => Reached(v)
  /\ At(v, "none") \/ At(v, "opened") \/ At(v, "found") => sweep[v].clock = "early"
\* So it stands with every sweep.
ReachInv == \A v \in Sweeps : Reaches(v)

\* What a step does to the jobs that v looks at, when it does not reach v's
\* source.
Steady(v) ==
  /\ Reached(v) => Reached(v)'
  /\ \A j \in Discovers : DiscoverOf(j, Source(v)) =>
       /\ DiscoverOf(j, Source(v))'
       /\ Pending(j) => Pending(j)' \/ Reached(v)'
  /\ \A j \in Discovers : jobs[j].status = "due" /\ jobs[j].run = sweep[v].run =>
       (jobs'[j].status = "due" /\ jobs'[j].run = sweep[v].run) \/ Reached(v)'
  /\ \A j \in Jobs : jobs'[j].run = sweep[v].run /\ ~(j \in Discovers /\ Pending(j)')
       => Beyond(j, v) \/ Reached(v)'

\* The sweep is where it was.
SameSweep(v) ==
  /\ sweep'[v].pc = sweep[v].pc /\ sweep'[v].run = sweep[v].run /\ sweep'[v].seen = sweep[v].seen
  /\ sweep'[v].clock = sweep[v].clock /\ sweep'[v].outcome = sweep[v].outcome

\* A step of others that is steady for a sweep keeps where it stands.
LEMMA SteadyReaches ==
  ASSUME NEW v \in Sweeps, sweep \in [Sweeps -> Sweep], Reaches(v), SameSweep(v), Sweeping(v) => Steady(v)
  PROVE  Reaches(v)'
<1>1. CASE ~Sweeping(v)
  BY <1>1 DEF SameSweep, Reaches, Sweeping, At
<1>2. CASE Sweeping(v)
  <2>0. Steady(v)
    BY <1>2
  <2>1. (Sweeping(v) => \A j \in Jobs : Beyond(j, v) => Reached(v))'
    BY <1>2, <2>0 DEF SameSweep, Reaches, Beyond, Steady
  <2>2. (At(v, "found") /\ sweep[v].seen # Nobody =>
          /\ DiscoverOf(sweep[v].seen, Source(v))
          /\ Pending(sweep[v].seen) \/ Reached(v))'
    <3>1. SUFFICES ASSUME At(v, "found"), sweep[v].seen # Nobody
                   PROVE  /\ DiscoverOf(sweep[v].seen, Source(v))'
                          /\ Pending(sweep[v].seen)' \/ Reached(v)'
      BY DEF SameSweep, At
    <3>2. sweep[v].seen \in Discovers
      BY <3>1 DEF Sweep
    <3>3. DiscoverOf(sweep[v].seen, Source(v)) /\ (Pending(sweep[v].seen) \/ Reached(v))
      BY <3>1 DEF Reaches
    <3>4. sweep'[v].seen = sweep[v].seen
      BY DEF SameSweep
    <3>5. \A j \in Discovers : DiscoverOf(j, Source(v)) =>
             /\ DiscoverOf(j, Source(v))'
             /\ Pending(j) => Pending(j)' \/ Reached(v)'
      BY <2>0 DEF Steady
    <3>6. Reached(v) => Reached(v)'
      BY <2>0 DEF Steady
    <3> QED BY <3>2, <3>3, <3>4, <3>5, <3>6 DEF DiscoverOf, Pending
  <2>3. (At(v, "own") => Reached(v) \/ (sweep[v].clock = "early" /\ \E j \in Discovers : Offered(j, v)))'
    BY <2>0 DEF SameSweep, Reaches, Offered, Steady, At
  <2>4. (/\ At(v, "help") => Reached(v)
         /\ (At(v, "drained") \/ At(v, "read")) /\ sweep[v].outcome # "threw" => Reached(v)
         /\ At(v, "none") \/ At(v, "opened") \/ At(v, "found") => sweep[v].clock = "early")'
    BY <2>0 DEF SameSweep, Reaches, Steady, At
  <2> QED BY <2>1, <2>2, <2>3, <2>4 DEF Reaches
<1> QED BY <1>1, <1>2

\* A step that changes no job is steady.
LEMMA SameJobsSteady ==
  ASSUME TypeOK, JobInv, Grows, NEW v \in Sweeps, jobs' = jobs, Reached(v) => Reached(v)'
  PROVE  Steady(v)
<1>1. \A j \in Jobs : jobs[j].run \in 0..Len(runs)
  BY DEF JobInv
<1>2. DOMAIN runs = 1..Len(runs) /\ Len(runs) \in Nat /\ Discovers \subseteq Jobs
  BY DEF TypeOK, Jobs
<1>3. \A j \in Discovers : DiscoverOf(j, Source(v)) => DiscoverOf(j, Source(v))'
  BY <1>1, <1>2 DEF DiscoverOf, Grows
<1> QED BY <1>3 DEF Steady, Pending, Beyond

\* A claim reaches the source of the discover it claims.
LEMMA TakeSteady ==
  ASSUME TypeOK, LockInv, JobInv, NEW v \in Sweeps, Sweeping(v), NEW w \in Workers, NEW j \in Jobs, Take(w, j)
  PROVE  /\ Steady(v) /\ (jobs[j].run = sweep[v].run /\ j \in Discovers => Reached(v)')
<1>1. /\ jobs' = [jobs EXCEPT ![j].status = "running"] /\ runs' = runs
      /\ reached' = reached \cup {s \in Sources : DiscoverOf(j, s)}
  BY DEF Take
<1>2. jobs \in [Jobs -> Job] /\ Discovers \subseteq Jobs
  BY DEF TypeOK, Jobs
<1>3. jobs'[j].status = "running" /\ jobs'[j].run = jobs[j].run /\ \A i \in Jobs : i # j => jobs'[i] = jobs[i]
  BY <1>1, <1>2 DEF Job
<1>4. Source(v) \in Sources /\ sweep[v].run # 0 /\ runs[sweep[v].run].source = Source(v)
  BY SweepConstants DEF Source, LockInv, Held, TypeOK
<1>5. DiscoverOf(j, Source(v)) => Reached(v)'
  BY <1>1, <1>4 DEF Reached
<1>6. jobs[j].run = sweep[v].run /\ j \in Discovers => DiscoverOf(j, Source(v))
  BY <1>4 DEF DiscoverOf
<1>7. Reached(v) => Reached(v)'
  BY <1>1 DEF Reached
<1>8. \A i \in Discovers : DiscoverOf(i, Source(v)) =>
       /\ DiscoverOf(i, Source(v))'
       /\ Pending(i) => Pending(i)' \/ Reached(v)'
  <2>1. ASSUME NEW i \in Discovers, DiscoverOf(i, Source(v)) PROVE DiscoverOf(i, Source(v))'
    BY <1>1, <1>2, <1>3, <2>1 DEF DiscoverOf
  <2>2. ASSUME NEW i \in Discovers, DiscoverOf(i, Source(v)), Pending(i) PROVE Pending(i)' \/ Reached(v)'
    BY <1>2, <1>3, <1>5, <2>2 DEF Pending
  <2> QED BY <2>1, <2>2
<1>9. \A i \in Discovers : jobs[i].status = "due" /\ jobs[i].run = sweep[v].run =>
       (jobs'[i].status = "due" /\ jobs'[i].run = sweep[v].run) \/ Reached(v)'
  BY <1>2, <1>3, <1>5, <1>6
<1>10. \A i \in Jobs : jobs'[i].run = sweep[v].run /\ ~(i \in Discovers /\ Pending(i)')
       => Beyond(i, v) \/ Reached(v)'
  <2>1. ASSUME NEW i \in Jobs, i # j, jobs'[i].run = sweep[v].run, ~(i \in Discovers /\ Pending(i)')
        PROVE  Beyond(i, v)
    BY <1>3, <2>1 DEF Beyond, Pending
  <2>2. CASE j \in Discovers
    BY <1>3, <1>5, <1>6, <2>1, <2>2
  <2>3. CASE j \notin Discovers
    BY <1>3, <2>1, <2>3 DEF Beyond
  <2> QED BY <2>2, <2>3
<1> QED BY <1>5, <1>6, <1>7, <1>8, <1>9, <1>10 DEF Steady

\* A job that is settled was in a hand, so it was claimed.
LEMMA SettleSteady ==
  ASSUME TypeOK, TypeOK', LockInv, HandInv, JobInv, Grows, NEW v \in Sweeps, Sweeping(v), Reaches(v),
         NEW w \in Workers, Settle(w)
  PROVE  Steady(v)
<1> DEFINE x == hand[w]
<1>1. /\ x \in Jobs /\ jobs[x].status = "running"
      /\ jobs'[x].run = jobs[x].run
      /\ jobs'[x].status \in {"done", "waiting", "blocked"}
      /\ \A j \in Jobs \ {x} :
           \/ jobs'[j] = jobs[j]
           \/ /\ j \in Fetches /\ x \in Discovers /\ jobs[j].status = "absent"
              /\ jobs'[j] = [status |-> "due", run |-> jobs[x].run]
  BY SettledJobs
<1>2. /\ reached' = reached /\ Discovers \subseteq Jobs /\ Fetches \cap Discovers = {}
      /\ \A j \in Jobs : jobs[j].run \in 0..Len(runs)
      /\ DOMAIN runs = 1..Len(runs) /\ Len(runs) \in Nat
      /\ \A r \in DOMAIN runs : runs'[r].source = runs[r].source
  <2>1. reached' = reached /\ Discovers \subseteq Jobs /\ Fetches \cap Discovers = {}
    BY SweepConstants DEF Settle, Jobs, Discovers
  <2>2. DOMAIN runs = 1..Len(runs) /\ Len(runs) \in Nat
    BY DEF TypeOK
  <2> QED BY <2>1, <2>2 DEF JobInv, Grows
<1>3. \A j \in Discovers : jobs'[j].run = jobs[j].run /\ (j # x => jobs'[j] = jobs[j])
  BY <1>1, <1>2
<1>4. Beyond(x, v) <=> jobs[x].run = sweep[v].run
  BY <1>1 DEF Beyond, Pending
<1>5. \A j \in Discovers : DiscoverOf(j, Source(v)) =>
       /\ DiscoverOf(j, Source(v))'
       /\ Pending(j) => Pending(j)' \/ Reached(v)'
  <2>1. ASSUME NEW j \in Discovers, DiscoverOf(j, Source(v)) PROVE DiscoverOf(j, Source(v))'
    BY <1>2, <1>3, <2>1 DEF DiscoverOf
  <2>2. ASSUME NEW j \in Discovers, Pending(j) PROVE Pending(j)'
    BY <1>1, <1>3, <2>2 DEF Pending
  <2> QED BY <2>1, <2>2
<1>6. \A j \in Discovers : jobs[j].status = "due" /\ jobs[j].run = sweep[v].run =>
       (jobs'[j].status = "due" /\ jobs'[j].run = sweep[v].run) \/ Reached(v)'
  BY <1>1, <1>3
<1>7. ASSUME NEW j \in Jobs, jobs'[j].run = sweep[v].run, ~(j \in Discovers /\ Pending(j)')
      PROVE  Beyond(j, v) \/ Reached(v)'
  <2>1. CASE jobs'[j] = jobs[j]
    BY <1>7, <2>1 DEF Beyond, Pending
  <2>2. CASE j = x
    BY <1>1, <1>4, <1>7, <2>2
  <2>3. CASE jobs'[j] = [status |-> "due", run |-> jobs[x].run]
    <3>1. Beyond(x, v)
      BY <1>4, <1>7, <2>3
    <3>2. Reached(v)
      BY <1>1, <3>1 DEF Reaches
    <3> QED BY <1>2, <3>2 DEF Reached
  <2> QED BY <1>1, <2>1, <2>2, <2>3
<1> QED BY <1>2, <1>5, <1>6, <1>7 DEF Steady, Reached

\* A job that is given back or falls due is pending still.
LEMMA GivenBackSteady ==
  ASSUME TypeOK, NEW v \in Sweeps, NEW j \in Jobs, RecoverJob(j) \/ FallsDue(j)
  PROVE  Steady(v)
<1>1. /\ jobs' = [jobs EXCEPT ![j].status = "due"] /\ UNCHANGED <<reached, runs>>
      /\ jobs \in [Jobs -> Job] /\ Discovers \subseteq Jobs
  BY DEF RecoverJob, FallsDue, TypeOK, Jobs
<1>2. jobs'[j].status = "due" /\ jobs'[j].run = jobs[j].run /\ \A i \in Jobs : i # j => jobs'[i] = jobs[i]
  BY <1>1 DEF Job
<1>3. \A i \in Jobs : jobs'[i].run = jobs[i].run /\ (jobs'[i].status = "due" \/ jobs'[i] = jobs[i])
  BY <1>2
<1>4. \A i \in Discovers : DiscoverOf(i, Source(v)) => DiscoverOf(i, Source(v))' /\ (Pending(i) => Pending(i)')
  BY <1>1, <1>3 DEF DiscoverOf, Pending
<1>5. \A i \in Jobs : jobs'[i].run = sweep[v].run /\ ~(i \in Discovers /\ Pending(i)') => Beyond(i, v)
  <2>1. ASSUME NEW i \in Jobs, jobs'[i].run = sweep[v].run, ~(i \in Discovers /\ Pending(i)') PROVE Beyond(i, v)
    <3>1. Pending(i) => Pending(i)'
      BY <1>3 DEF Pending
    <3> QED BY <1>3, <2>1, <3>1 DEF Beyond
  <2> QED BY <2>1
<1> QED BY <1>1, <1>3, <1>4, <1>5 DEF Steady, Reached

\* Seeing to a discover leaves the other sweeps' alone: it is of the sweep's
\* own source.
LEMMA SeenSteady ==
  ASSUME TypeOK, LockInv, JobInv, NEW v \in Sweeps, NEW w \in Sweeps, v # w, Sweeping(v), Reaches(w),
         SeeToDiscover(w)
  PROVE  Steady(v)
<1> DEFINE s == sweep[w]
           j == IF s.seen = Nobody THEN s.run ELSE s.seen
<1>1. /\ At(w, "found") /\ Sweeping(w) /\ UNCHANGED <<reached, runs>>
      /\ jobs \in [Jobs -> Job] /\ Discovers \subseteq Jobs
  BY DEF SeeToDiscover, TypeOK, Jobs, At, Sweeping
<1>2. /\ s.run \in DOMAIN runs /\ runs[s.run].source = Source(w) /\ jobs[s.run].status = "absent"
      /\ sweep[v].run \in DOMAIN runs /\ runs[sweep[v].run].source = Source(v)
      /\ Source(v) # Source(w)
  BY <1>1, LockIsExclusive DEF LockInv, Held, JobInv
<1>3. /\ DOMAIN runs = 1..Len(runs) /\ Len(runs) \in Nat /\ Len(runs) <= MaxRuns /\ MaxRuns \in Nat
  BY SweepConstants DEF TypeOK
<1>4. s.run \in Discovers /\ s.seen \in Discovers \cup {Nobody}
  BY <1>2, <1>3 DEF Discovers, TypeOK, Sweep
<1>5. j \in Discovers /\ (s.seen # Nobody => DiscoverOf(j, Source(w)))
  BY <1>1, <1>4 DEF Reaches
<1>6. jobs' = jobs \/ jobs' = [jobs EXCEPT ![j] = [status |-> "due", run |-> s.run]]
  BY DEF SeeToDiscover
<1>7. CASE jobs' = jobs
  BY <1>1, <1>7 DEF Steady, Reached, DiscoverOf, Pending, Beyond
<1>8. CASE jobs' = [jobs EXCEPT ![j] = [status |-> "due", run |-> s.run]]
  <2>1. jobs'[j] = [status |-> "due", run |-> s.run] /\ \A i \in Jobs : i # j => jobs'[i] = jobs[i]
    BY <1>1, <1>5, <1>8
  <2>2. ~DiscoverOf(j, Source(v)) /\ jobs[j].run # sweep[v].run /\ s.run # sweep[v].run
    <3>1. CASE s.seen = Nobody
      BY <1>1, <1>2, <1>3, <1>4, <3>1 DEF JobInv, DiscoverOf
    <3>2. CASE s.seen # Nobody
      BY <1>2, <1>5, <3>2 DEF DiscoverOf
    <3> QED BY <3>1, <3>2
  <2>3. \A i \in Discovers : DiscoverOf(i, Source(v)) => DiscoverOf(i, Source(v))' /\ (Pending(i) => Pending(i)')
    BY <1>1, <2>1, <2>2 DEF DiscoverOf, Pending
  <2>4. \A i \in Discovers : jobs[i].status = "due" /\ jobs[i].run = sweep[v].run =>
       jobs'[i].status = "due" /\ jobs'[i].run = sweep[v].run
    BY <1>1, <2>1, <2>2
  <2>5. \A i \in Jobs : jobs'[i].run = sweep[v].run /\ ~(i \in Discovers /\ Pending(i)') => Beyond(i, v)
    BY <2>1, <2>2 DEF Beyond, Pending
  <2> QED BY <1>1, <2>3, <2>4, <2>5 DEF Steady, Reached
<1> QED BY <1>6, <1>7, <1>8

\* Every step keeps where the sweeps stand towards their discovers.
LEMMA ReachStep ==
  TypeOK /\ TypeOK' /\ LockInv /\ HandInv /\ JobInv /\ ReachInv /\ [Next]_vars => ReachInv'
<1> SUFFICES ASSUME TypeOK, TypeOK', LockInv, HandInv, JobInv, ReachInv, [Next]_vars PROVE ReachInv'
  OBVIOUS
<1>0. /\ sweep \in [Sweeps -> Sweep] /\ Grows /\ Sweeps \subseteq Workers
      /\ DOMAIN runs = 1..Len(runs) /\ Len(runs) \in Nat
      /\ Discovers \subseteq Jobs /\ Nobody \notin Discovers
  <2>1. sweep \in [Sweeps -> Sweep] /\ DOMAIN runs = 1..Len(runs) /\ Len(runs) \in Nat
    BY DEF TypeOK
  <2>2. Sweeps \subseteq Workers /\ Discovers \subseteq Jobs /\ Nobody \notin Discovers
    BY SweepConstants DEF Workers, Jobs, Discovers
  <2> QED BY <2>1, <2>2, GrowsAlways
\* The other sweeps.
<1>o. ASSUME NEW w \in Sweeps, \A v \in Sweeps : v # w => sweep'[v] = sweep[v] /\ (Sweeping(v) => Steady(v)),
             Reaches(w)'
      PROVE  ReachInv'
  BY <1>0, <1>o, SteadyReaches DEF ReachInv, SameSweep
\* A step of one sweep that leaves the jobs and the reached sources alone.
<1>q. ASSUME jobs' = jobs, reached' = reached PROVE \A v \in Sweeps : Steady(v)
  BY <1>0, <1>q, SameJobsSteady DEF Reached
<1>1. ASSUME NEW w \in Sweeps, Open(w) PROVE ReachInv'
  <2>1. /\ jobs' = jobs /\ reached' = reached \ {Source(w)}
        /\ \A v \in Sweeps : v # w => sweep'[v] = sweep[v]
        /\ sweep'[w] = [sweep[w] EXCEPT !.pc = "opened", !.run = Len(runs) + 1]
    BY <1>0, <1>1 DEF Open
  <2>2. ASSUME NEW v \in Sweeps, v # w, Sweeping(v) PROVE Steady(v)
    <3>1. Source(v) # Source(w)
      <4>1. lock[Source(w)] = Nobody /\ lock[Source(v)] = v[1] /\ v[1] # Nobody
        BY <1>1, <2>2, SweepConstants DEF Open, LockFree, LockInv, Held
      <4> QED BY <4>1
    <3> QED BY <1>0, <2>1, <3>1, SameJobsSteady DEF Reached
  <2>3. Reaches(w)'
    <3>1. /\ sweep'[w].pc = "opened" /\ sweep'[w].run = Len(runs) + 1 /\ sweep'[w].clock = sweep[w].clock
      BY <1>0, <2>1 DEF Sweep
    <3>2. sweep[w].clock = "early"
      BY <1>1 DEF Open, ReachInv, Reaches, Sweeping
    <3>3. \A j \in Jobs : jobs'[j].run # Len(runs) + 1
      BY <1>0, <2>1 DEF JobInv
    <3> QED BY <3>1, <3>2, <3>3 DEF Reaches, Beyond, At
  <2> QED BY <1>o, <2>1, <2>2, <2>3
<1>2. ASSUME NEW w \in Sweeps, FindDiscover(w) PROVE ReachInv'
  <2>1. PICK j \in OldestPending(w) : sweep' = [sweep EXCEPT ![w].pc = "found", ![w].seen = j]
    BY <1>2 DEF FindDiscover
  <2>2. /\ jobs' = jobs /\ reached' = reached /\ runs' = runs /\ At(w, "opened") /\ Sweeping(w)
        /\ \A v \in Sweeps : v # w => sweep'[v] = sweep[v]
        /\ sweep'[w].pc = "found" /\ sweep'[w].seen = j
        /\ sweep'[w].run = sweep[w].run /\ sweep'[w].clock = sweep[w].clock
    BY <1>0, <1>2, <2>1 DEF FindDiscover, Sweep, At, Sweeping
  <2>3. j # Nobody => DiscoverOf(j, Source(w)) /\ Pending(j)
    BY DEF OldestPending, PendingDiscovers
  <2>4. Reaches(w) /\ sweep[w].clock = "early"
    BY <2>2 DEF ReachInv, Reaches
  <2>5. Reaches(w)'
    BY <2>2, <2>3, <2>4 DEF Reaches, Beyond, Reached, Pending, DiscoverOf, At, Sweeping
  <2> QED BY <1>o, <1>q, <2>2, <2>5
<1>3. ASSUME NEW w \in Sweeps, SeeToDiscover(w) PROVE ReachInv'
  <2> DEFINE s == sweep[w]
  <2>0. PICK j : j = IF s.seen = Nobody THEN s.run ELSE s.seen
    OBVIOUS
  <2>1. /\ \A v \in Sweeps : v # w => sweep'[v] = sweep[v]
        /\ sweep'[w].pc = "own" /\ sweep'[w].run = s.run /\ sweep'[w].clock = s.clock
        /\ At(w, "found") /\ Sweeping(w) /\ reached' = reached
    BY <1>0, <1>3 DEF SeeToDiscover, Sweep, At, Sweeping
  <2>2. \A v \in Sweeps : v # w /\ Sweeping(v) => Steady(v)
    BY <1>3, SeenSteady DEF ReachInv
  <2>3. Reaches(w) /\ s.clock = "early"
    BY <2>1 DEF ReachInv, Reaches
  <2>4. s.run \in Discovers /\ s.seen \in Discovers \cup {Nobody}
    <3>1. s.run \in DOMAIN runs
      BY <2>1 DEF LockInv, Held
    <3> QED BY <1>0, <3>1, SweepConstants DEF TypeOK, Discovers, Sweep
  <2>5. CASE jobs' = [jobs EXCEPT ![j] = [status |-> "due", run |-> s.run]]
    <3>1. j \in Discovers /\ j \in Jobs /\ jobs \in [Jobs -> Job]
      BY <1>0, <2>0, <2>4 DEF TypeOK
    <3>2. jobs'[j].status = "due" /\ jobs'[j].run = s.run /\ \A i \in Jobs : i # j => jobs'[i] = jobs[i]
      BY <2>5, <3>1
    <3>3. Offered(j, w)'
      BY <2>1, <3>2 DEF Offered
    <3>4. \A i \in Jobs : Beyond(i, w)' => Reached(w)'
      BY <2>1, <2>3, <3>1, <3>2 DEF Beyond, Pending, Reaches, Reached
    <3>5. Reaches(w)'
      BY <2>1, <2>3, <3>1, <3>3, <3>4 DEF Reaches, At
    <3> QED BY <1>o, <2>1, <2>2, <3>5
  <2>6. CASE jobs' = jobs /\ s.seen # Nobody /\ ~Pending(s.seen)
    <3>1. Reached(w) /\ Reached(w)'
      BY <2>1, <2>3, <2>6 DEF Reaches, Reached
    <3>2. Reaches(w)'
      BY <2>1, <3>1 DEF Reaches, Reached, At
    <3> QED BY <1>o, <2>1, <2>2, <3>2
  <2>7. \/ jobs' = [jobs EXCEPT ![j] = [status |-> "due", run |-> s.run]]
        \/ jobs' = jobs /\ s.seen # Nobody /\ ~Pending(s.seen)
    BY <1>3, <2>0 DEF SeeToDiscover
  <2> QED BY <2>5, <2>6, <2>7
<1>4. ASSUME NEW w \in Sweeps, ClaimOwn(w) PROVE ReachInv'
  <2>1. PICK j \in OwnDue(w) : Take(w, j)
    BY <1>4 DEF ClaimOwn
  <2>2. /\ j \in Jobs /\ jobs[j].run = sweep[w].run /\ At(w, "own") /\ Sweeping(w)
        /\ \A v \in Sweeps : v # w => sweep'[v] = sweep[v]
        /\ sweep'[w].pc = "own"
    BY <1>0, <1>4 DEF ClaimOwn, OwnDue, At, Sweeping, Sweep
  <2>3. \A v \in Sweeps : Sweeping(v) => Steady(v)
    BY <1>0, <2>1, <2>2, TakeSteady
  <2>4. Reached(w)'
    <3>1. CASE j \in Discovers
      BY <1>0, <2>1, <2>2, <3>1, TakeSteady
    <3>2. CASE j \notin Discovers
      <4>1. Reached(w)
        BY <2>2, <3>2 DEF ReachInv, Reaches, Beyond
      <4> QED BY <2>2, <2>3, <4>1 DEF Steady
    <3> QED BY <3>1, <3>2
  <2>5. Reaches(w)'
    BY <2>2, <2>4 DEF Reaches, At
  <2> QED BY <1>o, <2>2, <2>3, <2>5
<1>5. ASSUME NEW w \in Sweeps, ClaimAny(w) PROVE ReachInv'
  <2>1. PICK j \in Jobs : Take(w, j)
    BY <1>5 DEF ClaimAny, Due
  <2>2. /\ At(w, "help") /\ Sweeping(w)
        /\ \A v \in Sweeps : v # w => sweep'[v] = sweep[v]
        /\ sweep'[w].pc = "help"
    BY <1>0, <1>5 DEF ClaimAny, At, Sweeping, Sweep
  <2>3. \A v \in Sweeps : Sweeping(v) => Steady(v)
    BY <1>0, <2>1, <2>2, TakeSteady
  <2>4. Reached(w)'
    BY <2>2, <2>3 DEF ReachInv, Reaches, Steady
  <2>5. Reaches(w)'
    BY <2>2, <2>4 DEF Reaches, At
  <2> QED BY <1>o, <2>2, <2>3, <2>5
<1>6. ASSUME NEW w \in Sweeps, EndOwn(w) \/ EndHelp(w) PROVE ReachInv'
  <2>1. /\ jobs' = jobs /\ reached' = reached /\ Sweeping(w)
        /\ \A v \in Sweeps : v # w => sweep'[v] = sweep[v]
    BY <1>0, <1>6 DEF EndOwn, EndHelp, Drained, Sweeping, At
  <2>2. sweep'[w].pc \in {"help", "drained"}
    BY <1>0, <1>6 DEF EndOwn, EndHelp, Drained, Sweep
  <2>3. Reached(w)
    <3>1. CASE EndHelp(w)
      BY <3>1 DEF EndHelp, ReachInv, Reaches
    <3>2. CASE EndOwn(w)
      <4>1. ASSUME sweep[w].clock = "early", NEW j \in Discovers, Offered(j, w) PROVE FALSE
        <5>1. Outstanding(w) /\ j \in OwnDue(w)
          BY <1>0, <4>1 DEF Outstanding, OwnDue, Offered, Pending
        <5> QED BY <3>2, <4>1, <5>1 DEF EndOwn
      <4> QED BY <3>2, <4>1 DEF EndOwn, ReachInv, Reaches
    <3> QED BY <1>6, <3>1, <3>2
  <2>4. Reaches(w)'
    BY <2>1, <2>2, <2>3 DEF Reaches, Reached, At
  <2> QED BY <1>o, <1>q, <2>1, <2>4
<1>7. ASSUME NEW w \in Sweeps, Throw(w) PROVE ReachInv'
  <2>1. /\ jobs' = jobs /\ reached' = reached /\ runs' = runs /\ Sweeping(w)
        /\ \A v \in Sweeps : v # w => sweep'[v] = sweep[v]
        /\ sweep'[w].pc = "drained" /\ sweep'[w].outcome = "threw" /\ sweep'[w].run = sweep[w].run
    BY <1>0, <1>7 DEF Throw, Drained, Sweeping, At, Sweep
  <2>2. Reaches(w)
    BY DEF ReachInv
  <2>3. Reaches(w)'
    BY <2>1, <2>2 DEF Reaches, Reached, Beyond, Pending, At, Sweeping
  <2> QED BY <1>o, <1>q, <2>1, <2>3
<1>8. ASSUME NEW w \in Sweeps, ReadCounts(w) PROVE ReachInv'
  <2>1. /\ jobs' = jobs /\ reached' = reached /\ At(w, "drained") /\ Sweeping(w)
        /\ \A v \in Sweeps : v # w => sweep'[v] = sweep[v]
        /\ sweep'[w].pc = "read" /\ sweep'[w].outcome = sweep[w].outcome /\ sweep'[w].run = sweep[w].run
    BY <1>0, <1>8 DEF ReadCounts, Sweeping, At, Sweep
  <2>2. Reaches(w)
    BY DEF ReachInv
  <2>3. Reaches(w)'
    BY <2>1, <2>2 DEF Reaches, Reached, Beyond, Pending, At, Sweeping
  <2> QED BY <1>o, <1>q, <2>1, <2>3
<1>9. ASSUME NEW w \in Sweeps, TimeUp(w) PROVE ReachInv'
  <2>1. /\ jobs' = jobs /\ reached' = reached /\ (At(w, "own") \/ At(w, "help")) /\ Sweeping(w)
        /\ sweep[w].clock = "ticked"
        /\ \A v \in Sweeps : v # w => sweep'[v] = sweep[v]
        /\ sweep'[w].pc = sweep[w].pc
    BY <1>0, <1>9 DEF TimeUp, Sweeping, At, Sweep
  <2>2. Reached(w)
    BY <2>1 DEF ReachInv, Reaches
  <2>3. Reaches(w)'
    BY <2>1, <2>2 DEF Reaches, Reached, At
  <2> QED BY <1>o, <1>q, <2>1, <2>3
<1>10. ASSUME NEW w \in Sweeps, Close(w) \/ Stop(w) PROVE ReachInv'
  <2>1. /\ jobs' = jobs /\ reached' = reached
        /\ \A v \in Sweeps : v # w => sweep'[v] = sweep[v]
        /\ sweep'[w] = NoSweep
    BY <1>0, <1>10 DEF Close, Stop
  <2>2. Reaches(w)'
    BY <2>1 DEF Reaches, At, Sweeping, NoSweep
  <2> QED BY <1>o, <1>q, <2>1, <2>2
\* The steps that are no sweep's own.
<1>s. ASSUME \A v \in Sweeps : SameSweep(v) /\ (Sweeping(v) => Steady(v)) PROVE ReachInv'
  BY <1>0, <1>s, SteadyReaches DEF ReachInv
<1>e. ASSUME sweep' = sweep PROVE \A v \in Sweeps : SameSweep(v)
  BY <1>e DEF SameSweep
<1>11. CASE ClaimLoop
  <2>1. sweep' = sweep /\ Loop \in Workers /\ \E j \in Jobs : Take(Loop, j)
    BY <1>11 DEF ClaimLoop, Due, Workers
  <2> QED BY <1>s, <1>e, <2>1, TakeSteady
<1>12. ASSUME NEW w \in Workers, Settle(w) PROVE ReachInv'
  <2>1. w \in Sweeps \/ w = Loop
    BY DEF Workers
  <2>2. sweep' = sweep \/ (w \in Sweeps /\ sweep' = [sweep EXCEPT ![w].processed = TRUE])
    BY <1>12, <2>1 DEF Settle, Succeeds, Fails
  <2>3. (w \in Sweeps /\ sweep' = [sweep EXCEPT ![w].processed = TRUE]) => \A v \in Sweeps : SameSweep(v)
    BY <1>0 DEF SameSweep, Sweep
  <2>4. \A v \in Sweeps : Sweeping(v) => Steady(v)
    BY <1>0, <1>12, SettleSteady DEF ReachInv
  <2> QED BY <1>s, <1>e, <2>2, <2>3, <2>4
<1>13. ASSUME NEW j \in Jobs, RecoverJob(j) \/ FallsDue(j) PROVE ReachInv'
  <2>1. sweep' = sweep
    BY <1>13 DEF RecoverJob, FallsDue
  <2> QED BY <1>s, <1>e, <1>13, <2>1, GivenBackSteady
<1>14. ASSUME UNCHANGED <<sweep, jobs, reached>> PROVE ReachInv'
  BY <1>s, <1>e, <1>q, <1>14
<1> QED
  BY <1>1, <1>2, <1>3, <1>4, <1>5, <1>6, <1>7, <1>8, <1>9, <1>10, <1>11, <1>12, <1>13, <1>14
  DEF Next, Steps, DrainSteps, Closes, GetsOld, RecoverRuns, vars

\* However large the backlog of others, a sweep that did not throw has had its
\* source's discover claimed since it began, by itself or by another (drain: "a
\* new source's discover job is never starved").
THEOREM SweepsReachTheirDiscover == Spec => []DiscoveryReached
<1> DEFINE Inv == TypeOK /\ LockInv /\ HandInv /\ JobInv /\ ReachInv
<1>1. Init => Inv
  <2> SUFFICES ASSUME Init PROVE Inv
    OBVIOUS
  <2>1. TypeOK /\ Len(runs) = 0
    BY SweepInitTyped DEF Init
  <2>2. LockInv /\ HandInv
    BY DEF Init, LockInv, Held, Sweeping, At, NoSweep, HandInv
  <2>3. \A j \in Jobs : jobs[j].run = 0 /\ jobs[j].status = "absent"
    BY DEF Init
  <2>4. \A w \in Sweeps : At(w, "none") /\ sweep[w].clock = "early"
    BY DEF Init, NoSweep, At
  <2>5. JobInv
    BY <2>1, <2>3, <2>4 DEF JobInv, Jobs, At
  <2>6. ReachInv
    BY <2>4 DEF ReachInv, Reaches, At, Sweeping
  <2> QED BY <2>1, <2>2, <2>5, <2>6
<1>2. Inv /\ [Next]_vars => Inv'
  BY LockHasRun, SweepStepTyped, LockStep, JobStep, ReachStep
<1>3. Inv => DiscoveryReached
  BY DEF ReachInv, Reaches, Reached, DiscoveryReached
<1> QED BY <1>1, <1>2, <1>3, PTL DEF Spec

-----------------------------------------------------------------------------
(* The tally of consecutive failures.                                      *)

\* The failed runs of a source after all those of R.
Failed(s, R) == {r \in RunsOf(s) : runs[r].status = "failed" /\ \A q \in R : q < r}
\* A source's tally lies where its runs put it.
Agrees(s) == failures[s] \in FailedSince(s, Worked(s))..FailedSince(s, Clean(s))

\* While every sweep ran to its end, a run that is open is its sweep's, and so
\* none was ever old; a sweep's run is the last of its source.
LastOf(w) == Sweeping(w) => \A r \in RunsOf(Source(w)) : r <= sweep[w].run
TallyInv ==
  /\ \A w \in Sweeps : LastOf(w)
  /\ stops = 0 => /\ \A r \in 1..Len(runs) : runs[r].status = "running" => Live(r)
                  /\ old = {} /\ \A s \in Sources : Agrees(s)

\* Some of n runs are finitely many.
LEMMA FailedFinite ==
  ASSUME NEW n \in Nat, NEW F \in SUBSET (1..n)
  PROVE  IsFiniteSet(F) /\ Cardinality(F) \in Nat
<1>1. IsFiniteSet(1..n)
  BY FS_Interval
<1> QED BY <1>1, FS_Subset, FS_CardinalityType

\* A step that gives no verdict and only adds to the counts of those there are.
SameVerdicts ==
  /\ DOMAIN runs \subseteq DOMAIN runs'
  /\ \A r \in DOMAIN runs : /\ runs'[r].source = runs[r].source /\ runs'[r].status = runs[r].status
                            /\ runs[r].counts \subseteq runs'[r].counts
  /\ \A r \in DOMAIN runs' \ DOMAIN runs : runs'[r].status = "running"

\* A tally keeps agreeing while no verdict is given.
LEMMA VerdictsStand ==
  ASSUME TypeOK, TypeOK', SameVerdicts, NEW s \in Sources, failures'[s] = failures[s], Agrees(s)
  PROVE  Agrees(s)'
<1>1. Worked(s)' = Worked(s)
  BY DEF Worked, RunsOf, SameVerdicts
<1>2. Clean(s)' \subseteq Clean(s)
  BY <1>1 DEF Clean, SameVerdicts, Worked, RunsOf
<1>3. Failed(s, Worked(s))' = Failed(s, Worked(s))
  BY <1>1 DEF Failed, RunsOf, SameVerdicts
<1>4. Failed(s, Clean(s)) \subseteq Failed(s, Clean(s))'
  BY <1>2 DEF Failed, RunsOf, SameVerdicts
<1>5. /\ Len(runs) \in Nat /\ Len(runs') \in Nat
      /\ Failed(s, Worked(s)) \in SUBSET (1..Len(runs)) /\ Failed(s, Clean(s)) \in SUBSET (1..Len(runs))
      /\ Failed(s, Worked(s))' \in SUBSET (1..Len(runs')) /\ Failed(s, Clean(s))' \in SUBSET (1..Len(runs'))
  BY DEF Failed, RunsOf, TypeOK
<1>6. /\ FailedSince(s, Worked(s)) = Cardinality(Failed(s, Worked(s)))
      /\ FailedSince(s, Clean(s)) = Cardinality(Failed(s, Clean(s)))
      /\ FailedSince(s, Worked(s))' = Cardinality(Failed(s, Worked(s))')
      /\ FailedSince(s, Clean(s))' = Cardinality(Failed(s, Clean(s))')
  BY DEF FailedSince, Failed
<1>7. Cardinality(Failed(s, Clean(s))) <= Cardinality(Failed(s, Clean(s))')
  BY <1>4, <1>5, FailedFinite, FS_Subset
<1>8. /\ Cardinality(Failed(s, Worked(s))) \in Nat /\ Cardinality(Failed(s, Clean(s))) \in Nat
      /\ Cardinality(Failed(s, Clean(s))') \in Nat
  BY <1>5, FailedFinite
<1> QED BY <1>3, <1>6, <1>7, <1>8 DEF Agrees, TypeOK

\* What the closing update does to the runs.
LEMMA CloseFacts ==
  ASSUME TypeOK, LockInv, NEW w \in Sweeps, Close(w)
  PROVE  LET s == sweep[w] IN
         /\ s.run \in DOMAIN runs /\ runs[s.run].source = Source(w) /\ runs[s.run].status = "running"
         /\ DOMAIN runs' = DOMAIN runs
         /\ runs'[s.run].source = Source(w)
         /\ runs'[s.run].status = Classify(s) /\ runs'[s.run].counts = s.read
         /\ \A r \in DOMAIN runs : r # s.run => runs'[r] = runs[r]
         /\ Source(w) \in Sources
         /\ failures'[Source(w)] = Health(Classify(s), s.read, failures[Source(w)])
         /\ \A t \in Sources : t # Source(w) => failures'[t] = failures[t]
<1> DEFINE s == sweep[w]
<1>1. /\ s \in Sweep /\ s.read \in Tally /\ s.run \in DOMAIN runs /\ Sweeping(w)
      /\ runs[s.run].source = Source(w) /\ runs[s.run].status = "running"
  BY DEF Close, At, Sweeping, LockInv, Held, TypeOK, Sweep
<1>2. runs' = [runs EXCEPT ![s.run].status = Classify(s), ![s.run].counts = s.read]
  BY DEF Close
<1>3. /\ runs'[s.run].source = runs[s.run].source
      /\ runs'[s.run].status = Classify(s) /\ runs'[s.run].counts = s.read
      /\ \A r \in DOMAIN runs : r # s.run => runs'[r] = runs[r]
  <2>1. Classify(s) \in {"succeeded", "partial", "failed"} /\ runs \in Seq(Run)
    BY ClassifyFacts DEF TypeOK
  <2> QED BY <1>1, <1>2, <2>1, ClosedRun
<1>4. DOMAIN runs' = DOMAIN runs
  BY <1>2
<1>5. Source(w) \in Sources
  BY SweepConstants DEF Source
<1>6. /\ failures'[Source(w)] = Health(Classify(s), s.read, failures[Source(w)])
      /\ \A t \in Sources : t # Source(w) => failures'[t] = failures[t]
  BY <1>5 DEF Close, TypeOK
<1> QED BY <1>1, <1>3, <1>4, <1>5, <1>6

\* Closing a run of one source leaves the tallies of the others alone.
LEMMA CloseElsewhere ==
  ASSUME TypeOK, TypeOK', LockInv, NEW w \in Sweeps, Close(w), NEW t \in Sources, t # Source(w), Agrees(t)
  PROVE  Agrees(t)'
<1>1. RunsOf(t)' = RunsOf(t) /\ \A r \in RunsOf(t) : runs'[r] = runs[r]
  BY CloseFacts DEF RunsOf
<1>2. Worked(t)' = Worked(t)
  BY <1>1 DEF Worked
<1>3. Clean(t)' = Clean(t)
  BY <1>1, <1>2 DEF Clean, Worked
<1>4. FailedSince(t, Worked(t))' = FailedSince(t, Worked(t)) /\ FailedSince(t, Clean(t))' = FailedSince(t, Clean(t))
  <2>1. Failed(t, Worked(t))' = Failed(t, Worked(t)) /\ Failed(t, Clean(t))' = Failed(t, Clean(t))
    BY <1>1, <1>2, <1>3 DEF Failed
  <2> QED BY <2>1 DEF FailedSince, Failed
<1>5. failures'[t] = failures[t]
  BY CloseFacts
<1> QED BY <1>4, <1>5 DEF Agrees

\* The run that closes is the last of its source: the failed runs since the
\* last good one are one more, none, or as many as before.
LEMMA CloseAgrees ==
  ASSUME TypeOK, TypeOK', LockInv, NEW w \in Sweeps, Close(w), LastOf(w), Agrees(Source(w))
  PROVE  Agrees(Source(w))'
<1>0. PICK s, n, st, c : s = Source(w) /\ n = sweep[w].run /\ st = Classify(sweep[w]) /\ c = sweep[w].read
  OBVIOUS
<1>1. /\ n \in DOMAIN runs /\ runs[n].source = s /\ runs[n].status = "running" /\ DOMAIN runs' = DOMAIN runs
      /\ runs'[n].source = s /\ runs'[n].status = st /\ runs'[n].counts = c
      /\ \A r \in DOMAIN runs : r # n => runs'[r] = runs[r]
      /\ failures'[s] = Health(st, c, failures[s]) /\ s \in Sources
  BY <1>0, CloseFacts
<1>2. DOMAIN runs = 1..Len(runs) /\ Len(runs) \in Nat /\ failures[s] \in Nat /\ st \in {"succeeded", "partial", "failed"}
  BY <1>0, <1>1, ClassifyFacts DEF TypeOK
<1>3. \A r \in RunsOf(s) : r <= n
  BY <1>0 DEF LastOf, Close, At, Sweeping
<1>4. RunsOf(s)' = RunsOf(s) /\ n \in RunsOf(s)
  BY <1>1 DEF RunsOf
<1>5. /\ Worked(s) \subseteq RunsOf(s) \ {n} /\ Clean(s) \subseteq Worked(s)
      /\ Failed(s, Worked(s)) \subseteq RunsOf(s) \ {n} /\ Failed(s, Clean(s)) \subseteq RunsOf(s) \ {n}
  BY <1>1 DEF Worked, Clean, Failed
<1>6. RunsOf(s) \subseteq 1..Len(runs)
  BY <1>2 DEF RunsOf
<1>7. \A q \in RunsOf(s) \ {n} : q < n
  BY <1>1, <1>2, <1>3, <1>6
<1>8. /\ FailedSince(s, Worked(s)) = Cardinality(Failed(s, Worked(s)))
      /\ FailedSince(s, Clean(s)) = Cardinality(Failed(s, Clean(s)))
      /\ FailedSince(s, Worked(s))' = Cardinality(Failed(s, Worked(s))')
      /\ FailedSince(s, Clean(s))' = Cardinality(Failed(s, Clean(s))')
  BY DEF FailedSince, Failed
<1>9. /\ IsFiniteSet(Failed(s, Worked(s))) /\ IsFiniteSet(Failed(s, Clean(s)))
      /\ Cardinality(Failed(s, Worked(s))) \in Nat /\ Cardinality(Failed(s, Clean(s))) \in Nat
  BY <1>2, <1>5, <1>6, FailedFinite
<1>10. failures[s] \in FailedSince(s, Worked(s))..FailedSince(s, Clean(s))
  BY <1>0 DEF Agrees
<1>11. CASE st = "failed"
  <2>1. Worked(s)' = Worked(s)
    BY <1>1, <1>4, <1>11 DEF Worked, RunsOf
  <2>2. Clean(s)' = Clean(s)
    BY <1>1, <1>5, <2>1 DEF Clean, Worked, RunsOf
  <2>3. Failed(s, Worked(s))' = Failed(s, Worked(s)) \cup {n}
    BY <1>1, <1>4, <1>5, <1>7, <1>11, <2>1 DEF Failed, RunsOf
  <2>4. Failed(s, Clean(s))' = Failed(s, Clean(s)) \cup {n}
    BY <1>1, <1>4, <1>5, <1>7, <1>11, <2>2 DEF Failed, RunsOf
  <2>5. /\ Cardinality(Failed(s, Worked(s))') = Cardinality(Failed(s, Worked(s))) + 1
        /\ Cardinality(Failed(s, Clean(s))') = Cardinality(Failed(s, Clean(s))) + 1
    BY <1>5, <1>9, <2>3, <2>4, FS_AddElement
  <2>6. failures'[s] = failures[s] + 1
    BY <1>1, <1>11 DEF Health
  <2> QED BY <1>0, <1>2, <1>8, <1>9, <1>10, <2>5, <2>6 DEF Agrees
\* A good run leaves no failed one after it.
<1>a. ASSUME NEW F, F \subseteq RunsOf(s) \ {n}, \A r \in F : n < r PROVE F = {}
  BY <1>a, <1>1, <1>2, <1>6, <1>7
<1>12. CASE st \in {"succeeded", "partial"}
  <2>1. Worked(s)' = Worked(s) \cup {n}
    BY <1>1, <1>4, <1>12 DEF Worked, RunsOf
  <2>2. Failed(s, Worked(s))' = {}
    <3>1. /\ Failed(s, Worked(s))' \subseteq RunsOf(s) \ {n}
          /\ \A r \in Failed(s, Worked(s))' : n < r
      BY <1>1, <1>4, <1>12, <2>1 DEF Failed
    <3> QED BY <1>a, <3>1
  <2>3. FailedSince(s, Worked(s))' = 0
    BY <1>8, <2>2, FS_EmptySet
  <2>4. CASE st = "succeeded" \/ "errors" \notin c
    <3>1. failures'[s] = 0
      BY <1>1, <1>12, <2>4 DEF Health
    <3>2. n \in Clean(s)'
      BY <1>1, <2>1, <2>4 DEF Clean
    <3>3. Failed(s, Clean(s))' = {}
      <4>1. /\ Failed(s, Clean(s))' \subseteq RunsOf(s) \ {n}
            /\ \A r \in Failed(s, Clean(s))' : n < r
        BY <1>1, <1>4, <1>12, <3>2 DEF Failed
      <4> QED BY <1>a, <4>1
    <3> QED BY <1>0, <1>8, <2>3, <3>1, <3>3, FS_EmptySet DEF Agrees
  <2>5. CASE st # "succeeded" /\ "errors" \in c
    <3>1. failures'[s] = failures[s]
      BY <1>1, <1>12, <2>5 DEF Health
    <3>2. Clean(s)' = Clean(s)
      BY <1>1, <1>5, <2>1, <2>5 DEF Clean, Worked, RunsOf
    <3>3. Failed(s, Clean(s))' = Failed(s, Clean(s))
      BY <1>1, <1>4, <1>5, <1>12, <3>2 DEF Failed, RunsOf
    <3> QED BY <1>0, <1>2, <1>8, <1>9, <1>10, <2>3, <3>1, <3>3 DEF Agrees
  <2> QED BY <2>4, <2>5
<1> QED BY <1>2, <1>11, <1>12

\* A sweep's run stays the last of its source while no run is added.
LEMMA LastKept ==
  ASSUME NEW v \in Sweeps, LastOf(v), DOMAIN runs' = DOMAIN runs,
         \A r \in DOMAIN runs : runs'[r].source = runs[r].source,
         Sweeping(v)' => Sweeping(v) /\ sweep'[v].run = sweep[v].run
  PROVE  LastOf(v)'
BY DEF LastOf, RunsOf

\* What a step has to keep for the tallies to agree after it.
LEMMA TallyKept ==
  ASSUME TypeOK, TypeOK', TallyInv, SameVerdicts, DOMAIN runs' = DOMAIN runs, Keeps,
         UNCHANGED <<old, failures, stops>>
  PROVE  TallyInv'
<1>1. \A v \in Sweeps : LastOf(v)'
  BY LastKept DEF TallyInv, SameVerdicts, Keeps
<1>2. ASSUME stops' = 0 PROVE \A s \in Sources : Agrees(s)'
  BY <1>2, VerdictsStand DEF TallyInv
<1>3. ASSUME stops' = 0, NEW r \in 1..Len(runs'), runs'[r].status = "running" PROVE Live(r)'
  <2>1. r \in 1..Len(runs) /\ runs[r].status = "running"
    BY <1>3 DEF SameVerdicts, TypeOK
  <2>2. Live(r)
    BY <1>3, <2>1 DEF TallyInv
  <2> QED BY <2>2 DEF Live, Keeps
<1> QED BY <1>1, <1>2, <1>3 DEF TallyInv

\* Every step keeps the tallies: only Open adds a run, and only Close and
\* recovery give verdicts.
LEMMA TallyStep == TypeOK /\ TypeOK' /\ LockInv /\ TallyInv /\ [Next]_vars => TallyInv'
<1> SUFFICES ASSUME TypeOK, TypeOK', LockInv, TallyInv, [Next]_vars PROVE TallyInv'
  OBVIOUS
<1>0. /\ sweep \in [Sweeps -> Sweep] /\ DOMAIN runs = 1..Len(runs) /\ Len(runs) \in Nat
      /\ DOMAIN runs' = 1..Len(runs') /\ Len(runs') \in Nat /\ stops \in Nat
  BY DEF TypeOK
<1>r. /\ Recovered \in Seq(Run) /\ Len(Recovered) = Len(runs) /\ DOMAIN Recovered = DOMAIN runs
      /\ \A r \in DOMAIN runs : Recovered[r].source = runs[r].source
      /\ old = {} => \A r \in DOMAIN runs : Recovered[r] = runs[r]
  BY RecoveredFacts DEF TypeOK, Abandoned
<1>k. ASSUME runs' = runs PROVE SameVerdicts /\ DOMAIN runs' = DOMAIN runs
  BY <1>k DEF SameVerdicts
<1>1. ASSUME NEW w \in Sweeps, Open(w) PROVE TallyInv'
  <2> DEFINE run == [source |-> Source(w), counts |-> {}, status |-> "running"]
  <2>0. PICK n : n = Len(runs) + 1
    OBVIOUS
  <2>1. run \in Run
    BY SweepConstants DEF Run, Tally, Source
  <2>2. /\ DOMAIN runs' = DOMAIN runs \cup {n} /\ runs'[n] = run /\ n \notin DOMAIN runs
        /\ \A r \in DOMAIN runs : runs'[r] = Recovered[r] /\ r <= n
    BY <1>0, <1>r, <1>1, <2>0, <2>1 DEF Open
  <2>3. /\ \A v \in Sweeps : v # w => sweep'[v] = sweep[v]
        /\ sweep'[w].pc = "opened" /\ sweep'[w].run = n
        /\ ~Sweeping(w) /\ UNCHANGED <<old, failures, stops>>
    BY <1>0, <1>1, <2>0 DEF Open, Sweep
  <2>4. LastOf(w)'
    <3>1. n \in Nat /\ \A r \in DOMAIN runs' : r <= n
      BY <1>0, <2>0, <2>2
    <3> QED BY <2>3, <3>1 DEF LastOf, RunsOf
  <2>5. ASSUME NEW v \in Sweeps, v # w PROVE LastOf(v)'
    <3>1. Sweeping(v) => Source(v) # Source(w)
      <4>1. Sweeping(v) => lock[Source(w)] = Nobody /\ lock[Source(v)] = v[1] /\ v[1] # Nobody
        BY <1>1, SweepConstants DEF Open, LockFree, LockInv, Held
      <4> QED BY <4>1
    <3>2. Sweeping(v) => RunsOf(Source(v))' = RunsOf(Source(v))
      BY <1>r, <2>2, <3>1 DEF RunsOf
    <3> QED BY <2>3, <2>5, <3>2 DEF TallyInv, LastOf, Sweeping, At
  <2>6. ASSUME stops' = 0 PROVE (\A s \in Sources : Agrees(s)') /\ old' = {}
    <3>1. old = {} /\ \A s \in Sources : Agrees(s)
      BY <2>3, <2>6 DEF TallyInv
    <3>2. SameVerdicts
      BY <1>r, <2>2, <3>1 DEF SameVerdicts
    <3> QED BY <2>3, <3>1, <3>2, VerdictsStand
  <2>7. ASSUME stops' = 0, NEW r \in 1..Len(runs'), runs'[r].status = "running" PROVE Live(r)'
    <3>1. CASE r = n
      BY <2>3, <3>1 DEF Live, Sweeping, At
    <3>2. CASE r # n
      <4>1. old = {} /\ r \in DOMAIN runs
        BY <1>0, <2>2, <2>3, <2>7, <3>2 DEF TallyInv
      <4>2. runs[r].status = "running"
        BY <1>r, <2>2, <2>7, <4>1
      <4>3. PICK v \in Sweeps : Sweeping(v) /\ sweep[v].run = r
        BY <1>0, <2>3, <2>7, <4>1, <4>2 DEF TallyInv, Live
      <4> QED BY <2>3, <4>3 DEF Live, Sweeping, At
    <3> QED BY <3>1, <3>2
  <2> QED BY <2>4, <2>5, <2>6, <2>7 DEF TallyInv
<1>2. ASSUME NEW w \in Sweeps, Quiet(w) PROVE TallyInv'
  <2>1. UNCHANGED <<failures, stops>>
    BY <1>2 DEF Quiet, FindDiscover, SeeToDiscover, DrainSteps, ClaimOwn, ClaimAny, Take, EndOwn, EndHelp,
                ReadCounts, Throw, TimeUp
  <2> QED BY <1>2, <1>k, <2>1, QuietKeeps, TallyKept
<1>3. ASSUME NEW w \in Sweeps, Close(w) PROVE TallyInv'
  <2>0. PICK n : n = sweep[w].run
    OBVIOUS
  <2>1. /\ n \in DOMAIN runs /\ DOMAIN runs' = DOMAIN runs
        /\ runs'[n].source = runs[n].source
        /\ runs'[n].status \in {"succeeded", "partial", "failed"}
        /\ \A r \in DOMAIN runs : r # n => runs'[r] = runs[r]
    BY <1>3, <2>0, CloseFacts, ClassifyFacts
  <2>2. /\ \A v \in Sweeps : v # w => sweep'[v] = sweep[v]
        /\ sweep'[w] = NoSweep /\ UNCHANGED <<old, stops>>
    BY <1>0, <1>3 DEF Close
  <2>3. ASSUME NEW v \in Sweeps PROVE LastOf(v)'
    <3>1. Sweeping(v)' => Sweeping(v) /\ sweep'[v].run = sweep[v].run
      BY <2>2 DEF Sweeping, At, NoSweep
    <3>2. \A r \in DOMAIN runs : runs'[r].source = runs[r].source
      BY <2>1
    <3> QED BY <2>1, <3>1, <3>2, LastKept DEF TallyInv
  <2>4. ASSUME stops' = 0, NEW s \in Sources PROVE Agrees(s)'
    BY <1>3, <2>2, <2>4, CloseAgrees, CloseElsewhere DEF TallyInv
  <2>5. ASSUME stops' = 0, NEW r \in 1..Len(runs'), runs'[r].status = "running" PROVE Live(r)'
    <3>1. r # n /\ r \in DOMAIN runs /\ runs[r].status = "running"
      BY <1>0, <2>1, <2>5
    <3>2. PICK v \in Sweeps : Sweeping(v) /\ sweep[v].run = r
      BY <1>0, <2>2, <2>5, <3>1 DEF TallyInv, Live
    <3> QED BY <2>0, <2>2, <3>1, <3>2 DEF Live, Sweeping, At
  <2> QED BY <2>2, <2>3, <2>4, <2>5 DEF TallyInv
<1>4. ASSUME NEW w \in Sweeps, Stop(w) PROVE TallyInv'
  <2>1. /\ \A v \in Sweeps : v # w => sweep'[v] = sweep[v]
        /\ sweep'[w] = NoSweep /\ runs' = runs /\ stops' # 0
    BY <1>0, <1>4 DEF Stop
  <2>2. ASSUME NEW v \in Sweeps PROVE LastOf(v)'
    <3>1. Sweeping(v)' => Sweeping(v) /\ sweep'[v].run = sweep[v].run
      BY <2>1 DEF Sweeping, At, NoSweep
    <3> QED BY <2>1, <3>1, LastKept DEF TallyInv
  <2> QED BY <2>1, <2>2 DEF TallyInv
<1>5. ASSUME NEW w \in Workers, Settle(w) PROVE TallyInv'
  <2>1. PICK tally \in {{"work"}, {"errors"}} : Record(hand[w], tally)
    BY <1>5 DEF Settle, Succeeds, Fails
  <2>2. tally \in Tally
    BY DEF Tally
  <2>3. SameVerdicts /\ DOMAIN runs' = DOMAIN runs
    BY <2>1, <2>2, RecordFacts DEF TypeOK, SameVerdicts
  <2> QED BY <1>5, <2>3, SettleKeeps, TallyKept DEF Settle
<1>6. ASSUME NEW r \in 1..MaxRuns, GetsOld(r) PROVE TallyInv'
  <2>1. stops # 0
    BY <1>0, <1>6 DEF GetsOld, Unclosed, TallyInv
  <2>2. UNCHANGED <<runs, sweep, stops>>
    BY <1>6 DEF GetsOld
  <2> QED BY <2>1, <2>2, LastKept DEF TallyInv, Sweeping, At
<1>7. CASE RecoverRuns
  <2>1. stops # 0
    BY <1>7 DEF RecoverRuns, Abandoned, TallyInv
  <2>2. UNCHANGED <<sweep, stops>> /\ runs' = Recovered
    BY <1>7 DEF RecoverRuns
  <2>3. \A v \in Sweeps : LastOf(v)'
    BY <1>r, <2>2, LastKept DEF TallyInv, Sweeping, At
  <2> QED BY <2>1, <2>2, <2>3 DEF TallyInv
<1>8. ASSUME UNCHANGED <<runs, sweep, old, failures, stops>> PROVE TallyInv'
  <2>1. Keeps
    BY <1>8 DEF Keeps, Sweeping, At
  <2> QED BY <1>8, <1>k, <2>1, TallyKept
<1> QED
  BY <1>1, <1>2, <1>3, <1>4, <1>5, <1>6, <1>7, <1>8
  DEF Next, Steps, Closes, Quiet, ClaimLoop, Take, RecoverJob, FallsDue, vars

\* Between sweeps, and if every sweep so far ran to its end, a source's tally
\* of failures lies between the failed runs since the last that did any work
\* and those since the last that did it without error (updateSourceHealth).
THEOREM TalliesAgree == Spec => []TallyAgrees
<1>1. Init => TallyInv
  <2> SUFFICES ASSUME Init PROVE TallyInv
    OBVIOUS
  <2>1. TypeOK /\ Len(runs) = 0 /\ DOMAIN runs = {} /\ old = {}
    BY SweepInitTyped DEF Init
  <2>2. \A w \in Sweeps : LastOf(w)
    BY <2>1 DEF LastOf, RunsOf
  <2>3. \A s \in Sources : Agrees(s)
    <3>1. ASSUME NEW s \in Sources PROVE Agrees(s)
      <4>1. \A R : Failed(s, R) = {} /\ FailedSince(s, R) = Cardinality(Failed(s, R))
        BY <2>1 DEF Failed, FailedSince, RunsOf
      <4>2. FailedSince(s, Worked(s)) = 0 /\ FailedSince(s, Clean(s)) = 0
        BY <4>1, FS_EmptySet
      <4>3. failures[s] = 0
        BY DEF Init
      <4> QED BY <4>2, <4>3 DEF Agrees
    <3> QED BY <3>1
  <2> QED BY <2>1, <2>2, <2>3 DEF TallyInv
<1>2. TypeOK /\ TypeOK' /\ LockInv /\ TallyInv /\ [Next]_vars => TallyInv'
  BY TallyStep
<1>3. TallyInv => TallyAgrees
  BY DEF TallyInv, TallyAgrees, Agrees
<1> QED BY <1>1, <1>2, <1>3, SweepInvariants, PTL DEF Spec
=============================================================================
