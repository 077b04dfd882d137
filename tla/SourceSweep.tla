----------------------------- MODULE SourceSweep -----------------------------
(***************************************************************************)
(* The sweep of a source (backend/src/services/ingestion/scheduler.ts) and *)
(* the run it leaves behind.  A sweep takes the source's advisory lock,    *)
(* opens a row of ingestion_runs, sees to one discover job, turns the      *)
(* worker on its own run's jobs and then on anybody's until nothing is due *)
(* or its time is up, and closes the run from the tallies it reads.        *)
(*                                                                         *)
(* Sweeps of different sources run side by side, in one server or in two   *)
(* while a deploy overlaps, over one queue of jobs; the standing loops     *)
(* claim from it too, except that only sweeps claim discover jobs.  The    *)
(* queue itself is in IngestionQueue: here a claimed job comes back done,  *)
(* to be retried, or blocked, and only its holder settles it.              *)
(***************************************************************************)
EXTENDS Naturals, Sequences, FiniteSets

CONSTANTS
  Servers,    \* processes with a SourceScheduler
  Sources,    \* rows of ingestion_sources, all enabled
  Sweeps,     \* <<server, source>>: which process's ticks are looked at
  Fetches,    \* identities of the jobs a discover enqueues
  Loop,       \* the standing loops, taken as one worker
  Nobody,     \* no server, no job
  MaxRuns,    \* bound: sweeps begun
  MaxMishaps  \* bound: sweeps stopped and database errors survived

ASSUME SweepConstants ==
  /\ Nobody \notin Servers
  /\ Sweeps \subseteq Servers \X Sources
  /\ Loop \notin Sweeps
  /\ Fetches \cap (1..MaxRuns) = {} /\ Nobody \notin Fetches \cup (1..MaxRuns)
  /\ MaxRuns \in Nat
  /\ MaxMishaps \in Nat

VARIABLES
  lock,      \* lock[s]: the server whose transaction holds s's advisory lock
  sweep,     \* sweep[w]: where the sweep w = <<server, source>> stands
  runs,      \* ingestion_runs, in the order of their inserts
  old,       \* runs with started_at before the recovery threshold
  jobs,      \* jobs[j]: the row of ingestion_jobs
  hand,      \* hand[w]: the job a worker is on
  failures,  \* failures[s]: consecutive_failures
  reached,   \* sources with a discover claimed since their last sweep began
  stops,     \* sweeps that ended without closing their run
  errors     \* database errors that a sweep survived

vars == <<lock, sweep, runs, old, jobs, hand, failures, reached, stops, errors>>

Workers == Sweeps \cup {Loop}

\* A run inserts at most one discover, which is named after it.
Discovers == 1..MaxRuns
Jobs == Discovers \cup Fetches

\* A row that does not exist yet is "absent"; a pending one is "due" or waits
\* for its next attempt.
Job == [status : {"absent", "waiting", "due", "running", "done", "blocked"},
        run : 0..MaxRuns]

\* Which keys of ingestion_runs.counts are above zero: SUCCESS_KEYS, FAILURE_KEYS.
Tally == SUBSET {"work", "errors"}
Run == [source : Sources, counts : Tally,
        status : {"running", "succeeded", "partial", "failed"}]

\* clock: whether a tick has run and the deadline has passed; outcome: how the
\* drain ended; read: the counts the closing statement will write back.
Sweep == [pc : {"none", "opened", "found", "own", "help",
                "drained", "read"},
          run : 0..MaxRuns, seen : Discovers \cup {Nobody},
          clock : {"early", "ticked", "late"}, processed : BOOLEAN,
          outcome : {"finished", "deadline", "threw"}, read : Tally]
NoSweep == [pc |-> "none", run |-> 0, seen |-> Nobody, clock |-> "early",
            processed |-> FALSE, outcome |-> "finished", read |-> {}]

TypeOK ==
  /\ lock \in [Sources -> Servers \cup {Nobody}]
  /\ sweep \in [Sweeps -> Sweep]
  /\ runs \in Seq(Run) /\ Len(runs) <= MaxRuns
  /\ old \subseteq DOMAIN runs
  /\ jobs \in [Jobs -> Job]
  /\ hand \in [Workers -> Jobs \cup {Nobody}]
  /\ failures \in [Sources -> Nat]
  /\ reached \subseteq Sources
  /\ stops \in Nat /\ errors \in Nat /\ stops + errors <= MaxMishaps

Init ==
  /\ lock = [s \in Sources |-> Nobody]
  /\ sweep = [w \in Sweeps |-> NoSweep]
  /\ runs = << >> /\ old = {}
  /\ jobs = [j \in Jobs |-> [status |-> "absent", run |-> 0]]
  /\ hand = [w \in Workers |-> Nobody]
  /\ failures = [s \in Sources |-> 0]
  /\ reached = {}
  /\ stops = 0 /\ errors = 0

Source(w) == w[2]
At(w, pc) == sweep[w].pc = pc
Sweeping(w) == ~At(w, "none")
Live(r) == \E w \in Sweeps : Sweeping(w) /\ sweep[w].run = r

Unclosed(r) == r \in DOMAIN runs /\ runs[r].status = "running"

\* A discover's source is its run's: adoption moves it within one source.
DiscoverOf(j, s) == j \in Discovers /\ jobs[j].run # 0 /\ runs[jobs[j].run].source = s
Pending(j) == jobs[j].status \in {"waiting", "due"}

-----------------------------------------------------------------------------
(* Opening a run.                                                          *)

\* Mutant: the in-process guard without the advisory lock.
LockFreeHere(w) == ~Sweeping(w)

\* pg_try_advisory_xact_lock: a tick that cannot take it does nothing.
LockFree(w) == lock[Source(w)] = Nobody

\* Mutant: every running run is taken for abandoned.
AbandonedRunning == {r \in DOMAIN runs : runs[r].status = "running"}

\* Mutant: a run that recorded nothing is passed over.
AbandonedWithCounts == {r \in old : runs[r].status = "running" /\ runs[r].counts # {}}

Abandoned == {r \in old : runs[r].status = "running"}

Salvaged(run) == [run EXCEPT !.status = IF "work" \in run.counts THEN "partial" ELSE "failed"]

\* recoverAbandonedRuns: closed from the counts they had recorded; the health
\* of the source is not touched.
Recovered == [r \in DOMAIN runs |-> IF r \in Abandoned THEN Salvaged(runs[r]) ELSE runs[r]]

\* sweepSource, from cron or from the console: under the lock, abandoned runs
\* are closed and the row of this one goes in.
Open(w) ==
  /\ ~Sweeping(w)
  /\ Len(runs) < MaxRuns
  /\ LockFree(w)
  /\ lock' = [lock EXCEPT ![Source(w)] = w[1]]
  /\ runs' = Append(Recovered, [source |-> Source(w), counts |-> {}, status |-> "running"])
  /\ sweep' = [sweep EXCEPT ![w].pc = "opened", ![w].run = Len(runs) + 1]
  /\ reached' = reached \ {Source(w)}
  /\ UNCHANGED <<old, jobs, hand, failures, stops, errors>>

-----------------------------------------------------------------------------
(* enqueueDiscover: a look for a pending discover of the source, oldest    *)
(* first, and then its adoption or an insert.                              *)

PendingDiscovers(s) == {j \in Discovers : Pending(j) /\ DiscoverOf(j, s)}

OldestPending(w) == LET found == PendingDiscovers(Source(w))
                    IN IF found = {} THEN {Nobody} ELSE {j \in found : \A k \in found : j <= k}

FindDiscover(w) ==
  /\ At(w, "opened")
  /\ \E j \in OldestPending(w) : sweep' = [sweep EXCEPT ![w].pc = "found", ![w].seen = j]
  /\ UNCHANGED <<lock, runs, old, jobs, hand, failures, reached, stops, errors>>

\* The update is conditional on the row still being pending; a discover that
\* was claimed in between is left to its claimant, and no other goes in.
SeeToDiscover(w) ==
  /\ At(w, "found")
  /\ LET s == sweep[w]
         j == IF s.seen = Nobody THEN s.run ELSE s.seen
     IN jobs' = IF s.seen = Nobody \/ Pending(j)
                THEN [jobs EXCEPT ![j] = [status |-> "due", run |-> s.run]] ELSE jobs
  /\ sweep' = [sweep EXCEPT ![w].pc = "own", ![w].seen = Nobody]
  /\ UNCHANGED <<lock, runs, old, hand, failures, reached, stops, errors>>

-----------------------------------------------------------------------------
(* The workers: runOnce with a batch of one.                               *)

\* Mutant: the first phase claims whatever is due.
AnyDueJob(w) == {j \in Jobs : jobs[j].status = "due"}

OwnDue(w) == {j \in Jobs : jobs[j].status = "due" /\ jobs[j].run = sweep[w].run}

Due == {j \in Jobs : jobs[j].status = "due"}

\* claim: the row is the worker's until it settles it.
Take(w, j) ==
  /\ hand[w] = Nobody
  /\ jobs' = [jobs EXCEPT ![j].status = "running"]
  /\ hand' = [hand EXCEPT ![w] = j]
  /\ reached' = reached \cup {s \in Sources : DiscoverOf(j, s)}
  /\ UNCHANGED <<lock, runs, old, failures, stops, errors>>

\* Phase 1 of drain: this run's own jobs.
ClaimOwn(w) ==
  /\ At(w, "own") /\ sweep[w].clock # "late"
  /\ \E j \in OwnDue(w) : Take(w, j)
  /\ sweep' = [sweep EXCEPT ![w].clock = "ticked"]

\* Phase 2: whatever is due.
ClaimAny(w) ==
  /\ At(w, "help") /\ sweep[w].clock # "late"
  /\ \E j \in Due : Take(w, j)
  /\ sweep' = [sweep EXCEPT ![w].clock = "ticked"]

\* The standing loops, which leave discover jobs to the sweeps.
ClaimLoop == \E j \in Due \ Discovers : Take(Loop, j) /\ UNCHANGED sweep

\* recordRunCounts into the run of the job, open or closed; when that fails it
\* is logged and the tally is gone.
Record(j, tally) ==
  \/ runs' = [runs EXCEPT ![jobs[j].run].counts = @ \cup tally] /\ UNCHANGED errors
  \/ stops + errors < MaxMishaps /\ errors' = errors + 1 /\ UNCHANGED runs

\* The handler is done, and a discover has put in the fetches it found.
Succeeds(w, j) ==
  /\ \E found \in SUBSET {f \in Fetches : j \in Discovers /\ jobs[f].status = "absent"} :
       jobs' = [i \in Jobs |->
                  IF i \in found THEN [status |-> "due", run |-> jobs[j].run]
                  ELSE IF i = j THEN [jobs[j] EXCEPT !.status = "done"] ELSE jobs[i]]
  /\ Record(j, {"work"})
  /\ sweep' = IF w = Loop THEN sweep ELSE [sweep EXCEPT ![w].processed = TRUE]

\* It threw: the job is retried later, or blocked.
Fails(j) ==
  /\ \E st \in {"waiting", "blocked"} : jobs' = [jobs EXCEPT ![j].status = st]
  /\ Record(j, {"errors"})
  /\ UNCHANGED sweep

Settle(w) ==
  /\ hand[w] # Nobody
  /\ Succeeds(w, hand[w]) \/ Fails(hand[w])
  /\ hand' = [hand EXCEPT ![w] = Nobody]
  /\ UNCHANGED <<lock, old, failures, reached, stops>>

-----------------------------------------------------------------------------
(* The end of a sweep.                                                     *)

\* countOutstanding: pending or running, whoever holds it.
Outstanding(w) ==
  \E j \in Jobs : jobs[j].run = sweep[w].run /\ (Pending(j) \/ jobs[j].status = "running")

Drained(w, how) == sweep' = [sweep EXCEPT ![w].pc = "drained", ![w].outcome = how]

\* Phase 1 ends: at the deadline, or with nothing of its own left to claim.
EndOwn(w) ==
  /\ At(w, "own") /\ hand[w] = Nobody
  /\ \/ sweep[w].clock = "late" /\ Outstanding(w) /\ Drained(w, "deadline")
     \/ /\ ~Outstanding(w) \/ (sweep[w].clock # "late" /\ OwnDue(w) = {})
        /\ sweep' = [sweep EXCEPT ![w].pc = "help"]
  /\ UNCHANGED <<lock, runs, old, jobs, hand, failures, reached, stops, errors>>

\* Phase 2 ends: at the deadline, or with nothing to claim.
EndHelp(w) ==
  /\ At(w, "help") /\ hand[w] = Nobody
  /\ sweep[w].clock = "late" \/ Due = {}
  /\ Drained(w, IF sweep[w].clock = "late" /\ Outstanding(w) THEN "deadline" ELSE "finished")
  /\ UNCHANGED <<lock, runs, old, jobs, hand, failures, reached, stops, errors>>

\* A statement of enqueueDiscover or drain fails; a job it had claimed stays
\* running.
Throw(w) ==
  /\ \E pc \in {"opened", "found", "own", "help"} : At(w, pc)
  /\ stops + errors < MaxMishaps
  /\ errors' = errors + 1
  /\ Drained(w, "threw")
  /\ hand' = [hand EXCEPT ![w] = Nobody]
  /\ UNCHANGED <<lock, runs, old, jobs, failures, reached, stops>>

\* readCounts, some statements before the counts are written back.
ReadCounts(w) ==
  /\ At(w, "drained")
  /\ sweep' = [sweep EXCEPT ![w].pc = "read", ![w].read = runs[sweep[w].run].counts]
  /\ UNCHANGED <<lock, runs, old, jobs, hand, failures, reached, stops, errors>>

\* classifyRun
Classify(s) ==
  LET work == s.processed \/ "work" \in s.read IN
  IF s.outcome = "threw" \/ ~work THEN "failed"
  ELSE IF s.outcome = "deadline" \/ "errors" \in s.read THEN "partial" ELSE "succeeded"

\* Mutant: only a run that succeeded clears the tally, as it once was.
HealthOfSucceeded(status, counts, n) ==
  IF status = "succeeded" THEN 0 ELSE IF status = "partial" THEN n ELSE n + 1

\* sourceHealthUpdate on consecutive_failures
Health(status, counts, n) ==
  IF status = "succeeded" \/ (status = "partial" /\ "errors" \notin counts) THEN 0
  ELSE IF status = "partial" THEN n ELSE n + 1

\* The closing update names the run by its id, whatever its status; then
\* updateSourceHealth, and the transaction of the lock commits.
Close(w) ==
  /\ At(w, "read")
  /\ LET s == sweep[w] IN
       /\ runs' = [runs EXCEPT ![s.run].status = Classify(s), ![s.run].counts = s.read]
       /\ failures' = [failures EXCEPT ![Source(w)] = Health(Classify(s), s.read, @)]
  /\ lock' = [lock EXCEPT ![Source(w)] = Nobody]
  /\ sweep' = [sweep EXCEPT ![w] = NoSweep]
  /\ UNCHANGED <<old, jobs, hand, reached, stops, errors>>

\* The process dies, or a statement outside the try fails: the lock goes with
\* its connection, the run and a claimed job stay as they are.
Stop(w) ==
  /\ Sweeping(w) /\ stops + errors < MaxMishaps
  /\ stops' = stops + 1
  /\ lock' = [lock EXCEPT ![Source(w)] = Nobody]
  /\ sweep' = [sweep EXCEPT ![w] = NoSweep]
  /\ hand' = [hand EXCEPT ![w] = Nobody]
  /\ UNCHANGED <<runs, old, jobs, failures, reached, errors>>

-----------------------------------------------------------------------------
(* The clock, the recovery timer and the operator.                         *)

\* The deadline is a quarter of an hour away when the first claim is made.
TimeUp(w) ==
  /\ At(w, "own") \/ At(w, "help")
  /\ sweep[w].clock = "ticked"
  /\ sweep' = [sweep EXCEPT ![w].clock = "late"]
  /\ UNCHANGED <<lock, runs, old, jobs, hand, failures, reached, stops, errors>>

\* A run passes twice the deadline of a sweep, which is over by then.
GetsOld(r) ==
  /\ r \notin old /\ Unclosed(r)
  /\ ~Live(r)
  /\ old' = old \cup {r}
  /\ UNCHANGED <<lock, sweep, runs, jobs, hand, failures, reached, stops, errors>>

\* recoverAbandoned, every five minutes: the runs.
RecoverRuns ==
  /\ Abandoned # {}
  /\ runs' = Recovered
  /\ UNCHANGED <<lock, sweep, old, jobs, hand, failures, reached, stops, errors>>

\* The jobs: a running row that nobody holds any more goes back.
RecoverJob(j) ==
  /\ jobs[j].status = "running" /\ \A w \in Workers : hand[w] # j
  /\ jobs' = [jobs EXCEPT ![j].status = "due"]
  /\ UNCHANGED <<lock, sweep, runs, old, hand, failures, reached, stops, errors>>

\* A retry falls due, or an operator unblocks a job.
FallsDue(j) ==
  /\ jobs[j].status \in {"waiting", "blocked"}
  /\ jobs' = [jobs EXCEPT ![j].status = "due"]
  /\ UNCHANGED <<lock, sweep, runs, old, hand, failures, reached, stops, errors>>

DrainSteps(w) == ClaimOwn(w) \/ ClaimAny(w) \/ EndOwn(w) \/ EndHelp(w)
Closes(w) == ReadCounts(w) \/ Close(w)
Steps(w) == FindDiscover(w) \/ SeeToDiscover(w) \/ DrainSteps(w) \/ Closes(w)

Next ==
  \/ \E w \in Sweeps : Open(w) \/ Steps(w) \/ Throw(w) \/ Stop(w) \/ TimeUp(w)
  \/ ClaimLoop
  \/ \E w \in Workers : Settle(w)
  \/ \E r \in 1..MaxRuns : GetsOld(r)
  \/ RecoverRuns
  \/ \E j \in Jobs : RecoverJob(j) \/ FallsDue(j)

Spec == Init /\ [][Next]_vars

\* A sweep that goes on takes its steps and its handlers return; the deadline
\* and the recovery threshold pass; the recovery timer fires.
Fairness ==
  /\ \A w \in Sweeps : WF_vars(Steps(w) \/ Settle(w)) /\ WF_vars(TimeUp(w))
  /\ WF_vars(RecoverRuns \/ \E r \in 1..MaxRuns : GetsOld(r))

FairSpec == Spec /\ Fairness

-----------------------------------------------------------------------------
(* Properties.                                                             *)

\* A source is swept by one sweep at a time, in whichever process
\* (scheduler.ts: "The advisory lock below is the real one").
OneSweepPerSource ==
  \A v, w \in Sweeps : Sweeping(v) /\ Sweeping(w) /\ Source(v) = Source(w) => v = w

\* A run's verdict is final: neither the recovery timer nor a sweep replaces
\* one that was given (recoverAbandonedRuns: "a run older than several
\* times the sweep deadline cannot still be in progress").
ClosedOnce ==
  [][\A r \in DOMAIN runs :
       runs[r].status # "running" => runs'[r].status = runs[r].status]_vars

\* However large the backlog of others, a sweep that did not throw has had its
\* source's discover claimed since it began, by itself or by another sweep
\* (drain: "a new source's discover job is never starved").
DiscoveryReached ==
  \A w \in Sweeps :
    (At(w, "drained") \/ At(w, "read")) /\ sweep[w].outcome # "threw"
      => Source(w) \in reached

\* Between sweeps, and if every sweep so far ran to its end, the tally of a
\* source lies between the failed runs since the last one that did any work
\* and the failed runs since the last one that did it without error
\* (updateSourceHealth: "What resets consecutive_failures is a sweep that
\* failed nothing, not a sweep that finished").
RunsOf(s) == {r \in DOMAIN runs : runs[r].source = s}
FailedSince(s, R) == Cardinality({r \in RunsOf(s) : runs[r].status = "failed" /\ \A q \in R : q < r})
Worked(s) == {r \in RunsOf(s) : runs[r].status \in {"succeeded", "partial"}}
Clean(s) == {r \in Worked(s) : runs[r].status = "succeeded" \/ "errors" \notin runs[r].counts}
TallyAgrees ==
  stops = 0 => \A s \in Sources :
    lock[s] = Nobody => failures[s] \in FailedSince(s, Worked(s))..FailedSince(s, Clean(s))

\* Every run is closed in the end, by its sweep or, when that died, by the
\* recovery timer (recoverAbandonedRuns).
RunsClose == \A r \in 1..MaxRuns : Unclosed(r) ~> ~Unclosed(r)

\* "One pending discover per source, never a new one beside an old one"
\* (enqueueDiscover).  It does not hold: only a pending discover is looked
\* for, and one that was running or blocked meanwhile comes back beside the
\* new one.
OneDiscoverPending == \A s \in Sources : Cardinality(PendingDiscovers(s)) <= 1
=============================================================================
