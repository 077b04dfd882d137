------------------------------ MODULE Extraction ------------------------------
(***************************************************************************)
(* Reading a meeting's minutes with a model, and checking what was read    *)
(* with a second one: backend/src/services/extraction (stage.ts, run.ts,   *)
(* runs.ts, extractor.ts) and backend/src/services/governor (stage.ts,     *)
(* store.ts, judge.ts), for one meeting whose minutes are stored.          *)
(*                                                                         *)
(* The console asks for an extraction or a governor pass and the standing  *)
(* loop of the stage runs it; while a deploy has two servers up, so are    *)
(* two loops.  Meanwhile an operator decides claims.  A handler is a       *)
(* sequence of statements on the pool, and may die between them.           *)
(***************************************************************************)
EXTENDS Naturals, Sequences, FiniteSets

CONSTANTS
  Workers,     \* servers up, each with a loop for these stages
  MinuteClaims, \* keys of minute_claims: subject, action and offset
  Officials,   \* the claims whose subject the rules now allow
  Earlier,     \* claims stored under an earlier policy
  Chunks,      \* chunks the minutes are cut into
  Models,      \* models that may answer behind the router
  Requested,   \* the model the deployment asks for
  Nobody,      \* no worker
  MaxJobs,     \* bound: jobs enqueued, with those a request is about to enqueue
  MaxAttempts, \* attempts of a job
  MaxHalts     \* bound: database errors and deaths

ASSUME ExtractionConstants ==
  /\ Officials \subseteq MinuteClaims /\ Earlier \subseteq MinuteClaims
  /\ Requested \in Models
  /\ Nobody \notin Workers
  /\ Chunks \in Nat \ {0}
  /\ MaxJobs \in Nat /\ MaxAttempts \in Nat \ {0} /\ MaxHalts \in Nat

VARIABLES
  asks,      \* asks[p]: requests that passed the look p and have yet to go on
  jobs,      \* extract and govern jobs of ingestion_jobs, oldest first
  runs,      \* extraction_runs, oldest first
  claims,    \* claims[c]: status of its row in minute_claims
  verdicts,  \* claim_verdicts: [claim, model, supported]
  work,      \* work[w]: the handler a worker is in
  halts      \* errors and deaths so far

extractionVars == <<asks, jobs, runs, claims, verdicts, work, halts>>

Looks == {"unread", "extract", "govern"}
Statuses == {"none", "held", "decided"}
Job == [stage : {"extract", "govern"}, attempts : 0..MaxAttempts,
        status : {"pending", "running", "done", "blocked", "failed"}]
Run == {"running", "succeeded", "partial", "failed"}
Verdict == [claim : MinuteClaims, model : Models, supported : BOOLEAN]
Reply == [found : SUBSET Officials, failed : 0..Chunks, recovered : 0..1]
NoReply == [found |-> {}, failed |-> 0, recovered |-> 0]
Work == [pc : {"idle", "claimed", "started", "read", "stored", "pruning", "finished",
               "judging", "asking"},
         job : 0..MaxJobs, run : Nat, reply : Reply, doomed : SUBSET MinuteClaims,
         listed : SUBSET MinuteClaims, todo : SUBSET MinuteClaims, unreached : SUBSET MinuteClaims]
Unoccupied == [pc |-> "idle", job |-> 0, run |-> 0, reply |-> NoReply, doomed |-> {},
         listed |-> {}, todo |-> {}, unreached |-> {}]

ExtractionTypeOK ==
  /\ asks \in [Looks -> 0..MaxJobs]
  /\ jobs \in Seq(Job) /\ Len(jobs) <= MaxJobs
  /\ runs \in Seq(Run)
  /\ claims \in [MinuteClaims -> Statuses]
  /\ verdicts \subseteq Verdict
  /\ \A v \in verdicts : claims[v.claim] # "none"
  /\ work \in [Workers -> Work]
  /\ halts \in 0..MaxHalts

ExtractionInit ==
  /\ asks = [p \in Looks |-> 0]
  /\ jobs = <<>>
  /\ runs = <<>>
  /\ claims = [c \in MinuteClaims |-> IF c \in Earlier THEN "held" ELSE "none"]
  /\ verdicts = {}
  /\ work = [w \in Workers |-> Unoccupied]
  /\ halts = 0

At(w, pc) == work[w].pc = pc
MyJob(w) == jobs[work[w].job]

-----------------------------------------------------------------------------
(* The console.                                                            *)

\* hasSuccessfulExtraction
WasRead == \E r \in 1..Len(runs) : runs[r] \in {"succeeded", "partial"}

\* queuedExtraction, queuedGovernance
Queued(stage) ==
  \E j \in 1..Len(jobs) : jobs[j].stage = stage /\ jobs[j].status \in {"pending", "running"}

Room == Len(jobs) + asks["unread"] + asks["extract"] + asks["govern"] < MaxJobs

\* enqueueExtractionBatch first leaves out a meeting that was read.
BatchLook ==
  /\ ~WasRead
  /\ Room
  /\ asks' = [asks EXCEPT !["unread"] = @ + 1]
  /\ UNCHANGED <<jobs, runs, claims, verdicts, work, halts>>

\* enqueueExtraction, enqueueGovernance: a queued job refuses the request.
Look(stage) ==
  /\ ~Queued(stage)
  /\ \/ Room /\ asks' = [asks EXCEPT ![stage] = @ + 1]
     \/ /\ stage = "extract" /\ asks["unread"] > 0
        /\ asks' = [asks EXCEPT !["extract"] = @ + 1, !["unread"] = @ - 1]
  /\ UNCHANGED <<jobs, runs, claims, verdicts, work, halts>>

\* The insert, in no transaction with the look.
Enqueue(stage) ==
  /\ asks[stage] > 0
  /\ jobs' = Append(jobs, [stage |-> stage, attempts |-> 0, status |-> "pending"])
  /\ asks' = [asks EXCEPT ![stage] = @ - 1]
  /\ UNCHANGED <<runs, claims, verdicts, work, halts>>

\* An operator approves or rejects a held claim.
DecideClaim(c) ==
  /\ claims[c] = "held"
  /\ claims' = [claims EXCEPT ![c] = "decided"]
  /\ UNCHANGED <<asks, jobs, runs, verdicts, work, halts>>

-----------------------------------------------------------------------------
(* The queue, as far as these stages see it.                               *)

ClaimJob(w) ==
  /\ At(w, "idle")
  /\ \E j \in 1..Len(jobs) :
       /\ jobs[j].status = "pending"
       /\ \A i \in 1..j - 1 : jobs[i].status # "pending"
       /\ jobs' = [jobs EXCEPT ![j].status = "running"]
       /\ work' = [work EXCEPT ![w] = [Unoccupied EXCEPT !.pc = "claimed", !.job = j]]
  /\ UNCHANGED <<asks, runs, claims, verdicts, halts>>

Completed(w) == jobs' = [jobs EXCEPT ![work[w].job].status = "done"]
Blocked(w) == jobs' = [jobs EXCEPT ![work[w].job].status = "blocked"]

Failed(w) ==
  LET n == MyJob(w).attempts + 1 IN
  jobs' = [jobs EXCEPT ![work[w].job] =
    [@ EXCEPT !.attempts = n, !.status = IF n < MaxAttempts THEN "pending" ELSE "failed"]]
Leave(w) == work' = [work EXCEPT ![w] = Unoccupied]

\* The worker of a sweep claims any stage and has no handler for these two.
SweepTakes(j) ==
  /\ j <= Len(jobs) /\ jobs[j].status = "pending"
  /\ jobs' = [jobs EXCEPT ![j].status = "blocked"]
  /\ UNCHANGED <<asks, runs, claims, verdicts, work, halts>>

\* The process dies; recoverStalled gives the job back later.
Die(w) ==
  /\ ~At(w, "idle") /\ halts < MaxHalts
  /\ halts' = halts + 1
  /\ Leave(w)
  /\ UNCHANGED <<asks, jobs, runs, claims, verdicts>>

Recover(j) ==
  /\ j <= Len(jobs) /\ jobs[j].status = "running"
  /\ \A w \in Workers : work[w].job # j
  /\ jobs' = [jobs EXCEPT ![j].status = "pending"]
  /\ UNCHANGED <<asks, runs, claims, verdicts, work, halts>>

-----------------------------------------------------------------------------
(* The extract handler.                                                    *)

StartRun(w) ==
  /\ At(w, "claimed") /\ MyJob(w).stage = "extract"
  /\ runs' = Append(runs, "running")
  /\ work' = [work EXCEPT ![w] = [@ EXCEPT !.pc = "started", !.run = Len(runs) + 1]]
  /\ UNCHANGED <<asks, jobs, claims, verdicts, halts>>

FailRun(w) == runs' = [runs EXCEPT ![work[w].run] = "failed"]

\* No key on this deployment, no PDF, or a scan without text.
Unavailable(w) ==
  /\ At(w, "started")
  /\ FailRun(w) /\ Blocked(w) /\ Leave(w)
  /\ UNCHANGED <<asks, claims, verdicts, halts>>

\* Chunk by chunk: a chunk fails unread, or is cut off after some claims; only
\* what was found word for word in the text, about an official, is kept.
Replies ==
  {p \in Reply : /\ p.failed = Chunks /\ p.recovered = 0 => p.found = {}
                 /\ p.failed = 0 => p.recovered = 0}

Read(w) ==
  /\ At(w, "started")
  /\ \E p \in Replies : work' = [work EXCEPT ![w] = [@ EXCEPT !.pc = "read", !.reply = p]]
  /\ UNCHANGED <<asks, jobs, runs, claims, verdicts, halts>>

\* Mutant: the merge writes the status too.
MergedHeld(c) == "held"

\* The merge leaves the status of a known claim alone.
Merged(c) == IF claims[c] = "none" THEN "held" ELSE claims[c]

\* persistClaims
Persist(w) ==
  /\ At(w, "read")
  /\ claims' = [c \in MinuteClaims |-> IF c \in work[w].reply.found THEN Merged(c) ELSE claims[c]]
  /\ work' = [work EXCEPT ![w].pc = "stored"]
  /\ UNCHANGED <<asks, jobs, runs, verdicts, halts>>

\* pruneDisallowedClaims: the held claims are read, then deleted by id; their
\* verdicts go with them.
FindDoomed(w) ==
  /\ At(w, "stored")
  /\ work' = [work EXCEPT ![w] = [@ EXCEPT !.pc = "pruning",
                !.doomed = {c \in MinuteClaims \ Officials : claims[c] = "held"}]]
  /\ UNCHANGED <<asks, jobs, runs, claims, verdicts, halts>>

PruneHeld(w) ==
  /\ At(w, "pruning")
  /\ claims' = [c \in MinuteClaims |-> IF c \in work[w].doomed THEN "none" ELSE claims[c]]
  /\ verdicts' = {v \in verdicts : v.claim \notin work[w].doomed}
  /\ work' = [work EXCEPT ![w] = [@ EXCEPT !.pc = "finished", !.doomed = {}]]
  /\ UNCHANGED <<asks, jobs, runs, halts>>

\* classifyExtraction
Classify(p) ==
  CASE p.failed = 0 -> "succeeded"
    [] p.failed = Chunks /\ p.recovered = 0 -> "failed"
    [] OTHER -> "partial"

\* finishRun, and what the job makes of it: nothing read is worth a retry.
Finish(w) ==
  LET p == work[w].reply IN
  /\ At(w, "finished")
  /\ runs' = [runs EXCEPT ![work[w].run] = Classify(p)]
  /\ IF Classify(p) = "failed" THEN Failed(w) ELSE Completed(w)
  /\ Leave(w)
  /\ UNCHANGED <<asks, claims, verdicts, halts>>

\* A statement fails: the run is closed with the error and the job retried.
ExtractError(w) ==
  /\ \E pc \in {"read", "stored", "pruning", "finished"} : At(w, pc)
  /\ halts < MaxHalts
  /\ halts' = halts + 1
  /\ FailRun(w) /\ Failed(w) /\ Leave(w)
  /\ UNCHANGED <<asks, claims, verdicts>>

-----------------------------------------------------------------------------
(* The govern handler.                                                     *)

\* heldClaimsFor
ListHeld(w) ==
  /\ At(w, "claimed") /\ MyJob(w).stage = "govern"
  /\ LET held == {c \in MinuteClaims : claims[c] = "held"} IN
     work' = [work EXCEPT ![w] = [@ EXCEPT !.pc = "judging", !.listed = held, !.todo = held]]
  /\ UNCHANGED <<asks, jobs, runs, claims, verdicts, halts>>

\* The next claim, by offset.
NextClaim(w) == CHOOSE c \in work[w].todo : TRUE
ToJudge(w) == work[w].todo \ {NextClaim(w)}

Judged(c, model) == \E v \in verdicts : v.claim = c /\ v.model = model

\* verdictExists asks for the model requested.
CheckVerdict(w) ==
  /\ At(w, "judging") /\ work[w].todo # {}
  /\ IF Judged(NextClaim(w), Requested)
     THEN work' = [work EXCEPT ![w] = [@ EXCEPT !.todo = ToJudge(w)]]
     ELSE work' = [work EXCEPT ![w].pc = "asking"]
  /\ UNCHANGED <<asks, jobs, runs, claims, verdicts, halts>>

\* No reply, or one that is no verdict.
NoVerdict(w) ==
  /\ At(w, "asking")
  /\ \E lost \in {{}, {NextClaim(w)}} :
       work' = [work EXCEPT ![w] = [@ EXCEPT !.pc = "judging", !.todo = ToJudge(w),
                                   !.unreached = work[w].unreached \cup lost]]
  /\ UNCHANGED <<asks, jobs, runs, claims, verdicts, halts>>

\* recordVerdict: the verdict already there stays.
Recorded(v) == IF Judged(v.claim, v.model) THEN verdicts ELSE verdicts \cup {v}

RecordVerdict(w) ==
  /\ At(w, "asking") /\ claims[NextClaim(w)] # "none"
  /\ \E model \in Models, s \in BOOLEAN :
       verdicts' = Recorded([claim |-> NextClaim(w), model |-> model, supported |-> s])
  /\ work' = [work EXCEPT ![w] = [@ EXCEPT !.pc = "judging", !.todo = ToJudge(w)]]
  /\ UNCHANGED <<asks, jobs, runs, claims, halts>>

\* The claim was deleted meanwhile: the insert breaks its foreign key.
OrphanVerdict(w) ==
  /\ At(w, "asking") /\ claims[NextClaim(w)] = "none"
  /\ Failed(w) /\ Leave(w)
  /\ UNCHANGED <<asks, runs, claims, verdicts, halts>>

\* Retried only when there were claims and none was reached.
GovernDone(w) ==
  /\ At(w, "judging") /\ work[w].todo = {}
  /\ IF work[w].listed # {} /\ work[w].unreached = work[w].listed
     THEN Failed(w) ELSE Completed(w)
  /\ Leave(w)
  /\ UNCHANGED <<asks, runs, claims, verdicts, halts>>

GovernUnavailable(w) ==
  /\ At(w, "claimed") /\ MyJob(w).stage = "govern"
  /\ Blocked(w) /\ Leave(w)
  /\ UNCHANGED <<asks, runs, claims, verdicts, halts>>

-----------------------------------------------------------------------------
ConsoleStep ==
  \/ BatchLook
  \/ \E stage \in {"extract", "govern"} : Look(stage) \/ Enqueue(stage)
  \/ \E c \in MinuteClaims : DecideClaim(c)

HandlerStep(w) ==
  \/ StartRun(w) \/ Unavailable(w) \/ Read(w) \/ Persist(w) \/ FindDoomed(w)
  \/ PruneHeld(w) \/ Finish(w) \/ ExtractError(w)
  \/ ListHeld(w) \/ CheckVerdict(w) \/ NoVerdict(w) \/ RecordVerdict(w)
  \/ OrphanVerdict(w) \/ GovernDone(w) \/ GovernUnavailable(w)

ExtractionNext ==
  \/ ConsoleStep
  \/ \E w \in Workers : ClaimJob(w) \/ HandlerStep(w) \/ Die(w)
  \/ \E j \in 1..MaxJobs : Recover(j) \/ SweepTakes(j)

ExtractionSpec == ExtractionInit /\ [][ExtractionNext]_extractionVars

-----------------------------------------------------------------------------
(* Properties.                                                             *)

\* No extraction puts a claim an operator decided back among the held ones,
\* though it stores the same claim again (extractor.ts: persistClaims).
NotReopened ==
  [][\A c \in MinuteClaims : claims[c] = "decided" => claims'[c] # "held"]_extractionVars
=============================================================================
