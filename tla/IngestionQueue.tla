--------------------------- MODULE IngestionQueue ---------------------------
(***************************************************************************)
(* The durable job queue (backend/src/services/ingestion/queue.ts) and the *)
(* poll loop that drains it (worker.ts).  The rows of `ingestion_jobs` are *)
(* the only shared state: a worker claims the oldest due row in one        *)
(* transaction, runs its handler outside any transaction, and writes the   *)
(* outcome back with a second statement that names the job and nothing     *)
(* else, so the row does not say which claim it answers.                   *)
(*                                                                         *)
(* Time is kept as far as the code compares it: a pending row is due or    *)
(* not (next_attempt_at <= now()), due rows are ordered by when they       *)
(* became due, and a running row is stale once its updated_at is older     *)
(* than the recovery threshold.                                            *)
(***************************************************************************)
EXTENDS Naturals, FiniteSets

CONSTANTS
  Jobs,          \* row identities of ingestion_jobs
  Workers,       \* the poll loops and the sweep's own worker
  Stages,        \* discover, fetch, parse, ...
  StageOf,       \* StageOf[j]: the stage column of row j
  ClaimStages,   \* ClaimStages[w]: WorkerOptions.stages, all when omitted
  Handlers,      \* Handlers[w]: the stages w's HandlerRegistry implements
  Standing,      \* workers whose loop polls from boot; the others may never run
  Malformed,     \* rows whose target does not satisfy its stage's contract
  MaxAttempts,   \* QueueOptions.maxAttempts
  Overrunning,   \* jobs whose handler may outlast the recovery threshold
  MaxMishaps,    \* bound: crashes plus overruns explored
  NoJob          \* a worker's hand when it is empty

ASSUME QueueConstants ==
  /\ StageOf \in [Jobs -> Stages]
  /\ ClaimStages \in [Workers -> SUBSET Stages]
  /\ Handlers \in [Workers -> SUBSET Stages]
  /\ Standing \subseteq Workers
  /\ Malformed \subseteq Jobs
  /\ Overrunning \subseteq Jobs
  /\ MaxAttempts \in Nat \ {0}
  /\ MaxMishaps \in Nat
  /\ NoJob \notin Jobs \cup Workers

VARIABLES
  status,     \* status[j]: the row's status, "absent" before its insert
  attempts,   \* attempts[j]
  cause,      \* cause[j]: what last_error says
  due,        \* pending rows with next_attempt_at <= now()
  ahead,      \* ahead[j]: due rows with an earlier next_attempt_at than j's
  stale,      \* running rows with updated_at older than the threshold
  pc,         \* pc[w]: where runOnce stands
  hand,       \* hand[w]: the job w is working on
  requeued,   \* requeued[j]: recoveries since the attempts last read 0
  mishaps     \* crashes and overruns so far

vars == <<status, attempts, cause, due, ahead, stale, pc, hand, requeued, mishaps>>

Status == {"absent", "pending", "running", "done", "failed", "blocked"}
Cause  == {"none", "error", "exhausted", "unavailable", "unhandled", "stopped"}
Phase  == {"idle", "handling", "succeeded", "threw", "unavailable", "unhandled"}

TypeOK ==
  /\ status \in [Jobs -> Status]
  /\ attempts \in [Jobs -> Nat]
  /\ cause \in [Jobs -> Cause]
  /\ due \in SUBSET Jobs
  /\ ahead \in [Jobs -> SUBSET Jobs]
  /\ stale \in SUBSET Jobs
  /\ pc \in [Workers -> Phase]
  /\ hand \in [Workers -> Jobs \cup {NoJob}]
  /\ requeued \in [Jobs -> Nat]
  /\ mishaps \in 0..MaxMishaps

Holds(w, j) == hand[w] = j
Held(j)     == \E w \in Workers : Holds(w, j)

\* What a worker may claim, the stage filter included.
Claimable(w) == {j \in due : StageOf[j] \in ClaimStages[w]}

\* Rows J take next_attempt_at = now(): behind everything already due.
BecomeDue(J) ==
  /\ due' = due \cup J
  /\ ahead' = [k \in Jobs |-> IF k \in J THEN due \ J ELSE ahead[k]]

\* Row j stops being due: it is running, or held, or its next attempt is later.
LeaveDue(j) ==
  /\ due' = due \ {j}
  /\ ahead' = [k \in Jobs |-> IF k = j THEN {} ELSE ahead[k] \ {j}]

Release(w) ==
  /\ pc' = [pc EXCEPT ![w] = "idle"]
  /\ hand' = [hand EXCEPT ![w] = NoJob]

Init ==
  /\ status = [j \in Jobs |-> "absent"]
  /\ attempts = [j \in Jobs |-> 0]
  /\ cause = [j \in Jobs |-> "none"]
  /\ due = {}
  /\ ahead = [j \in Jobs |-> {}]
  /\ stale = {}
  /\ pc = [w \in Workers |-> "idle"]
  /\ hand = [w \in Workers |-> NoJob]
  /\ requeued = [j \in Jobs |-> 0]
  /\ mishaps = 0

-----------------------------------------------------------------------------
(* Producers and the clock.                                                *)

\* enqueue: by a handler for the next stage, by a sweep or by the console.  It
\* validates the target, so a malformed row was inserted by something that
\* ignored the types.
Enqueue(j) ==
  /\ status[j] = "absent"
  /\ status' = [status EXCEPT ![j] = "pending"]
  /\ BecomeDue({j}) \/ UNCHANGED <<due, ahead>>     \* delayMs = 0, or later
  /\ UNCHANGED <<attempts, cause, stale, pc, hand, requeued, mishaps>>

\* next_attempt_at is reached.
FallsDue(j) ==
  /\ status[j] = "pending"
  /\ j \notin due
  /\ BecomeDue({j})
  /\ UNCHANGED <<status, attempts, cause, stale, pc, hand, requeued, mishaps>>

\* The row has not been touched for longer than the threshold.  While a live
\* worker holds the job that takes a handler slower than the threshold.
GoesStale(j) ==
  /\ status[j] = "running"
  /\ j \notin stale
  /\ stale' = stale \cup {j}
  /\ \/ ~Held(j) /\ UNCHANGED mishaps
     \/ /\ Held(j)
        /\ j \in Overrunning
        /\ mishaps < MaxMishaps
        /\ mishaps' = mishaps + 1
  /\ UNCHANGED <<status, attempts, cause, due, ahead, pc, hand, requeued>>

-----------------------------------------------------------------------------
(* One turn of runOnce, with the batch of one every worker is built with.  *)

\* toClaimedJob parses the target of the row just claimed and throws on one that
\* does not satisfy its stage.
Unreadable(j) == j \in Malformed

\* A claim whose row turns out unreadable throws inside its own transaction and
\* rolls back; until it has, SKIP LOCKED hides that row from another claimer.
SkippedByLock(w) ==
  {j \in Claimable(w) :
     Unreadable(j) /\ \E v \in Workers \ {w} : pc[v] = "idle" /\ j \in Claimable(v)}

\* Mutant: the claim's ORDER BY is lost.
AnyDue(J) == J

\* ORDER BY next_attempt_at LIMIT 1.
Oldest(J) == {j \in J : ahead[j] \cap J = {}}

Claim(w) ==
  /\ pc[w] = "idle"
  /\ \E skipped \in SUBSET SkippedByLock(w) :
       \E j \in Oldest(Claimable(w) \ skipped) :
         /\ ~Unreadable(j)
         /\ status' = [status EXCEPT ![j] = "running"]
         /\ attempts' = [attempts EXCEPT ![j] = @ + 1]
         /\ stale' = stale \ {j}
         /\ LeaveDue(j)
         /\ hand' = [hand EXCEPT ![w] = j]
         /\ pc' = [pc EXCEPT ![w] = "handling"]
  /\ UNCHANGED <<cause, requeued, mishaps>>

\* requireHandler.
CanHandle(w) == StageOf[hand[w]] \in Handlers[w]

\* dispatch: the handler resolves, throws, or throws BlockedError; a stage the
\* worker has no handler for throws BlockedError before anything runs.
Dispatch(w) ==
  /\ pc[w] = "handling"
  /\ \/ /\ ~CanHandle(w)
        /\ pc' = [pc EXCEPT ![w] = "unhandled"]
     \/ /\ CanHandle(w)
        /\ \E outcome \in {"succeeded", "threw", "unavailable"} :
             pc' = [pc EXCEPT ![w] = outcome]
  /\ UNCHANGED <<status, attempts, cause, due, ahead, stale, hand, requeued, mishaps>>

\* Mutant: complete writes a status the schema does not list.
CompleteMisspelt(w) ==
  /\ pc[w] = "succeeded"
  /\ status' = [status EXCEPT ![hand[w]] = "complete"]
  /\ Release(w)
  /\ UNCHANGED <<attempts, cause, due, ahead, stale, requeued, mishaps>>

\* complete: WHERE id = ? AND status = 'running'.
Complete(w) ==
  /\ pc[w] = "succeeded"
  /\ status[hand[w]] = "running"
  /\ status' = [status EXCEPT ![hand[w]] = "done"]
  /\ cause' = [cause EXCEPT ![hand[w]] = "none"]
  /\ stale' = stale \ {hand[w]}
  /\ Release(w)
  /\ UNCHANGED <<attempts, due, ahead, requeued, mishaps>>

\* complete finds the row no longer running and throws: runOnce's catch treats
\* that as the handler's own failure.
CompleteRefused(w) ==
  /\ pc[w] = "succeeded"
  /\ status[hand[w]] # "running"
  /\ pc' = [pc EXCEPT ![w] = "threw"]
  /\ UNCHANGED <<status, attempts, cause, due, ahead, stale, hand, requeued, mishaps>>

\* Mutant: one attempt too many.
ExhaustedLate(j) == attempts[j] > MaxAttempts

Exhausted(j) == attempts[j] >= MaxAttempts

\* fail: backoff while attempts remain, blocked once they have run out.
Fail(w) ==
  /\ pc[w] = "threw"
  /\ status[hand[w]] = "running"
  /\ \/ /\ Exhausted(hand[w])
        /\ status' = [status EXCEPT ![hand[w]] = "blocked"]
        /\ cause' = [cause EXCEPT ![hand[w]] = "exhausted"]
     \/ /\ ~Exhausted(hand[w])
        /\ status' = [status EXCEPT ![hand[w]] = "pending"]
        /\ cause' = [cause EXCEPT ![hand[w]] = "error"]
  /\ stale' = stale \ {hand[w]}
  /\ Release(w)
  /\ UNCHANGED <<attempts, due, ahead, requeued, mishaps>>

\* fail finds the row no longer running: the throw leaves runOnce and the loop
\* logs it.
FailRefused(w) ==
  /\ pc[w] = "threw"
  /\ status[hand[w]] # "running"
  /\ Release(w)
  /\ UNCHANGED <<status, attempts, cause, due, ahead, stale, requeued, mishaps>>

\* block: setStatus names the row by id alone, whatever its status is by now.
Block(w) ==
  /\ pc[w] \in {"unavailable", "unhandled"}
  /\ status' = [status EXCEPT ![hand[w]] = "blocked"]
  /\ cause' = [cause EXCEPT ![hand[w]] = pc[w]]
  /\ stale' = stale \ {hand[w]}
  /\ LeaveDue(hand[w])
  /\ Release(w)
  /\ UNCHANGED <<attempts, requeued, mishaps>>

-----------------------------------------------------------------------------
(* Failure, recovery and the operator.                                     *)

\* The loop, or the process it runs in, dies and a fresh one takes its place.
\* Nothing it was holding is written back.
Crash(w) ==
  /\ pc[w] # "idle"
  /\ mishaps < MaxMishaps
  /\ mishaps' = mishaps + 1
  /\ Release(w)
  /\ UNCHANGED <<status, attempts, cause, due, ahead, stale, requeued>>

\* Mutant: recovery forgets its threshold and takes every running row.
RunningRows == {j \in Jobs : status[j] = "running"}

\* WHERE status = 'running' AND updated_at < now() - threshold.
StalledRows == {j \in stale : status[j] = "running"}

\* recoverStalled, at boot and on the scheduler's timer: every stalled row at
\* once, attempts kept.
RecoverStalled ==
  /\ StalledRows # {}
  /\ status' = [j \in Jobs |-> IF j \in StalledRows THEN "pending" ELSE status[j]]
  /\ cause' = [j \in Jobs |-> IF j \in StalledRows THEN "stopped" ELSE cause[j]]
  /\ requeued' = [j \in Jobs |-> IF j \in StalledRows THEN requeued[j] + 1 ELSE requeued[j]]
  /\ BecomeDue(StalledRows)
  /\ stale' = stale \ StalledRows
  /\ UNCHANGED <<attempts, pc, hand, mishaps>>

\* Mutant: unblock takes whatever ids it is given.
SelectableRows == {j \in Jobs : status[j] # "absent"}

\* WHERE id IN (...) AND status = 'blocked'.
BlockedRows == {j \in Jobs : status[j] = "blocked"}

\* Mutant: unblock keeps the attempts.
AttemptsKept(J) == attempts

\* Unblocking resets the attempts: a person says the cause is gone.
AttemptsReset(J) == [j \in Jobs |-> IF j \in J THEN 0 ELSE attempts[j]]

\* unblock: an operator returns blocked rows to the queue, due at once.
Unblock ==
  /\ \E J \in SUBSET BlockedRows :
       /\ J # {}
       /\ status' = [j \in Jobs |-> IF j \in J THEN "pending" ELSE status[j]]
       /\ attempts' = AttemptsReset(J)
       /\ requeued' = [j \in Jobs |-> IF j \in J THEN 0 ELSE requeued[j]]
       /\ BecomeDue(J)
  /\ UNCHANGED <<cause, stale, pc, hand, mishaps>>

-----------------------------------------------------------------------------
Next ==
  \/ \E j \in Jobs : Enqueue(j) \/ FallsDue(j) \/ GoesStale(j)
  \/ \E w \in Workers :
       \/ Claim(w) \/ Dispatch(w)
       \/ Complete(w) \/ CompleteRefused(w)
       \/ Fail(w) \/ FailRefused(w) \/ Block(w)
       \/ Crash(w)
  \/ RecoverStalled
  \/ Unblock

\* A job in hand is always carried through by its own process.
Carry(w) ==
  Dispatch(w) \/ Complete(w) \/ CompleteRefused(w) \/ Fail(w) \/ FailRefused(w) \/ Block(w)

\* Standing loops poll for ever; handlers return; time passes; the recovery
\* timer fires.  Nothing obliges a sweep's worker to claim, an operator to
\* unblock, a producer to enqueue or a process to crash.
Fairness ==
  /\ \A w \in Workers : WF_vars(Carry(w))
  /\ \A w \in Standing : WF_vars(Claim(w))
  /\ \A j \in Jobs : WF_vars(FallsDue(j)) /\ WF_vars(~Held(j) /\ GoesStale(j))
  /\ WF_vars(RecoverStalled)

Spec == Init /\ [][Next]_vars /\ Fairness

-----------------------------------------------------------------------------
(* Properties                                                              *)

\* The jobs whose handlers return within the recovery threshold.
Prompt == Jobs \ Overrunning

\* No prompt job is run by two workers at once: what FOR UPDATE SKIP LOCKED and
\* the recovery threshold are together meant to give.
OneHolder ==
  \A v, w \in Workers : v # w /\ hand[v] \in Prompt => hand[v] # hand[w]

\* A worker with a prompt job in hand still owns its row, so the status it is
\* about to write by id alone answers its own claim and nobody else's.
HolderOwnsRow ==
  \A w \in Workers :
    hand[w] \in Prompt => status[hand[w]] = "running" /\ hand[w] \notin stale

\* Retries are accounted for: a job gets MaxAttempts claims and one more for
\* every time recovery returned it, and a pending one has a claim left.
AttemptsAccounted ==
  \A j \in Jobs :
    /\ attempts[j] <= MaxAttempts + requeued[j]
    /\ status[j] = "pending" => attempts[j] < MaxAttempts + requeued[j]

\* A finished prompt job never leaves "done", whatever late writers, recovery
\* passes and operators do.
DoneStaysDone ==
  [][\A j \in Prompt : status[j] = "done" => status'[j] = "done"]_vars

\* Every readable job that enters the queue comes to rest, through crashes,
\* retries and an operator who never stops unblocking other jobs: none is
\* stranded "running", the oldest-first claim starves none, and an unreadable
\* row holds up no worker that does not claim its stage.
EveryJobSettles ==
  \A j \in Jobs \ Malformed :
    status[j] \in {"pending", "running"} ~> status[j] \in {"done", "blocked", "failed"}

\* For prompt jobs the queue implements the lease it promises: only a claim's
\* own worker ever settles it, whatever overrunning jobs do beside them.
Lease == INSTANCE JobLease WITH
  Jobs <- Prompt,
  Nobody <- NoJob,
  state <- [j \in Prompt |->
              CASE status[j] = "absent"  -> "absent"
                [] status[j] = "pending" -> "open"
                [] status[j] = "running" -> "leased"
                [] status[j] = "blocked" -> "held"
                [] OTHER                 -> "done"],
  owner <- [j \in Prompt |->
              IF Held(j) THEN CHOOSE w \in Workers : Holds(w, j) ELSE NoJob]

ImplementsLease == Lease!Spec

\* "a job that dies the same way every time must still run out of retries
\* rather than loop forever" (recoverStalled).
RetriesRunOut == \A j \in Jobs : attempts[j] <= MaxAttempts

\* "A stage with no handler is `blocked` ...: the jobs are held until a handler
\* exists" (HandlerRegistry): a job is held for want of a handler only while
\* no worker of the deployment has one.
HeldOnlyWithoutHandler ==
  \A j \in Jobs :
    status[j] = "blocked" /\ cause[j] = "unhandled"
      => \A w \in Workers : StageOf[j] \notin Handlers[w]

=============================================================================
