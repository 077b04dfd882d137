# commissionwatch in TLA+

A verification development of the commissionwatch backend: the server that sweeps the sites of
local governments, keeps their documents, extracts claims from them, lets operators review and
publish, and announces what was published. Paths below are under `src/backend/src/` unless they
start with another directory.

| module | models | checked by | proved in |
|---|---|---|---|
| `JobLease` | what the ingestion queue promises | through `ImplementsLease` | `IngestionQueueProofs` (`QueueImplementsLease`) |
| `IngestionQueue` | `services/ingestion/queue.ts`, `worker.ts` | `MCIngestionQueue`, `MCStanding` | `IngestionQueueProofs` |
| `SourceSweep` | `services/ingestion/scheduler.ts` | `MCRecord`, `MCProgress` | `SourceSweepProofs` |
| `Documents` | `services/ingestion/handlers.ts`, `transcripts.ts`, `recordings.ts` | `MCDocuments` | `DocumentsProofs` |
| `Politeness` | `services/ingestion/adapters/http.ts` | `MCStanding` | `PolitenessProofs` |
| `Extraction` | `services/extraction/`, `services/governor/` | `MCOutgoing` | `PublicProofs` |
| `Desk` | `services/review/`, `pressroom/corrections.ts`, `finance/entity-resolution.ts` | `MCRecord` | `ConsoleProofs` |
| `Disputes` | `services/disputes.ts`, `dispute-notifications.ts`, `delivery/dispatcher.ts` (direct mail) | `MCNotices` | `ConsoleProofs` |
| `EventLog` | `services/events/`, the decisions that emit | `MCOutgoing`, `MCProgress` | `EventLogProofs` |
| `Delivery` (extends `EventLog`) | `services/delivery/dispatcher.ts`, `discord.ts` | `MCNotices`, `MCProgress` | `DeliveryProofs` |
| `Prerender` | `services/prerender/` | `MCRecord` | `PublicProofs` |
| `Alerts` | `anomaly-detection.ts`, `notification.ts`, `email-delivery.ts`, `digest-scheduler.ts` | `MCOutgoing` | `PublicProofs` |
| `Archive` | `services/export/` (snapshots) | `MCOutgoing` | `PublicProofs` |
| `Features` | `services/features/registry.ts` | `MCStanding` | `ConsoleProofs` |

`PROJECT.json` maps each definition to its lines, lists the runs, the theorems, the disagreements
between code and comments that the runs show, and every hazard with the properties that cover it.

Five of the passing runs check several modules that share no row: a variable `turn` picks
one of them in the first state, and the others stay in their first states, where fairness asks
nothing of them. One run then asks each of them its questions, at the sum of their sizes and not
the product. Section 15 lists them. `MCIngestionQueue`, `MCEventLog` and `MCDelivery` give one module
its values, for these runs and for the runs that end in a violation.

## 1. Inventory

The program is one Node process per deployment; two overlap while a deploy replaces one by the
other. All durable state is in PostgreSQL at read committed (no code sets an isolation level), and
most hard behaviour comes from statements that are atomic one by one but not together.

| part | state | hard | correct when |
|---|---|---|---|
| Ingestion queue (`ingestion/queue.ts`, `worker.ts`) | `ingestion_jobs` | several loops claim with SKIP LOCKED, run a handler outside any transaction, write the outcome by id; crashes, recovery by age, unreadable rows | no job runs twice at once, outcomes answer their own claim, attempts add up, done is final, every job comes to rest |
| Source scheduler (`ingestion/scheduler.ts`) | `ingestion_runs`, an advisory lock per source, `consecutive_failures` | sweeps of one source from two servers, a deadline, abandoned runs | one sweep per source, discovery never starved, verdicts final, the failure tally follows them |
| Stage handlers (`ingestion/handlers.ts`, `transcripts.ts`, `recordings.ts`) | `document_artifacts`, `document_versions`, agenda items, observations | statements on the pool, a handler that stops between two and starts over; two fetches of one document; one content for many documents | versions numbered, observations recorded, stored bytes parsed |
| HTTP transport (`adapters/http.ts`) | a promise chain and a time, per adapter | retries in the chain, waits a site asks for | a distance between requests, and every request made |
| Extraction and governor (`extraction/`, `governor/`) | `extraction_runs`, `minute_claims`, `claim_verdicts` | two requests at once, chunks that fail, pruning while operators decide | decisions survive, verdicts stand |
| Review, publication, corrections (`review/`, `publication.ts`, `pressroom/`) | review states, `published_at`, `record_corrections` | decisions under partial locks, merges behind an approval | the log tells how each row came to stand, refusals stay, a published sentence is the approved one |
| Disputes and replies (`disputes.ts`, `dispute-notifications.ts`) | `disputes`, a ledger, one-shot mail | caps counted without a lock, mail before its mark | one outcome told, mailed once |
| Event log (`events/emit.ts`, `drain.ts`) | `events` | withdrawals that overlap an open tick, deletions of announced rows, death between dispatch and mark, an event that always throws | marked means handed over, a revoked event stays home, a retraction follows what it retracts, announcements are true, every event leaves |
| Delivery dispatcher (`delivery/dispatcher.ts`, `discord.ts`) | `deliveries`, batches in memory | death or a failing flush with a batch in memory, re-dispatch, requests the client repeats | each event in one message per channel, a dispatched event is settled, on its way or dropped by name |
| Prerendered pages (`prerender/`) | files, a cursor over `events` | late commits, lost cursors, renders that fail | pages show what is public |
| Alert mail and digests (`anomaly-detection.ts` to `digest-scheduler.ts`) | `anomaly_flags`, `notifications`, the suppression list | overlapping detections and digests, mail before its mark | nothing held is mailed, nobody is told twice |
| Export archive (`export/`) | `export_snapshots`, a run ledger, an advisory lock | two loops and a command, midnight, datasets read one by one | one snapshot a day, the ledger names it |
| Feature registry (`features/`) | `features`, `features_audit`, a cache per process | polls that overlap writes, two operators | caches converge, the log is the history |
| Operators and sessions (`auth/`), rate limiter (`rate-limit.ts`), channels and subscriptions (`delivery/channels.ts`, `subscriptions.ts`), records requests (`records/`) | rows and one map in memory | see section 18 | |

Little state or none of their own: source adapters, campaign finance, matters and votes, search
and feeds, status pages, HTTP routes, the external monitor, the frontend, deployment scripts.

How they meet: sweep -> queue -> handlers (through the transport) -> queue (next stage) ->
extraction -> review -> publication -> event log -> delivery and prerendering. Each arrow is a row in
a table except the last step of delivery, which is memory. Anomaly detection announces in memory;
the registry switches drains and loops on and off.

## 2. The ingestion queue

`IngestionQueue` keeps the columns of a row as functions over `Jobs`, and where each worker stands
in `runOnce` (`pc`, `hand`). One action per operation: `Enqueue`, `Claim`, `Dispatch` (the handler
returns, throws, or reports itself unavailable), `Complete`, `Fail`, `Block`, `RecoverStalled`,
`Unblock`; `CompleteRefused` and `FailRefused` are the outcome updates that find the row no longer
running. `Crash` is the death of a loop or its process.

- Time is kept as far as SQL compares it. A pending row is `due` or not, `ahead` orders due rows
  by next_attempt_at, and a running row is `stale` past the recovery threshold. A row that a live
  worker holds goes stale only for a job in `Overrunning`.
- The claim is one step because its transaction is. A row whose target does not parse
  (`Malformed`) throws inside that transaction and rolls it back, so nothing behind it in the same
  claim moves; while another claimer has it locked, SKIP LOCKED hides it (`SkippedByLock`).
- `abandon` and with it the status `failed` have no action. The worker abandons a job on
  InvalidJobError. `toClaimedJob` raises it already in the claim, before there is a job to abandon;
  a handler raises it when its `ctx.enqueue` is given an invalid target (worker.ts:360-362,
  queue.ts:679), which no handler of the repository does. queue.ts:205-207 expects a row that does
  not parse to end as failed; in fact it stays pending at the head of its stage.
- `requeued` is a history variable: recoveries since attempts were last zero.

`JobLease` is the abstract specification: one owner per job, only the owner settles it, an
orphaned lease is taken back, done is final. The refinement maps status to its state and the
worker that holds a job to its owner, for `Prompt` jobs, those whose handlers return within the
threshold.

Runs:
- `queue_safe` (490 000 states): two parse jobs and one extract job, a sweep's worker that claims
  everything and two standing loops, two attempts, one mishap, `j1` may overrun. Two jobs of a
  stage are the least for order and locks to matter, a third for a second stage; three workers
  let a recovered job be claimed while its old worker still runs and another waits; two attempts
  tell "retry" from "exhausted". The properties about ownership speak of the prompt jobs while an
  overrunning one misbehaves beside them.
- `standing` (114 000 states of it): the extract job cannot be read and
  heads its stage; the others must settle through two mishaps and an operator who unblocks for ever.
- `queue_handler_gap`: `HeldOnlyWithoutHandler` is violated. The sweep's worker claims an extract
  job, has no handler for it and blocks it, though a standing loop handles that stage.

Fairness. A job in hand is carried through by its process (`Carry`), because a handler either
returns or the process ends; standing loops poll from boot for ever, so they claim; time passes,
and the recovery timer fires every five minutes. The sweep's worker, the operator, producers and
crashes get none.

For an overrunning job a late `block`, which names the row by id and asks for no status
(queue.ts:1052), can turn done into blocked, and an operator's unblock makes it claimable again,
against queue.ts:830. That needs a handler slower than thirty minutes; no run is kept for it.

Also seen: recoverStalled (queue.ts:961) and claim do not compare attempts, so a job that takes its
process down each time is claimed past maxAttempts for ever, against queue.ts:953-955 ("a job that
dies the same way every time must still run out of retries"). `AttemptsAccounted` says exactly how far: one claim more per
recovery.

## 3. The sweep

`SourceSweep` is the composition of the scheduler with the queue. A sweep `<<server, source>>` goes
through `Open` (try-lock, close abandoned runs, insert the run), `FindDiscover` and
`SeeToDiscover` (a look, then an adoption or an insert: two statements, two steps), `ClaimOwn`,
`EndOwn`, `ClaimAny`, `EndHelp` (the two phases of `drain`), `ReadCounts` and `Close`. `Throw` is a
database error inside the try, `Stop` a death or an error outside it. `RecoverRuns`, `RecoverJob`,
`FallsDue` and `GetsOld` are timers.

- The queue is reduced to what a sweep sees of it: a claimed job comes back done, waiting or
  blocked, only by its holder. That this is sound for prompt jobs is what `JobLease` says.
- Counts are the set of tallies above zero, which is all classifyRun and sourceHealthUpdate ask.
  Settling a job and recording its tally is one step; the tally may be lost with an error.
- The standing loops are one worker, `Loop`, which leaves discover jobs alone. No other loop of
  the deployment claims them.
- A run gets old only once its sweep is over: the threshold is twice the deadline. A sweep whose
  last handler exceeds that would have its run closed under it, and its own closing update asks
  for no status; `ClosedOnce` is stated under the threshold the comment relies on.
- `Close` takes the closing update, the health update and the release of the lock in one step. A
  death between the first two is not modelled, which is why `TallyAgrees` is stated while no
  sweep was stopped. A lock is lost only with its sweep.

Runs: `record` (1 280 000 states of it; two servers share `s1`, one also sweeps `s2`; one fetch job,
two runs, one mishap) checks the safety properties. Two runs are enough for a second sweep to meet what
the first left: an abandoned run, a discover in flight, a tally. `progress` checks that every
run is closed (`RunsClose`), with one source that both servers sweep and no fetch jobs, which only
lengthen a drain. `OneDiscoverPending`
stands in the module and in no run because it does not hold: enqueueDiscover (scheduler.ts:849) looks
for a pending discover only, so one that was running or blocked comes back beside the new one,
against scheduler.ts:817. Deadlock is not checked: the model stops
when `MaxRuns` sweeps have begun.

Fairness: a sweep takes its steps and its handlers return, deadlines and thresholds pass, the
recovery timer fires. Nothing obliges a sweep to begin.

Left to lines that no property covers: counts other workers record between `ReadCounts` and
`Close` are overwritten, so counts do not only grow; a sweep whose discover another sweep is running
is closed as failed while the work is under way.

## 4. The event log

`EventLog` has the publication state of meetings and items (findings and claims), the rows of
`events` in commit order, and the open transactions that matter: an approval reads its meeting
without locking it (`BeginApprove`, `CommitApprove`), a withdrawal reads dispatched_at before its
update waits for the drain's row locks (`BeginWithdraw`, `CommitWithdraw`), and a tick holds the
rows it claimed (`Claim`, `HandOver`, `Throw`, `Commit`, `Rollback`). Publishing is covered by the
row lock of the meeting and is one step. A dedupe key is the contents of a row: type and subject,
and for a retraction the first event it answers.

Rows are also deleted, approved ones among them, and no event is revoked for it. `Redetect` is
detectAnomalies, which deletes every automatic finding of a meeting before it writes the new ones
(other rows, with other events). `Doom` and `Prune` are the two statements of an extraction that
reads which held claims it may no longer name and later deletes them by id, whatever an operator has
decided in between. Both wait for the row lock of a decision. `deleted` holds the ids that are gone.

`log` is in commit order while CLAIM_SQL orders by occurred_at; they differ only for overlapping
transactions about different subjects, which no property compares.

Runs:
- `outgoing` (501 000 states of it; a meeting with a claim and a finding, two drains under symmetry,
  batches of two, three events before withdrawals stop, one mishap; the finding's dispatch always
  throws) checks the safety properties. `AnnouncementsStand`: a live announcement is of something
  whose own decision stands, or whose row a detection or an extraction has deleted since. It asks no
  more because no more holds, see below.
- `progress` (10 600 states of it; a meeting and a claim, two drains; the meeting's events always
  throw, so there is one poisoned event in a batch of two) checks that every other event leaves
  (`PoisonHoldsNoneUp`, which is `EveryEventLeaves` of this module).
- `events_raced` violates `EmittedIsPublic`: an approval reads its meeting as published, the meeting
  is unpublished, and the event of the approval commits after that, for an item that is not public.

`HandedIsPublic` stands in the module and in no run because it does not hold either: unpublishing a
meeting revokes the meeting's own events (pressroom.ts:926), so the drain hands over those of its
findings and claims although no reader may see them; the same happens to an approved finding that a
new detection deletes (anomaly-detection.ts:130-132).

events/index.ts:44-46 says the opposite of both: "`emitEvent` guarantees that a `meeting`,
`finding`, `claim` or `document` event exists only for something already public, which is what lets
a consumer read `events` instead of re-deriving `publication.ts`'s two-part condition".

Fairness: the interval fires for ever and a tick runs to its end. `EveryEventLeaves` assumes that
the feature is left on in the end, and fewer poisoned events than `BatchSize`: as many would head
every batch, and starve the rest.

Disagreements between code and comments, seen while modelling and kept as no run:
- an event that a withdrawal reports as recalled may be in the hands of an open tick, and no
  retraction follows (emit.ts:394 against :373-374);
- published, withdrawn and published again, a meeting has no announcement that stands, because the
  revoked row still holds the dedupe key (emit.ts:250 against pressroom.ts:845-846);
- announceWithdrawn swallows a database error in a transaction PostgreSQL has already aborted, so
  the withdrawal fails at its commit (pressroom.ts:939);
- an item approved before its meeting is published is never announced (review/queue.ts:649-650);
- a second withdrawal before a tick revokes the retraction of the first (pressroom.ts:917-918);
- batches are per event type and server, so a retraction may be posted before the publication it
  answers (drain.ts:110-112 against dispatcher.ts:354).

## 5. Delivery

`Delivery` extends `EventLog`: each step of the log is kept and conjoined with what it does to
`deliveries` and to the batches in memory. `DispatchEvent` and `DispatchThrows` write rows, unique
per channel and event, and batch the new ones. A timer then takes its batch out of the memory
(`TakeBatch`; a server's flushes go one after another) and ends in one of three ways: `Flush` makes
a message of the rows that are still pending, `Unsendable` fails them because the channel's
configuration cannot be read, and `FlushFails` is a database error in one of sendBatch's statements,
which the timer logs and after which the rows stay pending in no memory.

A message is the loop of DiscordClient.post: the channel takes the request (`Take`), whether or not
its answer arrives; without a good answer in time the same message is requested again (`Repeat`, up
to `ClientTries`); the loop ends in `Accepted`, in `Refused`, or in `Unrecorded`, where recording
the failure itself fails. `Die` loses batches and the message under way. `dropped` names the rows
that a death, `FlushFails` or `Unrecorded` left pending with nothing to send them.

A refused row counts as settled: it is given a next_attempt_at, but nothing in the code calls
retryPending. A row held for a digest is written as deferred and no code reads it; such channels are
in the model (`Digest`), and the properties exclude them.

Runs:
- `notices` (270 000 states of it; two drains under symmetry, an immediate channel and a digest one,
  three events, two requests per message; a throw or rollback, and two troubles: deaths, refusals,
  failing statements). `NoNoticeTwice`: no channel gets an event in two messages, whatever is
  dispatched again. `NothingStranded`: a dispatched event is sent, refused, in some server's memory,
  or `dropped` by name, so that throws, rollbacks and second dispatches lose nothing by themselves.
- `progress` (41 000 states of it; the same with two events and no symmetry) checks
  `EveryNoticeSettles`, without an exception for deaths: a notice is sent, refused, dropped, or its
  event is revoked.
- `delivery_lost` violates `MarkedReaches`: a server dies after dispatch and before the mark; the
  event is dispatched again, its row is taken for a duplicate and not batched (dispatcher.ts:334),
  and the event is marked with its notice in no memory. drain.ts:26-29 says the second dispatch
  makes this order lose nothing. A failing flush strands a row in the same way with no death.

That the channel takes a message once is no property here, because it does not hold: the channel takes
a request whose answer is late or a 5xx, the client repeats it (discord.ts:482-503), and the channel
takes it again. docs/superpowers/specs/2026-08-04-delivery-channels-design.md:39 says "the same
anomaly can never notify the same channel twice".

Fairness adds to that of the log that armed timers fire and that the client's loop ends, which its
timeout and its limit of requests see to. Failing statements and deaths get none.

## 6. Documents

`Documents` has the statements of a fetch and of a parse as steps of a worker: `ClaimFetch`, `Fetch`,
`Store` (INSERT ... ON CONFLICT DO NOTHING on the hash), `LockDocument` and `InsertVersion` (the
transaction of recordDocumentVersion), `Observe`, `EnqueueParse`; `ClaimParse`, `IndexText`,
`WriteItems`, `RecordSnapshot`. `StopHalfway` is a death or a throw between any two statements, and
`Retry` what then becomes of the job: it is pending again and starts over, or it is blocked because
that was its last attempt. Which of the two is open here, as attempts are counted in
`IngestionQueue`. `held` counts the blocked fetches of a document; `Unblock` is the operator who
returns some of them. What a source serves, what a reader makes of the bytes and which items they
hold are constants.

`ObservationsRecorded`: a transcript or recording that has a version has a recorded state, unless a
fetch that will record it is queued, held or under way. The exception for held fetches is real: a
fetch whose last attempt stops between the version and the status row (worker.ts:382-390) leaves a
document that was fetched and has no state until a person unblocks the job.

Run `documents` (31 100 states): two agendas that may be the same file, two transcripts that may
both be the empty stub, four contents, two workers, two fetch jobs, one stop. Two jobs are the
least for two fetches to overlap on one document or on one content; a single stop reaches each gap
between statements. Fairness: workers go on, and every job is claimed in its turn because claims go
oldest first. Nothing obliges an operator to unblock.

Seen while modelling: the parse job is enqueued only if the artifact row was new
(handlers.ts:733), so bytes whose first fetch stopped in between are never parsed, which
`ParsedUnlessStopped` excepts; `SnapshotsAgree` does not hold, as a version whose insert overlaps the
parse of its bytes stays without snapshot against "carried across rather than left NULL"; a second
document with the same bytes gets no parse, hence its meeting no items; items a later version
dropped stay.

## 7. Extraction and governor

`Extraction` follows one meeting: a request looks for a queued job and inserts one (`Look`,
`Enqueue`, no transaction around them), a worker claims it, opens a run (`StartRun`), reads chunk by
chunk (`Read` picks what the model yields, how many chunks fail and are recovered), stores
(`Persist`), prunes in two statements (`FindDoomed`, `PruneHeld`), classifies and ends the run (`Finish`).
A govern job lists held claims and for each looks for a verdict, asks and records (`ListHeld`,
`CheckVerdict`, `NoVerdict`, `RecordVerdict`, `OrphanVerdict`). Operators decide claims meanwhile,
processes die, recovery returns their jobs, and a sweep's worker blocks them.

Runs, verdicts and jobs are there because they decide when a persist or a prune happens and which
claims it meets. The one property that is checked, `NotReopened`, is about the claims; what is
wrong with runs and verdicts is listed below and has no property.

`NotReopened` is checked in the run `outgoing` with two jobs, two workers, two claims, two chunks, two
models (the requested one and the one a router serves), two attempts, one mishap.

Seen while modelling: a claim decided between the two statements of the prune is deleted with its
decision (extractor.ts:650 against :627); two requests may both pass the look (stage.ts:167);
verdictExists asks for the model requested while recordVerdict stores the one served, so a routed
model is asked again in every pass; the merge rewrites matter and quote of decided claims; a run
whose process died stays `running` (runs.ts:187).

## 8. The desk

`Desk` has rows (claims, findings, place links, pairs of names, the meeting), the log
`record_corrections`, the card each operator has on the screen and the transaction each is in. A
decision is `Begin` (reads the row, with FOR UPDATE where the code has it: `Locking`, `Free`) and
`Commit` (appends its entry, writes the row and, for a claim, the pin) or `Rollback`. `Clash` is the
unique index a first judgement of a pair of names meets. `Remerge` is an extraction that rewords a
decided claim, `Deploy` a new render version. The wall is `Public`.

Properties: `DecisionsChain` (each entry of the log goes on from the one before, and the last is how
the row stands), `RefusedStaysRefused`, `PublishedSentenceHolds` (what is shown of a claim reads as
the approved text, though extraction and deploys move under it).

Bounds: two operators, one row of each kind and one inferred link, two wordings, one deploy, a log
of two entries with those that open transactions may yet add. Conflicts need two decisions on one
row; a third operator would repeat the role of the second.

Seen while modelling: recordCorrection, setPublication and updatePolicy read without a lock, so two
at once log a stale old value (`DecisionsChain` leaves the meeting out); the first judgements of a
pair end in a unique violation for one operator (entity-resolution.ts:279); a correction of a
meeting's field is overwritten by the next upsert of ingestion without a log row; findings and
claims approved while their meeting is withheld are never announced, though queue.ts near :649 and
the header of approveClaim say the publication does it; an operator may approve a claim whose text
changed after the card was loaded (routes/admin/claims.ts:149).

## 9. Disputes and replies

`Disputes` has the contests, the reply ledger, its event, the tick of each server's drain, the batch
in memory and the mailer. `CountOpen` and `Submit` are the cap and the insert, in one transaction
without a lock; `LockContest` and `DecideContest` the operator's; `DispatchReply` to `CloseRow` the way of a
reply from the log to the ledger row. `Perish` is the death of a server, `ReplyThrows`, `AskThrows`
and `RollbackTick` errors.

`OneOutcome`: one outcome is ever told of a contest, although two operators decide at once.
`ReplyMailedOnce`: across rollbacks, deaths and re-dispatches the mailer takes a reply once.
Bounds: three contests of one record with a cap of one, two requests, two operators, two servers,
one mishap.

Seen while modelling: the cap is counted without a lock, so requests at once overshoot it against
disputes.ts:295-296; a reply whose server died between the mail and the mark stays `queued` for
good, which is the price of "once"; assertDisputeLinkable reads the dispute without the lock its
comment implies (corrections.ts:179-196, not modelled).

## 10. Prerendered pages

`Prerender` has records and quotes that become public and cease to be, each change with its event
(`updated_at` is the start of its transaction, in grains so that several events fall in one
millisecond), and per server a consumer: `TakeBatch` behind the cursor, `Build` from the record,
`PutPage` or `PageFails`, `WriteCursor`. `LoseCursor` and `Abandon` are a lost cursor file and a death;
`Rebuild` is the operator's.

`PagesFollow`: when a consumer is at rest and has caught up, each page that the log leads to shows
what is public. It excepts pages gone `astray`: an event committed behind the cursor
(consumer.ts:451), a render that failed while the cursor went on (consumer.ts:422; "rebuild()
fixes it unconditionally" does not hold for a page to be removed, which rebuild never visits), and
two consumers in a deploy of which the slower writes last. It says nothing of the pages of findings
that a new detection deletes: no event is written for them, and the model has no such deletion.

Run `prerender_outlives` is violated: a claim approved while its meeting is withheld has no event
(claims.ts:903), so its retraction touches none and the page keeps the sentence, against
"a prerendered page that outlives its withdrawal is the worst failure this system can produce".
Also: a republication writes no event, so the page does not come back; the cursor keeps
milliseconds of microsecond rows, so the last rows are read again every tick, and a batch's worth
in one millisecond for ever.

Bounds: one record and one quote, two renderers, batches of one, times 0 to 2 with a grain of two.

## 11. Alerts

`Alerts`: `Detect` and `ReplaceFlags` (policy, deletion, insertion), `ReadFlags` and `WriteNotices` (the
listener in memory), `NextAlert`, `StartDigest`, `NextDigest`, `Clear`, `Post`, `PostFails`, `MarkSent`;
subscribers turn mail off or stop it, the operator changes the policy and approves; `LoseTask` is a
death. Which rules fire is a choice.

`NoticedIsPublished`: no notification is about a finding still held, also when a second detection
under a stricter policy replaces the findings the first is about to announce. `ToldOnce` bounds how
often one reader is told of one finding by the digests that overlap and the marks that were lost.
Bounds: two rules, two detections, one subscriber, one digest, one loss, three findings.

Seen while modelling: nothing asks whether the meeting is published, so findings of a meeting never
published are mailed; a detection deletes all automatic findings of its meeting, also approved and
rejected ones, and a rejected finding is raised and mailed anew (against rule 2 in the header of
review/queue.ts); two overlapping detections leave both sets; a digest does not ask again whether
the reader still wants mail; `digest_only` changes nothing; queued alerts lost with their process are
never taken up; GET /unsubscribe turns a subscription off without suppressing the address.

## 12. Archive

`Archive`: a cycle of a loop or of the command goes through `Wake` (the day is computed), `Begin`
(taken_at is now() of the transaction), `TryLock`, `LookAtDay`, `RecordDataset` for each dataset, and
`CommitSnapshot`, which writes snapshot and ledger together; `Break` is an error or a death.

`OnePerDay`: one snapshot of a day that nobody forced. `LedgerNamesAnswer`: the ledger names the
snapshot the archive answers with, except after a cycle that straddled midnight (its taken_at is a
day later than its ledger's day) and a forced one that began before the tick it displaces, against
the comment of recordSnapshotRun. Run `archive_torn` is violated: the datasets are read statement
by statement at read committed, so a record published in between is in the second and not in the
first, against archive.ts:100.

Bounds: two loops and the command, two datasets, one record, three moments with two to a day, two
snapshots, one failure. Two datasets are what a tear needs; two moments to a day put the day's
change inside a cycle.

## 13. Politeness

`Politeness` is the chain of `createPoliteTransport`. `Ask` appends; the first of the chain goes
through `Pace` (the sleep to keep the distance), `Send`, and one of `Respond`, `NotNow` (429, 503) or
`NoResponse`, then `Resume` after its wait, or `Settle`, which begins the next. Time is counted down by
`Pass`, and a timer may fire late.

`HostIsSpared`: no request leaves sooner than the delay after the one before, retries after
"Retry-After: 0" included. `EveryRequestIsMade`: nothing a request runs into holds up or fails those
behind it. `LongWaitsAreAbandoned` stands in the module and in no run because it does not hold:
http.ts:43 says a server asking for an hour "gets the request abandoned", :382 waits two minutes
and asks again. After the last attempt's 429 the next request leaves after the ordinary delay,
whatever the site asked.

The distance is per transport, which is per adapter and process, not per host; wall-clock steps
and robots.txt are left out. Bounds: three callers (one under way, one waiting, one to arrive), a
delay of two, three attempts, a longest wait of three, and sites that ask for 0, 1, 3, 4 or nothing:
below the delay, at the longest wait, beyond it. Fairness: the process goes on, time passes, and an
attempt ends at the latest by its timer.

## 14. Features

`Features`: a switch's row and log, and for each process a cache and a poll under way (`PollRead`,
`PollApply`, `PollFails`); a change is `AskFlip`, `ReadRow` (FOR UPDATE), `WriteRow` (row and log,
committed) and `ShowFlip` (the own cache). A process dies and boots.

`FlipsChain`: the log is the history of the row, also when two operators change it at once and when
there is no row to lock; then the second meets the primary key. `CachesConverge`: once nobody
changes the switch, every process that is up comes to go by the row. Between, a poll whose query
began before a change overwrites the cache with the older value for one interval, so the
operator's next page may show it, against the comment in setFlag (registry.ts:399-402).

Run `standing`, with the queue and the transport: two servers, two operators, two changes, two
faults, from a switch without a row and from one that was turned on. Fairness: a live process polls, a query is answered, a transaction ends. Nothing
obliges a process to boot, to fail or to die.

## 15. Composite runs

| run | module | states | modules | properties |
|---|---|---|---|---|
| `record` | `MCRecord` | 1 573 000 | `SourceSweep`, `Desk`, `Prerender` | `OneSweepPerSource`, `DiscoveryReached`, `TallyAgrees`, `ClosedOnce`; `DecisionsChain`, `PublishedSentenceHolds`, `RefusedStaysRefused`; `PagesFollow` |
| `outgoing` | `MCOutgoing` | 2 569 000 | `EventLog`, `Extraction`, `Alerts`, `Archive` | `OneDrainPerEvent`, `MarkedWasHanded`, `RetractionFollows`, `AnnouncementsStand`, `RevokedStaysHome`; `NotReopened`; `NoticedIsPublished`, `ToldOnce`; `OnePerDay`, `LedgerNamesAnswer` |
| `notices` | `MCNotices` | 719 000 | `Delivery`, `Disputes` | `NoNoticeTwice`, `NothingStranded`; `OneOutcome`, `ReplyMailedOnce` |
| `standing` | `MCStanding` | 158 000 | `IngestionQueue`, `Politeness`, `Features` | `EveryJobSettles`; `HostIsSpared`, `EveryRequestIsMade`; `CachesConverge`, `FlipsChain` |
| `progress` | `MCProgress` | 60 000 | `Delivery`, `SourceSweep`, `EventLog` | `EveryNoticeSettles`; `RunsClose`; `PoisonHoldsNoneUp` |

`standing` and `progress` have the liveness properties, and no symmetry. `record`, `outgoing` and
`notices` hold only safety properties and use symmetry: operators and servers of the composed modules
are the same two values, so that one permutation group reduces each module. The servers of the sweep
are apart from these, as only one of them sweeps the second source. In `MCProgress`, whose modules
share names, the sweep and the log come in by INSTANCE. Which modules go together says nothing of the
system. Deadlock is not checked in them: a module stops at its bounds.

## 16. What is proved

TLAPS checks the proofs for all values of the constants that satisfy the assumption each module
states (`QueueConstants`, `LogConstants`, `SweepConstants`, ...). These say that bounds are naturals,
that kinds of rows are apart, and, where something is counted or a first row is taken, that the rows
are finitely many. Nothing else is assumed. Each safety property that a passing run checks is a
theorem; the type invariants are too.

| theorem | of | inductive invariant | why the property is not inductive alone |
|---|---|---|---|
| `TypeCorrect` | queue | `RowInv` | `TypeOK` does not tie `due`, `status`, `pc` and `hand`; a claim must be known to take a row nobody runs |
| `NoTwoHolders`, `OutcomesAreOwned` | queue | `OwnInv` | a holder loses its row to recovery only, and a held prompt row is not stale; a second holder could come from a claim only, of a pending row |
| `AttemptsAreAccounted`, `DoneIsFinal` | queue | with the above | |
| `QueueImplementsLease` | queue | both | every step is a step of `JobLease` or a stutter |
| `LogTypeCorrect`, `DrainsPartition`, `DispatchThenMark`, `RetractionsAreAnswers`, `AnnouncementsHold`, `RevocationIsFinal` | event log | `IInv` = `TickInv`, `TxnInv` and the log | a withdrawal's reads are old when its update runs; `TxnInv` says they are still true, as no other decision on the row emits meanwhile. A deletion takes a row from the decided ones and adds it to `deleted` for good |
| `DeliveryKeepsTheLog` | delivery | | every step of `Delivery` is one of `EventLog`, so `IInv` holds of it |
| `NoticesAreSentOnce` | delivery | `Apart`, `Known` | an event waits for a channel in one batch of one server, and what is batched has its row, so that no second dispatch inserts it. About messages: how often the client requests one is left open |
| `DispatchedReaches` | delivery | `Recorded`, `RowsReach` | an event is marked once its rows are written, and a row of an immediate channel is sent, refused, in a memory or was dropped; each step that takes it out of a memory says which |
| `SweepsAreExclusive`, `VerdictsAreFinal` | sweep | `LockInv` | a sweep under way holds the lock of its source, and its run is open and younger than the recovery threshold |
| `SweepsReachTheirDiscover` | sweep | `HandInv`, `JobInv`, `ReachInv` | the discover a sweep found may be claimed, given back or settled by others; `Steady` says what each of those steps leaves of it |
| `TalliesAgree` | sweep | `TallyInv` | a run that closes has to be the last of its source, and no run may be open without its sweep |
| `NumbersAreDense` | documents | `Numbering` in `Handled` | who holds the row's lock has the number that comes next |
| `WhatWasSeenIsRecorded` | documents | `Attended` | a state not yet recorded is owed by a fetch that is queued, held or under way; a handler that stops leaves its job in one of the first two |
| `ItemsReachTheVersion` | documents | `Left`, `Jobs` in `Handled` | a parse job exists only where a version was left, and one worker runs it |
| `DecisionsAreLogged`, `RefusalsStand` | desk | `OpenSound`, `DeskLocked`, `Untold` | what a transaction read of a locked row is still what the row holds |
| `PublishedAsApproved` | desk | `PinsAreSaid` | a text is pinned by an approval the log tells of; it is public only while it is what the pin says |
| `RepliesTellOneOutcome` | disputes | `LocksHeld` | what an operator has locked is open, and no other has it |
| `RepliesAreMailedOnce` | disputes | `ReplyHeldOnce` | one mailer at most holds a reply, and then it was handed over and not mailed |
| `FlipsAreHistory` | features | `FlipsHeld` | who has read a row is alone in it and has read what it holds; who found none has locked none |
| `TheHostIsSpared` | politeness | `PoliteTypeOK`, `PaceHeld` | a request that has paced itself sleeps for what the gap is short of the delay |
| `PagesFollowTheRecord` | pages | `ReadOnce`, `Following` | see below |
| `OnlyPublishedIsNoticed` | alerts | `ReadPublished` | what a detection read to announce can have been deleted since, not held |
| `EachIsToldOnce` | alerts | `MailShape`, `Once`, `Often` | see below |
| `DecisionsAreKept` | extraction | `ExtractionSound` | its types need `OwnJobs` and `Bounded`: a handler alone runs its job, and a job that is due has an attempt left |
| `OneSnapshotOfADay` | archive | `Locking`, `FirstOfItsDay` | a cycle that reads has found no snapshot of its day, and only the lock's holder commits |
| `LedgerNamesWhatIsServed` | archive | `Locking`, `FirstOfItsDay` | the snapshot of an unforced cycle is the only one of its day when it commits, so that the ledger's row and the archive agree |

Two invariants are worth reading before their proofs.

`PagesFollow` speaks of a consumer at rest, which says nothing of the steps towards it. `Following`
says of every page at any time that it shows what is public, or that a change of it is `Pending`: an
event still unread, beyond the cursor, such that each renderer that is in a pass has either read it
and will build the page from what is public now (`Keeps`), or has a cursor to write that lies before
it. A renderer that writes an older cursor late, or loses it, only makes more of them pending. That a
batch leaves nothing behind (`BatchIsABeginning`) is the arithmetic of the model: the first
`PageBatch` events by (updated_at, id), and a cursor cut down to the millisecond, which lies at or
before the last of them.

`ToldOnce` bounds a count. `Often` splits it: every telling of a row that is still pending was lost
with its mark or belongs to a digest yet to mark it; once the row is closed, only the digests that
collected it can tell it again. `Once` is about grave findings, which detections mail and no digest
does: who has the row on its list has not told it yet, and no two have it.

The proofs changed the models in one way: states are typed by sets of records, because a type
invariant that leaves a field open carries nothing over a step. Where the proofs need a least or a
last element (the first event of a batch, the last snapshot of a day), they take it from the
well-foundedness of the naturals (`LeastOf`) and from counting what lies ahead (`Ahead`).

Only model-checked, because the prover has no rules for fairness: the liveness properties
`PoisonHoldsNoneUp`, `EveryNoticeSettles`, `RunsClose`, `ParsedUnlessStopped`, `EveryJobSettles`,
`EveryRequestIsMade`, `CachesConverge`. The five violations (`queue_handler_gap`, `events_raced`,
`delivery_lost`, `prerender_outlives`, `archive_torn`) are TLC's.

## 17. Plan

The modules above are the plan's, and all their safety properties are proved. What is left:

1. What the liveness properties rest on and can be stated as safety: that a run which is open and
   old is one recovery may close (`RunsClose`), that a prompt job is claimed or due
   (`EveryJobSettles`), that a process whose poll is idle may poll (`CachesConverge`).
2. A promise of the drain and the dispatcher in the manner of `JobLease`: each event, for each
   channel, is owed, under way, settled or revoked, and the detailed modules implement it.
3. The archive's promise across days: the ledger's rows in the order of their days.

## 18. Not modelled

- **Channels, subscriptions, SMS** (`delivery/channels.ts`, `subscriptions.ts`, `sms.ts`). The daily cap
  counts rows already sent and then posts, so two servers overshoot it by one message; a row
  dispatched before an unsubscribe is posted after it, because `enabled` is not asked again; the cap
  looks at enabled routes only, against dispatcher.ts:717 ("any of its routes"); unsubscribing is two
  updates without a transaction. No message carries a verify_token, so a subscriber's SMS channel
  is never verified and its rows are always skipped: cap and consent never meet on one channel,
  and what is left are single counts.
- **Rate limiter** (`rate-limit.ts`): a count per key and window in one process, without an await
  between read and write.
- **Operators and sessions** (`auth/`): who may act is taken as given. A session is a row with two
  expiries and a revocation, each a condition of one query; sweeping deletes only what that query
  refuses already.
- **Records requests** (`records/`): drafts with a status that single updates change.
- **retryPending** (dispatcher.ts:418) has no caller; a refused post is given a time that nobody
  keeps.
- **recordCorrection** of a field, and the ledger rows for skipped and failed snapshots.
- **Source adapters, campaign finance, matters, votes, search, feeds, calendar, status**: parsing and
  projections of stored rows. Their correctness is a question of data that a small model does not
  tell apart.
- **HTTP routes, frontend, external monitor, deployment scripts**: validation, layout and probes around
  the services. A deploy appears in the models as two servers that overlap and as the death of
  one.
