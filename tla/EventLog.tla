------------------------------ MODULE EventLog ------------------------------
(***************************************************************************)
(* The announcement log (backend/src/services/events) and the decisions    *)
(* that write to it.  An operator publishes or withholds a meeting,        *)
(* approves a finding or a claim, retracts a claim; each decision emits    *)
(* its event, or revokes the events it makes untrue, in its own database   *)
(* transaction.  A detection and an extraction delete findings and claims, *)
(* approved ones too, and write no event.  One drain per server process    *)
(* polls the log: a tick claims the oldest waiting events under row locks  *)
(* (FOR UPDATE SKIP LOCKED), hands them to the dispatcher one by one and   *)
(* marks the accepted ones when it commits.                                *)
(*                                                                         *)
(* A transaction is one step where its reads and writes are covered by the *)
(* row locks it holds, and two where they are not: an approval reads the   *)
(* meeting without locking it, and a withdrawal reads dispatched_at before *)
(* its update waits for the drain's row locks.                             *)
(***************************************************************************)
EXTENDS Naturals, Sequences, FiniteSets

CONSTANTS
  Meetings,     \* rows of meetings
  Items,        \* automatic findings (anomaly_flags), claims (minute_claims)
  Claims,       \* the items retractClaim applies to
  MeetingOf,    \* MeetingOf[x]: the item's meeting_id
  Drains,       \* one EventDrain per server process
  BatchSize,    \* EventDrainOptions.batchSize
  Poison,       \* subjects whose events the dispatcher always throws on
  MaxEvents,    \* bound: no withdrawal begins once the log is this long
  MaxMishaps    \* bound: ticks rolled back and passing dispatch errors

ASSUME LogConstants ==
  /\ Claims \subseteq Items
  /\ Meetings \cap Items = {}
  /\ MeetingOf \in [Items -> Meetings]
  /\ BatchSize \in Nat \ {0}
  /\ Poison \subseteq Meetings \cup Items
  /\ MaxEvents \in Nat
  /\ MaxMishaps \in Nat

VARIABLES
  published,   \* meetings with a published_at
  approved,    \* findings with review_state published, claims approved
  retracted,   \* claims with a retracted_at
  deleted,     \* items whose row is gone
  doomed,      \* claims an extraction read as held and is going to delete
  txn,         \* txn[s]: the open transaction that has locked s's row
  log,         \* the events as committed: their claim order (occurred_at, id),
               \* but for transactions about different subjects that overlap
  dispatched,  \* positions of log with a dispatched_at
  revoked,     \* positions with a revoked_at
  recalled,    \* positions some retractSubject has reported as recalled
  handed,      \* positions the dispatcher has written a delivery for
  tick,        \* tick[d]: the open transaction of drain d
  draining,    \* the event_drain feature
  mishaps      \* how many mishaps so far

decisions == <<published, approved, retracted, deleted, doomed, txn>>
rows == <<log, dispatched, revoked, recalled>>
vars == <<decisions, rows, handed, tick, draining, mishaps>>

Subjects == Meetings \cup Items

\* A row's dedupe key is its contents: the default key names type and subject,
\* a retraction's key also the first event it answers.
Event == [type : {"published", "retracted"}, subject : Subjects, about : Nat]

Announcement(s) == [type |-> "published", subject |-> s, about |-> 0]
Retraction(s, i) == [type |-> "retracted", subject |-> s, about |-> i]

Txn == [op : {"none", "approve", "withdraw"}, public : BOOLEAN,
        live : SUBSET Nat, gone : SUBSET Nat]
NoTxn == [op |-> "none", public |-> FALSE, live |-> {}, gone |-> {}]

\* claimed: the rows locked; todo: not yet handed over; sent: accepted.
Tick == [claimed : SUBSET Nat, todo : SUBSET Nat, sent : SUBSET Nat]
NoTick == [claimed |-> {}, todo |-> {}, sent |-> {}]

TypeOK ==
  /\ published \subseteq Meetings
  /\ approved \subseteq Items
  /\ retracted \subseteq Claims
  /\ deleted \subseteq Items
  /\ doomed \subseteq Claims
  /\ txn \in [Subjects -> Txn]
  /\ log \in Seq(Event)
  /\ dispatched \subseteq DOMAIN log
  /\ revoked \subseteq DOMAIN log
  /\ recalled \subseteq revoked
  /\ handed \subseteq DOMAIN log
  /\ tick \in [Drains -> Tick]
  /\ draining \in BOOLEAN
  /\ mishaps \in 0..MaxMishaps

Init ==
  /\ published = {} /\ approved = {} /\ retracted = {}
  /\ deleted = {} /\ doomed = {}
  /\ txn = [s \in Subjects |-> NoTxn]
  /\ log = << >>
  /\ dispatched = {} /\ revoked = {} /\ recalled = {} /\ handed = {}
  /\ tick = [d \in Drains |-> NoTick]
  /\ draining = FALSE
  /\ mishaps = 0

-----------------------------------------------------------------------------
(* The publication wall.                                                   *)

Decided(s) == IF s \in Meetings THEN s \in published
                                ELSE s \in approved \ retracted

Public(s) == Decided(s) /\ (s \in Items => MeetingOf[s] \in published)

\* An insert on a taken dedupe key writes nothing.
Emit(event) == IF \E i \in DOMAIN log : log[i] = event
               THEN log ELSE Append(log, event)

Withdrawing(s) == txn[s].op = "withdraw"
Ticking(d) == tick[d].claimed # {}

-----------------------------------------------------------------------------
(* Decisions.                                                              *)

\* Publishing and announcing commit together, under the meeting's row lock.
\* A published meeting may be published again.
Publish(m) ==
  /\ txn[m].op = "none"
  /\ published' = published \cup {m}
  /\ log' = Emit(Announcement(m))
  /\ UNCHANGED <<approved, retracted, deleted, doomed, txn, dispatched,
                 revoked, recalled, handed, tick, draining, mishaps>>

\* An approval asks whether the item is public once it is approved; the
\* meeting's row is read, not locked.
BeginApprove(x) ==
  /\ txn[x].op = "none"
  /\ x \notin approved \cup deleted
  /\ txn' = [txn EXCEPT ![x] = [NoTxn EXCEPT !.op = "approve",
                                 !.public = MeetingOf[x] \in published]]
  /\ UNCHANGED <<published, approved, retracted, deleted, doomed, rows,
                 handed, tick, draining, mishaps>>

CommitApprove(x) ==
  /\ txn[x].op = "approve"
  /\ approved' = approved \cup {x}
  /\ log' = IF txn[x].public THEN Emit(Announcement(x)) ELSE log
  /\ txn' = [txn EXCEPT ![x] = NoTxn]
  /\ UNCHANGED <<published, retracted, deleted, doomed, dispatched, revoked,
                 recalled, handed, tick, draining, mishaps>>

\* The unrevoked events of s.
Live(s) == {i \in DOMAIN log : log[i].subject = s /\ i \notin revoked}

\* Unpublishing a meeting needs no earlier publication; retracting a claim does.
MayWithdraw(s) == s \in Meetings \/ s \in (Claims \cap approved) \ retracted

\* retractSubject reads its events without locking them.
BeginWithdraw(s) ==
  /\ txn[s].op = "none"
  /\ MayWithdraw(s)
  /\ Len(log) < MaxEvents
  /\ txn' = [txn EXCEPT ![s] = [NoTxn EXCEPT !.op = "withdraw",
                                 !.live = Live(s), !.gone = Live(s) \cap dispatched]]
  /\ UNCHANGED <<published, approved, retracted, deleted, doomed, rows,
                 handed, tick, draining, mishaps>>

Locked == UNION {tick[d].claimed : d \in Drains}

\* Mutant: any unrevoked event is answered with a retraction.
AnswerableLive(s) == txn[s].live

\* What the withdrawal answers: the events it read as dispatched.
Answerable(s) == txn[s].gone

\* The first of them keys the retraction.
IsFirst(i, S) == i \in S /\ \A j \in S : i <= j

\* Mutant: only the events that have not left are revoked.
RevocableWaiting(s) == txn[s].live \ txn[s].gone

\* The rows retractSubject's update names.
Revocable(s) == txn[s].live

\* The update waits for every row it names; the rest commits with it.
CommitWithdraw(s) ==
  /\ Withdrawing(s)
  /\ txn[s].live \cap Locked = {}
  /\ published' = published \ {s}
  /\ retracted' = retracted \cup ({s} \cap Claims)
  /\ revoked' = revoked \cup Revocable(s)
  /\ recalled' = recalled \cup (Revocable(s) \ txn[s].gone)
  /\ \/ Answerable(s) = {} /\ log' = log
     \/ \E i \in Answerable(s) : /\ IsFirst(i, Answerable(s))
                                 /\ log' = Emit(Retraction(s, i))
  /\ txn' = [txn EXCEPT ![s] = NoTxn]
  /\ UNCHANGED <<approved, deleted, doomed, dispatched, handed, tick, draining,
                 mishaps>>

\* A transaction that fails, or whose server dies, leaves nothing behind.
Abort(s) ==
  /\ txn[s].op # "none"
  /\ txn' = [txn EXCEPT ![s] = NoTxn]
  /\ UNCHANGED <<published, approved, retracted, deleted, doomed, rows,
                 handed, tick, draining, mishaps>>

-----------------------------------------------------------------------------
(* Deletions.  A row under decision is locked; no event is revoked.        *)

Erase(S) ==
  /\ \A x \in S : txn[x].op = "none"
  /\ approved' = approved \ S
  /\ retracted' = retracted \ S
  /\ deleted' = deleted \cup S
  /\ UNCHANGED <<published, txn, rows, handed, tick, draining, mishaps>>

FindingsOf(m) == {x \in Items \ (Claims \cup deleted) : MeetingOf[x] = m}

\* A new detection replaces the findings of a meeting, whatever their state;
\* those it writes are other rows.
Redetect(m) ==
  /\ FindingsOf(m) # {}
  /\ Erase(FindingsOf(m))
  /\ UNCHANGED doomed

\* An extraction reads which held claims name nobody it may name ...
Doom(x) ==
  /\ x \notin approved \cup deleted
  /\ doomed' = doomed \cup {x}
  /\ UNCHANGED <<published, approved, retracted, deleted, txn, rows, handed,
                 tick, draining, mishaps>>

\* ... and deletes them by id, whatever has become of them.
Prune(x) ==
  /\ x \in doomed
  /\ Erase({x})
  /\ doomed' = doomed \ {x}

-----------------------------------------------------------------------------
(* The drain.                                                              *)

\* Mutant: a plain SELECT, which does not look at row locks.
WaitingUnlocked == {i \in DOMAIN log : i \notin dispatched \cup revoked}

\* Mutant: the claim without revoked_at IS NULL.
WaitingRevoked == {i \in DOMAIN log : i \notin dispatched \cup Locked}

\* The rows CLAIM_SQL selects: it skips those another tick has locked.
Waiting == {i \in DOMAIN log : i \notin dispatched \cup revoked \cup Locked}

\* The first BatchSize of them, or all.
IsBatch(B) ==
  /\ B \subseteq Waiting
  /\ Cardinality(B) <= BatchSize
  /\ \A i \in Waiting \ B : Cardinality(B) = BatchSize /\ \A j \in B : j < i

Claim(d) ==
  /\ draining
  /\ ~Ticking(d)
  /\ \E B \in SUBSET Waiting :
       /\ B # {}
       /\ IsBatch(B)
       /\ tick' = [tick EXCEPT ![d] = [claimed |-> B, todo |-> B, sent |-> {}]]
  /\ UNCHANGED <<decisions, rows, handed, draining, mishaps>>

\* The event a tick's loop has come to.
Current(d, i) == IsFirst(i, tick[d].todo)

\* dispatch returns: its deliveries are committed on its own connection.
HandOver(d, i) ==
  /\ Current(d, i)
  /\ log[i].subject \notin Poison
  /\ handed' = handed \cup {i}
  /\ tick' = [tick EXCEPT ![d].todo = @ \ {i}, ![d].sent = @ \cup {i}]
  /\ UNCHANGED <<decisions, rows, draining, mishaps>>

\* Mutant: a throw ends the tick's loop.
AfterThrowBreak(d, i) == {}

\* What is left to do after a throw: the rest of the batch.
AfterThrow(d, i) == tick[d].todo \ {i}

\* dispatch throws, perhaps after some channel's delivery was written.
Throw(d, i) ==
  /\ Current(d, i)
  /\ IF log[i].subject \in Poison THEN mishaps' = mishaps
     ELSE mishaps < MaxMishaps /\ mishaps' = mishaps + 1
  /\ handed' \in {handed, handed \cup {i}}
  /\ tick' = [tick EXCEPT ![d].todo = AfterThrow(d, i)]
  /\ UNCHANGED <<decisions, rows, draining>>

\* Mutant: the whole claimed batch is marked.
MarkedClaimed(d) == tick[d].claimed

\* The events a tick marks: those the dispatcher accepted.
Marked(d) == tick[d].sent

Commit(d) ==
  /\ Ticking(d)
  /\ tick[d].todo = {}
  /\ dispatched' = dispatched \cup Marked(d)
  /\ tick' = [tick EXCEPT ![d] = NoTick]
  /\ UNCHANGED <<decisions, log, revoked, recalled, handed, draining, mishaps>>

\* The server dies or a statement fails: the locks go, the marks with them.
Rollback(d) ==
  /\ Ticking(d)
  /\ mishaps < MaxMishaps
  /\ mishaps' = mishaps + 1
  /\ tick' = [tick EXCEPT ![d] = NoTick]
  /\ UNCHANGED <<decisions, rows, handed, draining>>

\* An operator turns the event_drain feature on or off; an open tick goes on.
Toggle ==
  /\ draining' = ~draining
  /\ UNCHANGED <<decisions, rows, handed, tick, mishaps>>

-----------------------------------------------------------------------------
Decide ==
  \/ \E m \in Meetings : Publish(m)
  \/ \E x \in Items : BeginApprove(x) \/ CommitApprove(x)
  \/ \E s \in Subjects : BeginWithdraw(s) \/ CommitWithdraw(s) \/ Abort(s)

Delete ==
  \/ \E m \in Meetings : Redetect(m)
  \/ \E x \in Claims : Doom(x) \/ Prune(x)

Next ==
  \/ Decide
  \/ Delete
  \/ Toggle
  \/ \E d \in Drains :
       \/ Claim(d)
       \/ \E i \in tick[d].todo : HandOver(d, i) \/ Throw(d, i)
       \/ Commit(d)
       \/ Rollback(d)

\* One step of an open tick: its loop body, or the mark and commit.
Proceed(d) ==
  \/ \E i \in tick[d].todo : HandOver(d, i) \/ Throw(d, i)
  \/ Commit(d)

\* The interval fires for ever and a tick runs to its end.
Fairness == \A d \in Drains : WF_vars(Claim(d)) /\ WF_vars(Proceed(d))

Spec == Init /\ [][Next]_vars
FairSpec == Spec /\ Fairness

-----------------------------------------------------------------------------
(* Safety.                                                                 *)

\* Row locks partition the log: no two servers' ticks hold the same event
\* (claimBatch's FOR UPDATE SKIP LOCKED).
OneDrainPerEvent ==
  \A d, e \in Drains : d # e => tick[d].claimed \cap tick[e].claimed = {}

\* dispatched_at is never set on an event the dispatcher has not accepted, in
\* spite of throws and rollbacks in mid batch (tick dispatches, then marks).
MarkedWasHanded == dispatched \subseteq handed

\* Once a revocation has committed, no tick hands its event over any more,
\* not even one that was open meanwhile (retractSubject's real recall).
RevokedStaysHome == [][(handed' \ handed) \cap revoked = {}]_vars

\* A retraction answers an earlier event of the same subject, which has been
\* dispatched and revoked, so it never overtakes its publication.
RetractionFollows ==
  \A i \in DOMAIN log : log[i].type = "retracted" =>
    /\ log[i].about < i
    /\ log[i].about \in dispatched \cap revoked
    /\ log[log[i].about].subject = log[i].subject

\* An unrevoked announcement is of a meeting that is published, of an item that
\* is approved and not retracted, or of an item a detection or extraction has
\* deleted since: no withdrawal leaves one standing, although drains, decisions
\* and deletions meet at the same rows (publish, approve, retractSubject).
AnnouncementsStand ==
  \A i \in DOMAIN log :
    log[i].type = "published" /\ i \notin revoked =>
      Decided(log[i].subject) \/ log[i].subject \in deleted

\* What events/index.ts says of the log: an announcement is written only of
\* something that is public, its meeting included.
EmittedIsPublic ==
  [][\A s \in Subjects : \A i \in DOMAIN log' \ DOMAIN log :
       log'[i] = Announcement(s) => Public(s)']_vars

\* The next three do not hold, and stand in no run; README.md tells how.

\* What it promises a consumer: an announcement it is handed is of something
\* a reader may see at that moment.
HandedIsPublic ==
  [][\A i \in handed' \ handed :
       log[i].type = "published" => Public(log[i].subject)]_vars

\* An event reported as recalled was never handed to a dispatcher
\* (retractSubject: "it never sends. That is a real recall").
RecallIsReal == recalled \cap handed = {}

\* A published meeting has an announcement that stands (announcePublished).
PublishedIsAnnounced ==
  \A m \in published : \E i \in DOMAIN log \ revoked : log[i] = Announcement(m)

-----------------------------------------------------------------------------
(* Liveness.                                                               *)

\* With the feature left on, every event whose dispatch does not always throw
\* is dispatched or revoked; a bad one ahead of it does not hold it up.
Leaves(i) == i \in DOMAIN log /\ log[i].subject \notin Poison
               ~> i \in dispatched \cup revoked

EveryEventLeaves == <>[]draining => \A i \in 1..MaxEvents : Leaves(i)
=============================================================================
