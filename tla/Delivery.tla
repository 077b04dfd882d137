------------------------------ MODULE Delivery ------------------------------
(***************************************************************************)
(* The delivery dispatcher (backend/src/services/delivery/dispatcher.ts)   *)
(* under the drain of EventLog.  dispatch writes one `deliveries` row per  *)
(* routed channel, unique on (channel, dedupe key), and puts the new rows  *)
(* in a batch that lives in the server's memory; a timer later posts the   *)
(* batch as one message, which the Discord client repeats when no good     *)
(* answer comes.  Every step of EventLog is kept: this module says what    *)
(* dispatch, a post, a failing statement and the death of a server do to   *)
(* deliveries and batches.                                                 *)
(***************************************************************************)
EXTENDS EventLog

CONSTANTS
  Channels,    \* delivery_channels a route resolves to
  Digest,      \* those whose route holds for a digest (cadence # immediate)
  ClientTries, \* DiscordClient.maxAttempts
  MaxTroubles  \* bound: deaths of a server process, messages given up as
               \* failed and flushes that end in a database error

ASSUME DeliveryConstants ==
  /\ Digest \subseteq Channels
  /\ ClientTries \in Nat \ {0}
  /\ MaxTroubles \in Nat

VARIABLES
  deliveries,  \* <<channel, position>>: the rows that exist
  sent,        \* rows with status sent
  refused,     \* rows whose message failed: attempts > 0, or status failed
  batches,     \* batches[d][c]: d's batches for c, in the order of their timers
  posting,     \* posting[d]: d's message under way, if any
  posted,      \* posted[c]: the messages made for c, each a set of events
  dropped,     \* rows left pending when their batch or message was dropped
  troubles     \* how many of those so far

deliveryVars == <<deliveries, sent, refused, batches, posting, posted, dropped,
                  troubles>>
allVars == <<vars, deliveryVars>>

Row == Channels \X DOMAIN log
EventType == {"published", "retracted"}
Batch == [type : EventType, events : SUBSET Nat]

\* tries: requests made; taken: the channel has taken the last of them.
Post == [channel : Channels, events : SUBSET Nat, tries : Nat, taken : BOOLEAN]

DeliveryTypeOK ==
  /\ deliveries \subseteq Row
  /\ sent \subseteq deliveries
  /\ refused \subseteq deliveries
  /\ batches \in [Drains -> [Channels -> Seq(Batch)]]
  /\ posting \in [Drains -> SUBSET Post]
  /\ posted \in [Channels -> Seq(SUBSET DOMAIN log)]
  /\ dropped \subseteq Channels \X Nat
  /\ troubles \in 0..MaxTroubles

NoBatches == [c \in Channels |-> << >>]

Trouble == troubles < MaxTroubles /\ troubles' = troubles + 1

DeliveryInit ==
  /\ Init
  /\ deliveries = {} /\ sent = {} /\ refused = {}
  /\ batches = [d \in Drains |-> NoBatches]
  /\ posting = [d \in Drains |-> {}]
  /\ posted = [c \in Channels |-> << >>]
  /\ dropped = {}
  /\ troubles = 0

-----------------------------------------------------------------------------
(* dispatch.                                                               *)

\* An event joins the open batch of its type, or opens one and arms a timer.
Enqueue(queue, i) ==
  IF \E k \in DOMAIN queue : queue[k].type = log[i].type
  THEN [k \in DOMAIN queue |-> IF queue[k].type = log[i].type
          THEN [type |-> log[i].type, events |-> queue[k].events \cup {i}] ELSE queue[k]]
  ELSE Append(queue, [type |-> log[i].type, events |-> {i}])

\* Mutant: no unique index on (channel, dedupe key).
InsertsAlways(c, i) == TRUE

\* Mutant: an event that has any delivery is taken for a duplicate.
InsertsFresh(c, i) == i \notin handed

\* Whether the insert, on conflict do nothing, creates the row.
Inserts(c, i) == <<c, i>> \notin deliveries

\* Write the rows of these channels; a row of an immediate route is batched,
\* one held for a digest is deferred and nothing in the code takes it up.
WriteRows(d, i, C) ==
  /\ deliveries' = deliveries \cup (C \X {i})
  /\ batches' = [batches EXCEPT ![d] = [c \in Channels |->
       IF c \in C \ Digest /\ Inserts(c, i) THEN Enqueue(@[c], i) ELSE @[c]]]
  /\ UNCHANGED <<sent, refused, posting, posted, dropped, troubles>>

\* dispatch goes through every resolved channel.
DispatchEvent(d, i) == HandOver(d, i) /\ WriteRows(d, i, Channels)

\* dispatch throws between two channels: the rows written before it stay.
DispatchThrows(d, i) ==
  /\ Throw(d, i)
  /\ \E C \in SUBSET Channels :
       /\ handed' = handed \cup {n \in {i} : C # {}}
       /\ WriteRows(d, i, C)

-----------------------------------------------------------------------------
(* The batch timers.                                                       *)

\* sendBatch reads the rows of the batch that are still pending.
Sendable(c, batch) == {i \in batch.events : <<c, i>> \notin sent \cup refused}

\* Timers of one window fire in the order they were armed, and a server's
\* flushes go one after another: each takes its batch out of the memory first.
TakeBatch(d, c) ==
  /\ batches[d][c] # << >>
  /\ posting[d] = {}
  /\ batches' = [batches EXCEPT ![d][c] = Tail(@)]
  /\ UNCHANGED <<vars, deliveries, sent>>

Message(d, c) == Sendable(c, Head(batches[d][c]))

\* The pending rows go out as one message, and stay pending until its outcome
\* is known.
Flush(d, c) ==
  /\ TakeBatch(d, c)
  /\ IF Message(d, c) = {} THEN UNCHANGED <<posting, posted>>
     ELSE /\ posting' = [posting EXCEPT ![d] = {[channel |-> c, events |-> Message(d, c),
                                                tries |-> 1, taken |-> FALSE]}]
          /\ posted' = [posted EXCEPT ![c] = Append(@, Message(d, c))]
  /\ UNCHANGED <<refused, dropped, troubles>>

\* The channel's configuration cannot be read: its rows are failed for good.
Unsendable(d, c) ==
  /\ TakeBatch(d, c)
  /\ Trouble
  /\ refused' = refused \cup ({c} \X Message(d, c))
  /\ UNCHANGED <<posting, posted, dropped>>

\* A statement of sendBatch fails: the timer logs the error, and the rows stay
\* pending in no memory.
FlushFails(d, c) ==
  /\ TakeBatch(d, c)
  /\ Trouble
  /\ dropped' = dropped \cup ({c} \X Message(d, c))
  /\ UNCHANGED <<refused, posting, posted>>

\* A request in some state of its loop becomes one in another.
Onward(d, post, next) ==
  /\ posting' = [posting EXCEPT ![d] = (@ \ {post}) \cup {next}]
  /\ UNCHANGED <<vars, deliveries, sent, refused, batches, posted, dropped, troubles>>

\* The channel takes the request, whether or not its answer will arrive.
Take(d, post) ==
  /\ ~post.taken
  /\ Onward(d, post, [post EXCEPT !.taken = TRUE])

\* No answer in time, a network error, a 429 or a 5xx: the same message again.
Repeat(d, post) ==
  /\ post.tries < ClientTries
  /\ Onward(d, post, [post EXCEPT !.tries = @ + 1, !.taken = FALSE])

Answered(d, post) ==
  /\ posting' = [posting EXCEPT ![d] = @ \ {post}]
  /\ UNCHANGED <<vars, deliveries, batches, posted>>

\* A good answer: the message's rows are sent.
Accepted(d, post) ==
  /\ post.taken
  /\ Answered(d, post)
  /\ sent' = sent \cup ({post.channel} \X post.events)
  /\ UNCHANGED <<refused, dropped, troubles>>

\* A final refusal, the last try gone, or a good answer whose update failed: a
\* retryable row gets a next_attempt_at, but nothing in the code calls
\* retryPending.
Refused(d, post) ==
  /\ Answered(d, post)
  /\ Trouble
  /\ refused' = refused \cup ({post.channel} \X post.events)
  /\ UNCHANGED <<sent, dropped>>

\* recordFailure itself fails after some of the rows.
Unrecorded(d, post) ==
  /\ Answered(d, post)
  /\ Trouble
  /\ \E done \in SUBSET post.events :
       /\ refused' = refused \cup ({post.channel} \X done)
       /\ dropped' = dropped \cup ({post.channel} \X (post.events \ done))
  /\ UNCHANGED sent

\* What server d alone knows to be pending.
InMemory(d, c, i) ==
  \/ \E k \in DOMAIN batches[d][c] : i \in batches[d][c][k].events
  \/ \E post \in posting[d] : post.channel = c /\ i \in post.events

\* The server dies and another takes its place: the tick it had open is rolled
\* back, and the batches and the message in its memory are gone.
Die(d) ==
  /\ Trouble
  /\ batches' = [batches EXCEPT ![d] = NoBatches]
  /\ posting' = [posting EXCEPT ![d] = {}]
  /\ dropped' = dropped \cup {row \in Row : InMemory(d, row[1], row[2])}
  /\ IF Ticking(d) THEN Rollback(d) ELSE UNCHANGED vars
  /\ UNCHANGED <<deliveries, sent, refused, posted>>

-----------------------------------------------------------------------------
\* The steps of the log that touch no delivery.
LogOnly ==
  /\ \/ Decide
     \/ Delete
     \/ Toggle
     \/ \E d \in Drains : Claim(d) \/ Commit(d) \/ Rollback(d)
  /\ UNCHANGED deliveryVars

Tell(d, post) == Take(d, post) \/ Repeat(d, post) \/ Accepted(d, post) \/ Refused(d, post)

DeliveryNext ==
  \/ LogOnly
  \/ \E d \in Drains :
       \/ \E i \in tick[d].todo : DispatchEvent(d, i) \/ DispatchThrows(d, i)
       \/ \E c \in Channels : Flush(d, c) \/ Unsendable(d, c) \/ FlushFails(d, c)
       \/ \E post \in posting[d] : Tell(d, post) \/ Unrecorded(d, post)
       \/ Die(d)

DeliverySpec == DeliveryInit /\ [][DeliveryNext]_allVars

\* Ticks start and proceed, armed timers fire, and a post comes to an end.
DeliveryProceed(d) ==
  \/ \E i \in tick[d].todo : DispatchEvent(d, i) \/ DispatchThrows(d, i)
  \/ Commit(d) /\ UNCHANGED deliveryVars

DeliveryFairness ==
  \A d \in Drains :
    /\ WF_allVars(Claim(d) /\ UNCHANGED deliveryVars)
    /\ WF_allVars(DeliveryProceed(d))
    /\ \A c \in Channels : WF_allVars(Flush(d, c))
    /\ WF_allVars(\E post \in posting[d] : Tell(d, post))

DeliveryFairSpec == DeliverySpec /\ DeliveryFairness

-----------------------------------------------------------------------------
\* No event goes to a channel in two messages, whatever is dispatched again
\* after a throw, a rollback or a crash, and however long a flush takes (the
\* unique index of deliveries and the status sendBatch asks for).  The client
\* may request one message several times, and the channel show each of them.
NoNoticeTwice ==
  \A c \in Channels : \A m, n \in DOMAIN posted[c] :
    m # n => posted[c][m] \cap posted[c][n] = {}

\* A dispatched event is sent to each immediate channel, refused by it, in the
\* memory of some server, or was dropped with a server's memory or by a flush
\* that failed: a throw, a rollback or a second dispatch loses nothing.
Reaches(i, c) ==
  \/ <<c, i>> \in sent \cup refused
  \/ \E d \in Drains : InMemory(d, c, i)

NothingStranded ==
  \A i \in dispatched, c \in Channels \ Digest :
    Reaches(i, c) \/ <<c, i>> \in dropped

\* What drain.ts says of a process that dies between dispatch and mark: the
\* event is dispatched again, so when it is marked it is on its way.
MarkedReaches ==
  [][\A i \in dispatched' \ dispatched, c \in Channels \ Digest : Reaches(i, c)']_allVars

\* With the drain left on, each event is revoked, or is sent to, refused by or
\* dropped for every immediate channel, through deaths and failing statements.
Settled(i) == \A c \in Channels \ Digest : <<c, i>> \in sent \cup refused \cup dropped

EveryNoticeSettles ==
  <>[]draining => \A i \in 1..MaxEvents :
    i \in DOMAIN log /\ log[i].subject \notin Poison
      ~> i \in revoked \/ Settled(i)
=============================================================================
