--------------------------- MODULE DeliveryProofs ---------------------------
(***************************************************************************)
(* Delivery, which runs beside the event log: it takes only steps of the   *)
(* log's, so the invariants of EventLogProofs hold of it, and from them no *)
(* event goes into two messages and none that was marked is stranded but   *)
(* those a dead server or a failing flush dropped.                         *)
(***************************************************************************)
EXTENDS Delivery, EventLogProofs, SequenceTheorems

\* Every step of the dispatcher is a step of the event log's, or leaves the log
\* alone.
LEMMA DeliveryStepsLog == [DeliveryNext]_allVars => [Next]_vars
<1> SUFFICES ASSUME [DeliveryNext]_allVars PROVE [Next]_vars
  OBVIOUS
<1>1. CASE LogOnly
  BY <1>1 DEF LogOnly, Next
<1>2. ASSUME NEW d \in Drains, NEW i \in tick[d].todo, DispatchEvent(d, i) \/ DispatchThrows(d, i)
      PROVE  Next
  BY <1>2 DEF DispatchEvent, DispatchThrows, Next
<1>3. ASSUME NEW d \in Drains, NEW c \in Channels,
             Flush(d, c) \/ Unsendable(d, c) \/ FlushFails(d, c)
      PROVE  UNCHANGED vars
  BY <1>3 DEF Flush, Unsendable, FlushFails, TakeBatch
<1>4. ASSUME NEW d \in Drains, NEW post \in posting[d], Tell(d, post) \/ Unrecorded(d, post)
      PROVE  UNCHANGED vars
  BY <1>4 DEF Tell, Take, Repeat, Onward, Accepted, Refused, Unrecorded, Answered
<1>5. ASSUME NEW d \in Drains, Die(d) PROVE [Next]_vars
  BY <1>5 DEF Die, Next
<1>6. CASE UNCHANGED allVars
  BY <1>6 DEF allVars
<1> QED BY <1>1, <1>2, <1>3, <1>4, <1>5, <1>6 DEF DeliveryNext

\* Delivery runs the event log: whatever is proved of the log under its own
\* specification holds while notices are batched, posted and lost
\* (dispatcher.ts, drain.ts).
THEOREM DeliveryKeepsTheLog == DeliverySpec => Spec
BY DeliveryStepsLog, PTL DEF DeliverySpec, DeliveryInit, Spec

-----------------------------------------------------------------------------
\* No two batches of a queue are of one type.
Sorted(queue) == \A k, l \in DOMAIN queue : queue[k].type = queue[l].type => k = l

\* An event joins the batch of its type or opens one, and no other batch
\* changes.
LEMMA EnqueueFacts ==
  ASSUME log \in Seq(Event), NEW i \in DOMAIN log,
         NEW queue \in Seq(Batch), Sorted(queue)
  PROVE  LET new == Enqueue(queue, i) IN
         /\ new \in Seq(Batch) /\ Sorted(new)
         /\ DOMAIN queue \subseteq DOMAIN new
         /\ \E k \in DOMAIN new :
              /\ new[k].events = {i} \cup (IF k \in DOMAIN queue THEN queue[k].events ELSE {})
              /\ \A l \in DOMAIN new \ {k} :
                   l \in DOMAIN queue /\ new[l].events = queue[l].events
<1> DEFINE new == Enqueue(queue, i)
<1>0. i \in Nat /\ log[i].type \in EventType
  <2>1. log[i] \in Event /\ i \in Nat
    OBVIOUS
  <2> QED BY <2>1 DEF Event, EventType
<1>1. ASSUME NEW k \in DOMAIN queue, queue[k].type = log[i].type
      PROVE  /\ new \in Seq(Batch) /\ Sorted(new) /\ DOMAIN new = DOMAIN queue
             /\ new[k].events = {i} \cup queue[k].events
             /\ \A l \in DOMAIN new \ {k} : new[l].events = queue[l].events
  <2>1. new = [l \in DOMAIN queue |-> IF queue[l].type = log[i].type
                THEN [type |-> log[i].type, events |-> queue[l].events \cup {i}] ELSE queue[l]]
    BY <1>1 DEF Enqueue
  <2>2. \A l \in DOMAIN queue : l # k => queue[l].type # log[i].type
    BY <1>1 DEF Sorted
  <2>3. /\ \A l \in DOMAIN queue : new[l] \in Batch /\ new[l].type = queue[l].type
        /\ new[k].events = {i} \cup queue[k].events
        /\ \A l \in DOMAIN queue \ {k} : new[l].events = queue[l].events
    <3>1. new[k] = [type |-> log[i].type, events |-> queue[k].events \cup {i}]
      BY <1>1, <2>1
    <3>2. \A l \in DOMAIN queue \ {k} : new[l] = queue[l]
      BY <2>1, <2>2
    <3>3. \A l \in DOMAIN queue : queue[l] \in Batch
      OBVIOUS
    <3>4. new[k] \in Batch
      BY <1>0, <1>1, <3>1, <3>3 DEF Batch
    <3> QED BY <1>1, <3>1, <3>2, <3>3, <3>4
  <2>4. Len(queue) \in Nat /\ DOMAIN new = 1..Len(queue) /\ DOMAIN queue = 1..Len(queue)
    BY <2>1
  <2>5. new \in [1..Len(queue) -> Batch]
    BY <2>1, <2>3, <2>4
  <2>6. new \in Seq(Batch)
    BY <2>4, <2>5, SeqDef
  <2>7. Sorted(new)
    BY <2>3, <2>4 DEF Sorted
  <2> QED BY <2>3, <2>4, <2>6, <2>7
<1>2. CASE ~\E k \in DOMAIN queue : queue[k].type = log[i].type
  <2> DEFINE b == [type |-> log[i].type, events |-> {i}]  n == Len(queue)
  <2>1. new = Append(queue, b)
    BY <1>2 DEF Enqueue
  <2>2. b \in Batch
    BY <1>0 DEF Batch
  <2>3. /\ new \in Seq(Batch) /\ n \in Nat
        /\ DOMAIN new = 1..(n + 1) /\ DOMAIN queue = 1..n
        /\ new[n + 1] = b /\ \A l \in 1..n : new[l] = queue[l]
    BY <2>1, <2>2
  <2>4. Sorted(new)
    BY <1>2, <2>3 DEF Sorted
  <2>5. new[n + 1].events = {i} /\ n + 1 \notin DOMAIN queue
    BY <2>3
  <2> QED BY <2>3, <2>4, <2>5
<1> QED BY <1>1, <1>2

-----------------------------------------------------------------------------
\* Every queue holds one batch of a type.
QueuesSorted == \A d \in Drains, c \in Channels : Sorted(batches[d][c])

\* An event has joined the k-th batch of a queue, and no other.
Joins(old, new, i, k) ==
  \A l \in DOMAIN new : \A j \in new[l].events :
    (l \in DOMAIN old /\ j \in old[l].events) \/ (l = k /\ j = i)

\* What dispatch leaves of a server's queue for a channel: as it was, or with
\* the event, which had no row there, in one of its batches.
LEMMA WriteRowsFacts ==
  ASSUME TypeOK, DeliveryTypeOK, QueuesSorted,
         NEW d \in Drains, NEW i \in DOMAIN log, NEW C \in SUBSET Channels, WriteRows(d, i, C)
  PROVE  /\ batches' \in [Drains -> [Channels -> Seq(Batch)]]
         /\ QueuesSorted'
         /\ \A e \in Drains \ {d} : batches'[e] = batches[e]
         /\ \A c \in Channels :
              /\ DOMAIN batches[d][c] \subseteq DOMAIN batches'[d][c]
              /\ \A k \in DOMAIN batches[d][c] :
                   batches[d][c][k].events \subseteq batches'[d][c][k].events
              /\ c \in C \ Digest /\ <<c, i>> \notin deliveries =>
                   \E k \in DOMAIN batches'[d][c] : i \in batches'[d][c][k].events
         /\ \A c \in Channels :
              \/ batches'[d][c] = batches[d][c]
              \/ /\ c \in C /\ <<c, i>> \notin deliveries
                 /\ \E k \in Nat : Joins(batches[d][c], batches'[d][c], i, k)
<1> DEFINE q(c) == batches[d][c]  new(c) == Enqueue(batches[d][c], i)
           Fresh(c) == c \in C \ Digest /\ <<c, i>> \notin deliveries
<1>1. \A c \in Channels : q(c) \in Seq(Batch) /\ Sorted(q(c))
  BY DEF DeliveryTypeOK, QueuesSorted
<1>2. /\ \A e \in Drains \ {d} : batches'[e] = batches[e]
      /\ batches'[d] = [c \in Channels |-> IF Fresh(c) THEN new(c) ELSE q(c)]
      /\ batches' = [batches EXCEPT ![d] = [c \in Channels |-> IF Fresh(c) THEN new(c) ELSE q(c)]]
  BY DEF WriteRows, Inserts, DeliveryTypeOK
<1>3. \A c \in Channels : batches'[d][c] = IF Fresh(c) THEN new(c) ELSE q(c)
  BY <1>2
<1>4. \A c \in Channels : /\ new(c) \in Seq(Batch) /\ Sorted(new(c))
                          /\ DOMAIN q(c) \subseteq DOMAIN new(c)
  <2> TAKE c \in Channels
  <2> QED BY <1>1, EnqueueFacts DEF TypeOK
<1>5. ASSUME NEW c \in Channels
      PROVE  \E k \in DOMAIN new(c) :
               /\ new(c)[k].events = {i} \cup (IF k \in DOMAIN q(c) THEN q(c)[k].events ELSE {})
               /\ \A l \in DOMAIN new(c) \ {k} :
                    l \in DOMAIN q(c) /\ new(c)[l].events = q(c)[l].events
  BY <1>1, EnqueueFacts DEF TypeOK
<1> HIDE DEF q, new, Fresh
<1>6. batches' \in [Drains -> [Channels -> Seq(Batch)]]
  <2>1. [c \in Channels |-> IF Fresh(c) THEN new(c) ELSE q(c)] \in [Channels -> Seq(Batch)]
    BY <1>1, <1>4
  <2> QED BY <1>2, <2>1 DEF DeliveryTypeOK
<1>7. QueuesSorted'
  <2>1. \A c \in Channels : Sorted(batches'[d][c])
    BY <1>1, <1>3, <1>4
  <2>2. \A e \in Drains \ {d} : \A c \in Channels : Sorted(batches'[e][c])
    BY <1>2 DEF QueuesSorted
  <2> QED BY <2>1, <2>2 DEF QueuesSorted, Sorted
<1>8. ASSUME NEW c \in Channels
      PROVE  /\ DOMAIN q(c) \subseteq DOMAIN batches'[d][c]
             /\ \A k \in DOMAIN q(c) : q(c)[k].events \subseteq batches'[d][c][k].events
             /\ Fresh(c) => \E k \in DOMAIN batches'[d][c] : i \in batches'[d][c][k].events
             /\ \/ batches'[d][c] = q(c)
                \/ Fresh(c) /\ \E k \in Nat : Joins(q(c), batches'[d][c], i, k)
  <2>1. CASE ~Fresh(c)
    BY <1>3, <2>1
  <2>2. CASE Fresh(c)
    <3>1. batches'[d][c] = new(c)
      BY <1>3, <2>2
    <3>2. PICK k \in DOMAIN new(c) :
               /\ new(c)[k].events = {i} \cup (IF k \in DOMAIN q(c) THEN q(c)[k].events ELSE {})
               /\ \A l \in DOMAIN new(c) \ {k} :
                    l \in DOMAIN q(c) /\ new(c)[l].events = q(c)[l].events
      BY <1>5
    <3>3. DOMAIN q(c) \subseteq DOMAIN new(c) /\ k \in Nat
      BY <1>4
    <3>4. \A l \in DOMAIN q(c) : q(c)[l].events \subseteq new(c)[l].events
      BY <3>2, <3>3
    <3>5. Joins(q(c), new(c), i, k)
      BY <3>2 DEF Joins
    <3> QED BY <2>2, <3>1, <3>2, <3>3, <3>4, <3>5
  <2> QED BY <2>1, <2>2
<1>9. ASSUME NEW c \in Channels
      PROVE  /\ DOMAIN batches[d][c] \subseteq DOMAIN batches'[d][c]
             /\ \A k \in DOMAIN batches[d][c] :
                  batches[d][c][k].events \subseteq batches'[d][c][k].events
             /\ c \in C \ Digest /\ <<c, i>> \notin deliveries =>
                  \E k \in DOMAIN batches'[d][c] : i \in batches'[d][c][k].events
             /\ \/ batches'[d][c] = batches[d][c]
                \/ /\ c \in C /\ <<c, i>> \notin deliveries
                   /\ \E k \in Nat : Joins(batches[d][c], batches'[d][c], i, k)
  BY <1>8 DEF q, Fresh
<1> QED BY <1>2, <1>6, <1>7, <1>9

-----------------------------------------------------------------------------
\* What is batched, under way or posted has its row.
Known ==
  /\ \A d \in Drains, c \in Channels : \A k \in DOMAIN batches[d][c] :
       \A j \in batches[d][c][k].events : <<c, j>> \in deliveries
  /\ \A d \in Drains : \A post \in posting[d] : \A j \in post.events :
       <<post.channel, j>> \in deliveries
  /\ \A c \in Channels : \A n \in DOMAIN posted[c] : \A j \in posted[c][n] :
       <<c, j>> \in deliveries

\* A step keeps the rows of the log there are, and the log's types.
LEMMA LogKept == IInv /\ [Next]_vars => DOMAIN log \subseteq DOMAIN log' /\ TypeOK /\ TypeOK'
<1> SUFFICES ASSUME IInv, [Next]_vars PROVE DOMAIN log \subseteq DOMAIN log' /\ TypeOK /\ TypeOK'
  OBVIOUS
<1>0. TypeOK /\ TxnInv /\ TypeOK'
  BY TypeStep DEF IInv
<1>1. CASE log' = log
  BY <1>0, <1>1
<1>5. CASE Delete
  BY <1>0, <1>5, DeletionFrame DEF rows
<1>2. ASSUME NEW m \in Meetings, Publish(m) PROVE DOMAIN log \subseteq DOMAIN log'
  BY <1>0, <1>2, PublishGrows DEF Grows
<1>3. ASSUME NEW x \in Items, CommitApprove(x) PROVE DOMAIN log \subseteq DOMAIN log'
  BY <1>0, <1>3, ApproveGrows DEF Grows
<1>4. ASSUME NEW s \in Subjects, CommitWithdraw(s) PROVE DOMAIN log \subseteq DOMAIN log'
  BY <1>0, <1>4, WithdrawGrows DEF Grows
<1> QED BY <1>0, <1>1, <1>2, <1>3, <1>4, <1>5
        DEF Next, Decide, BeginApprove, BeginWithdraw, Abort, Toggle, Claim, HandOver, Throw, Commit,
            Rollback, rows, vars

\* A step that leaves deliveries, queues and posts alone.
LEMMA TypedFrame ==
  ASSUME DeliveryTypeOK, QueuesSorted, Known, DOMAIN log \subseteq DOMAIN log',
         UNCHANGED deliveryVars
  PROVE  DeliveryTypeOK' /\ QueuesSorted' /\ Known'
<1>1. QueuesSorted' /\ Known'
  BY DEF deliveryVars, QueuesSorted, Sorted, Known
<1>2. \A c \in Channels : posted'[c] \in Seq(SUBSET DOMAIN log')
  <2> TAKE c \in Channels
  <2>1. posted[c] \in Seq(SUBSET DOMAIN log) /\ SUBSET DOMAIN log \subseteq SUBSET DOMAIN log'
    BY DEF DeliveryTypeOK
  <2> QED BY <2>1, SeqMonotonic DEF deliveryVars
<1>3. posted' \in [Channels -> Seq(SUBSET DOMAIN log')]
  BY <1>2 DEF DeliveryTypeOK, deliveryVars
<1>4. Row \subseteq Row'
  BY DEF Row
<1> QED BY <1>1, <1>3, <1>4 DEF DeliveryTypeOK, deliveryVars

\* Writing the rows of an event keeps the types.
LEMMA TypedWrite ==
  ASSUME TypeOK, DeliveryTypeOK, QueuesSorted, Known, log' = log,
         NEW d \in Drains, NEW i \in DOMAIN log, NEW C \in SUBSET Channels, WriteRows(d, i, C)
  PROVE  DeliveryTypeOK' /\ QueuesSorted' /\ Known'
<1>1. /\ deliveries' = deliveries \cup (C \X {i})
      /\ UNCHANGED <<sent, refused, posting, posted, dropped>>
      /\ UNCHANGED troubles
  BY DEF WriteRows
<1>2. /\ batches' \in [Drains -> [Channels -> Seq(Batch)]] /\ QueuesSorted'
      /\ \A e \in Drains \ {d} : batches'[e] = batches[e]
  BY WriteRowsFacts
<1>3. \A c \in Channels :
        \/ batches'[d][c] = batches[d][c]
        \/ /\ c \in C /\ <<c, i>> \notin deliveries
           /\ \E k \in Nat : Joins(batches[d][c], batches'[d][c], i, k)
  BY WriteRowsFacts
<1>4. deliveries' \subseteq Row'
  BY <1>1 DEF DeliveryTypeOK, Row
<1>5. DeliveryTypeOK'
  BY <1>1, <1>2, <1>4 DEF DeliveryTypeOK
<1>6. ASSUME NEW e \in Drains, NEW c \in Channels, NEW k \in DOMAIN batches'[e][c],
             NEW j \in batches'[e][c][k].events
      PROVE  <<c, j>> \in deliveries'
  <2>1. CASE e = d
    <3>1. CASE batches'[d][c] = batches[d][c]
      BY <1>1, <1>6, <2>1, <3>1 DEF Known
    <3>2. ASSUME NEW n \in Nat, c \in C, Joins(batches[d][c], batches'[d][c], i, n)
          PROVE  <<c, j>> \in deliveries'
      BY <1>1, <1>6, <2>1, <3>2 DEF Known, Joins
    <3> QED BY <1>3, <3>1, <3>2
  <2>2. CASE e # d
    BY <1>1, <1>2, <2>2 DEF Known
  <2> QED BY <2>1, <2>2
<1>7. Known'
  BY <1>1, <1>6 DEF Known
<1> QED BY <1>2, <1>5, <1>7

\* What is left of a queue whose first batch is taken out, and what is in it.
LEMMA TakenFacts ==
  ASSUME TypeOK, DeliveryTypeOK, QueuesSorted, Known,
         NEW d \in Drains, NEW c \in Channels, TakeBatch(d, c)
  PROVE  /\ batches' \in [Drains -> [Channels -> Seq(Batch)]]
         /\ QueuesSorted'
         /\ 1 \in DOMAIN batches[d][c]
         /\ \A e \in Drains, x \in Channels : e # d \/ x # c => batches'[e][x] = batches[e][x]
         /\ \A k \in DOMAIN batches'[d][c] :
              /\ k \in Nat \ {0} /\ k + 1 \in DOMAIN batches[d][c]
              /\ batches'[d][c][k] = batches[d][c][k + 1]
         /\ \A k \in DOMAIN batches[d][c] : k # 1 =>
              k - 1 \in DOMAIN batches'[d][c] /\ batches'[d][c][k - 1] = batches[d][c][k]
         /\ Message(d, c) \subseteq batches[d][c][1].events
         /\ \A j \in batches[d][c][1].events \ Message(d, c) : <<c, j>> \in sent \cup refused
         /\ \A j \in Message(d, c) : j \in DOMAIN log /\ j \in Nat /\ <<c, j>> \in deliveries
<1> DEFINE q == batches[d][c]
<1>1. /\ q \in Seq(Batch) /\ q # << >> /\ Head(q) = q[1] /\ 1 \in DOMAIN q
      /\ Tail(q) \in Seq(Batch)
      /\ \A k \in DOMAIN Tail(q) : k \in Nat \ {0} /\ k + 1 \in DOMAIN q /\ Tail(q)[k] = q[k + 1]
      /\ \A k \in DOMAIN q : k # 1 => k - 1 \in DOMAIN Tail(q) /\ Tail(q)[k - 1] = q[k]
  BY DEF TakeBatch, DeliveryTypeOK
<1>2. batches' = [batches EXCEPT ![d][c] = Tail(@)]
  BY DEF TakeBatch
<1>3. batches' \in [Drains -> [Channels -> Seq(Batch)]]
  BY <1>1, <1>2 DEF DeliveryTypeOK
<1>4. /\ batches'[d][c] = Tail(q)
      /\ \A e \in Drains, x \in Channels : e # d \/ x # c => batches'[e][x] = batches[e][x]
  BY <1>2 DEF DeliveryTypeOK
<1>5. QueuesSorted'
  <2>1. Sorted(Tail(q))
    <3>1. Sorted(q)
      BY DEF QueuesSorted
    <3>2. ASSUME NEW k \in DOMAIN Tail(q), NEW l \in DOMAIN Tail(q), Tail(q)[k].type = Tail(q)[l].type
          PROVE  k = l
      <4>1. k + 1 = l + 1
        BY <1>1, <3>1, <3>2 DEF Sorted
      <4> QED BY <1>1, <4>1
    <3> QED BY <3>2 DEF Sorted
  <2>2. ASSUME NEW e \in Drains, NEW x \in Channels PROVE Sorted(batches'[e][x])
    BY <1>4, <2>1 DEF QueuesSorted
  <2> QED BY <2>2 DEF QueuesSorted
<1>6. /\ Message(d, c) \subseteq q[1].events
      /\ \A j \in q[1].events \ Message(d, c) : <<c, j>> \in sent \cup refused
  BY <1>1 DEF Message, Sendable
<1>7. ASSUME NEW j \in Message(d, c)
      PROVE  j \in DOMAIN log /\ j \in Nat /\ <<c, j>> \in deliveries
  <2>1. <<c, j>> \in deliveries
    BY <1>1, <1>6, <1>7 DEF Known
  <2>2. j \in DOMAIN log
    BY <2>1 DEF DeliveryTypeOK, Row
  <2> QED BY <2>1, <2>2 DEF TypeOK
<1> QED BY <1>1, <1>3, <1>4, <1>5, <1>6, <1>7

\* The steps that take a batch out of a server's memory.
Flushes(d, c) == Flush(d, c) \/ Unsendable(d, c) \/ FlushFails(d, c)

\* The message a flush makes, with its first request under way.
First(d, c) == [channel |-> c, events |-> Message(d, c), tries |-> 1, taken |-> FALSE]

\* What a flush does besides taking its batch.
LEMMA FlushFacts ==
  ASSUME DeliveryTypeOK, NEW d \in Drains, NEW c \in Channels, Flushes(d, c)
  PROVE  /\ TakeBatch(d, c)
         /\ UNCHANGED <<log, deliveries, sent>>
         /\ \/ UNCHANGED <<posting, posted>>
            \/ /\ posting' = [posting EXCEPT ![d] = {First(d, c)}]
               /\ posted' = [posted EXCEPT ![c] = Append(@, Message(d, c))]
         /\ \A x \in Channels :
              posted'[x] = posted[x] \/ (x = c /\ posted'[x] = Append(posted[x], Message(d, c)))
         /\ \/ Message(d, c) = {}
            \/ First(d, c) \in posting'[d]
            \/ {c} \X Message(d, c) \subseteq refused'
            \/ {c} \X Message(d, c) \subseteq dropped'
         /\ \A e \in Drains : posting[e] \subseteq posting'[e]
         /\ refused' = refused \/ refused' = refused \cup ({c} \X Message(d, c))
         /\ dropped' = dropped \/ dropped' = dropped \cup ({c} \X Message(d, c))
         /\ troubles' \in 0..MaxTroubles
<1>0. /\ posting \in [Drains -> SUBSET Post] /\ posted \in [Channels -> Seq(SUBSET DOMAIN log)]
      /\ troubles \in 0..MaxTroubles
  BY DEF DeliveryTypeOK
<1>1. TakeBatch(d, c) /\ posting[d] = {}
  BY DEF Flushes, Flush, Unsendable, FlushFails, TakeBatch
<1>2. UNCHANGED <<log, deliveries, sent>>
  BY <1>1 DEF TakeBatch, vars, rows
<1> DEFINE M == Message(d, c)  R == {c} \X M
           Quiet == UNCHANGED <<posting, posted>>
           Posts == /\ posting' = [posting EXCEPT ![d] = {First(d, c)}]
                    /\ posted' = [posted EXCEPT ![c] = Append(@, M)]
           Fails == refused' = refused \cup R /\ Trouble
           Drops == dropped' = dropped \cup R /\ Trouble
<1>3. \/ M = {} /\ Quiet /\ UNCHANGED <<refused, dropped, troubles>>
      \/ Posts /\ UNCHANGED <<refused, dropped, troubles>>
      \/ Fails /\ Quiet /\ UNCHANGED dropped
      \/ Drops /\ Quiet /\ UNCHANGED refused
  <2>1. CASE Flush(d, c) /\ M = {}
    BY <2>1 DEF Flush
  <2>2. CASE Flush(d, c) /\ M # {}
    BY <2>2 DEF Flush, First
  <2>3. CASE Unsendable(d, c)
    BY <2>3 DEF Unsendable
  <2>4. CASE FlushFails(d, c)
    BY <2>4 DEF FlushFails
  <2> QED BY <2>1, <2>2, <2>3, <2>4 DEF Flushes
<1> HIDE DEF M, R
<1>4. ASSUME Posts  PROVE posting'[d] = {First(d, c)}
  BY <1>0, <1>4 DEF First
<1>5. Quiet \/ Posts
  BY <1>3
<1>6. ASSUME Posts, NEW e \in Drains \ {d}  PROVE posting'[e] = posting[e]
  BY <1>0, <1>6
<1>7. ASSUME Posts, NEW x \in Channels
       PROVE  posted'[x] = IF x = c THEN Append(posted[x], M) ELSE posted[x]
  BY <1>0, <1>7
<1>8. \A x \in Channels : posted'[x] = posted[x] \/ (x = c /\ posted'[x] = Append(posted[x], M))
  BY <1>5, <1>7
<1>9. M = {} \/ First(d, c) \in posting'[d] \/ R \subseteq refused' \/ R \subseteq dropped'
  BY <1>3, <1>4
<1>10. \A e \in Drains : posting[e] \subseteq posting'[e]
  BY <1>1, <1>4, <1>5, <1>6
<1>11. /\ refused' = refused \/ refused' = refused \cup R
       /\ dropped' = dropped \/ dropped' = dropped \cup R
  BY <1>3
<1>12. troubles' \in 0..MaxTroubles
  BY <1>0, <1>3, DeliveryConstants DEF Trouble
<1>13. \/ UNCHANGED <<posting, posted>>
       \/ /\ posting' = [posting EXCEPT ![d] = {First(d, c)}]
          /\ posted' = [posted EXCEPT ![c] = Append(@, Message(d, c))]
  BY <1>5 DEF M
<1>14. \A x \in Channels :
         posted'[x] = posted[x] \/ (x = c /\ posted'[x] = Append(posted[x], Message(d, c)))
  BY <1>8 DEF M
<1>15. /\ \/ Message(d, c) = {}
          \/ First(d, c) \in posting'[d]
          \/ {c} \X Message(d, c) \subseteq refused'
          \/ {c} \X Message(d, c) \subseteq dropped'
       /\ refused' = refused \/ refused' = refused \cup ({c} \X Message(d, c))
       /\ dropped' = dropped \/ dropped' = dropped \cup ({c} \X Message(d, c))
  BY <1>9, <1>11 DEF M, R
<1> HIDE DEF Posts, Quiet
<1> QED BY <1>1, <1>2, <1>10, <1>12, <1>13, <1>14, <1>15

\* Taking a batch out keeps the types, whatever becomes of it.
LEMMA TypedFlush ==
  ASSUME TypeOK, DeliveryTypeOK, QueuesSorted, Known,
         NEW d \in Drains, NEW c \in Channels, Flushes(d, c)
  PROVE  DeliveryTypeOK' /\ QueuesSorted' /\ Known'
<1>1. /\ TakeBatch(d, c) /\ UNCHANGED <<log, deliveries, sent>>
      /\ \/ UNCHANGED <<posting, posted>>
         \/ /\ posting' = [posting EXCEPT ![d] = {First(d, c)}]
            /\ posted' = [posted EXCEPT ![c] = Append(@, Message(d, c))]
  BY FlushFacts
<1>2. /\ batches' \in [Drains -> [Channels -> Seq(Batch)]] /\ QueuesSorted'
      /\ \A j \in Message(d, c) : j \in DOMAIN log /\ j \in Nat /\ <<c, j>> \in deliveries
  BY <1>1, TakenFacts
<1>3. /\ refused' = refused \/ refused' = refused \cup ({c} \X Message(d, c))
      /\ dropped' = dropped \/ dropped' = dropped \cup ({c} \X Message(d, c))
      /\ troubles' \in 0..MaxTroubles
  BY FlushFacts
<1>4. First(d, c) \in Post
  BY <1>2 DEF First, Post
<1> HIDE DEF Message
<1>5. posting' \in [Drains -> SUBSET Post]
  <2>1. {First(d, c)} \in SUBSET Post
    BY <1>4
  <2> QED BY <1>1, <2>1 DEF DeliveryTypeOK
<1>6. posted' \in [Channels -> Seq(SUBSET DOMAIN log')]
  <2>1. posted[c] \in Seq(SUBSET DOMAIN log) /\ Message(d, c) \in SUBSET DOMAIN log
    BY <1>2 DEF DeliveryTypeOK
  <2>2. Append(posted[c], Message(d, c)) \in Seq(SUBSET DOMAIN log)
    BY <2>1
  <2> QED BY <1>1, <2>2 DEF DeliveryTypeOK
<1>7. {c} \X Message(d, c) \subseteq deliveries /\ {c} \X Message(d, c) \subseteq Channels \X Nat
  BY <1>2
<1>8. refused' \subseteq deliveries /\ dropped' \subseteq Channels \X Nat
  BY <1>3, <1>7 DEF DeliveryTypeOK
<1>9. DeliveryTypeOK'
  BY <1>1, <1>2, <1>3, <1>5, <1>6, <1>8 DEF DeliveryTypeOK, Row
<1>10. ASSUME NEW e \in Drains, NEW x \in Channels, NEW k \in DOMAIN batches'[e][x],
              NEW j \in batches'[e][x][k].events
       PROVE  <<x, j>> \in deliveries'
  <2>1. \E l \in DOMAIN batches[e][x] : batches'[e][x][k] = batches[e][x][l]
    <3>1. CASE e = d /\ x = c
      <4>1. k + 1 \in DOMAIN batches[e][x] /\ batches'[e][x][k] = batches[e][x][k + 1]
        BY <1>1, <1>10, <3>1, TakenFacts
      <4> QED BY <4>1
    <3>2. CASE e # d \/ x # c
      <4>1. batches'[e][x] = batches[e][x]
        BY <1>1, <3>2, TakenFacts
      <4> QED BY <1>10, <4>1
    <3> QED BY <3>1, <3>2
  <2> QED BY <1>1, <1>10, <2>1 DEF Known
<1>11. ASSUME NEW e \in Drains, NEW post \in posting'[e], NEW j \in post.events
       PROVE  <<post.channel, j>> \in deliveries'
  <2>1. CASE post \in posting[e]
    BY <1>1, <1>11, <2>1 DEF Known
  <2>2. CASE post = First(d, c)
    <3>1. post.channel = c /\ j \in Message(d, c)
      BY <1>11, <2>2 DEF First
    <3> QED BY <1>1, <1>2, <3>1
  <2>3. posting'[e] \subseteq posting[e] \cup {First(d, c)}
    BY <1>1 DEF DeliveryTypeOK
  <2> QED BY <1>11, <2>1, <2>2, <2>3
<1>12. ASSUME NEW x \in Channels, NEW n \in DOMAIN posted'[x], NEW j \in posted'[x][n]
       PROVE  <<x, j>> \in deliveries'
  <2>1. posted[x] \in Seq(SUBSET DOMAIN log)
    BY DEF DeliveryTypeOK
  <2>2. posted'[x] = posted[x] \/ (x = c /\ posted'[x] = Append(posted[x], Message(d, c)))
    BY FlushFacts
  <2>3. \/ n \in DOMAIN posted[x] /\ posted'[x][n] = posted[x][n]
        \/ x = c /\ posted'[x][n] = Message(d, c)
    BY <2>1, <2>2
  <2> QED BY <1>1, <1>2, <1>12, <2>3 DEF Known
<1>13. Known'
  BY <1>10, <1>11, <1>12 DEF Known
<1> QED BY <1>2, <1>9, <1>13

-----------------------------------------------------------------------------
\* A request repeated or taken is still about its message.
Follows(next, post) == next \in Post /\ next.channel = post.channel /\ next.events = post.events

\* What becomes of a message: another request for it is under way, or its rows
\* are sent, refused or dropped.
LEMMA ToldFacts ==
  ASSUME DeliveryTypeOK, NEW d \in Drains, NEW post \in posting[d],
         Tell(d, post) \/ Unrecorded(d, post)
  PROVE  /\ UNCHANGED <<log, deliveries, batches, posted>>
         /\ \E new \in SUBSET Post :
              /\ posting' = [posting EXCEPT ![d] = (posting[d] \ {post}) \cup new]
              /\ \A next \in new : Follows(next, post)
              /\ new # {} \/ {post.channel} \X post.events \subseteq sent' \cup refused' \cup dropped'
<1>0. /\ post \in Post /\ post.channel \in Channels /\ post.events \in SUBSET Nat
      /\ post.tries \in Nat /\ post.taken \in BOOLEAN
  BY DEF DeliveryTypeOK, Post
<1>1. ASSUME NEW next, Follows(next, post), Onward(d, post, next)
      PROVE  \E new \in SUBSET Post :
              /\ posting' = [posting EXCEPT ![d] = (posting[d] \ {post}) \cup new]
              /\ \A n \in new : Follows(n, post)
              /\ new # {}
  <2>1. {next} \in SUBSET Post /\ {next} # {} /\ \A n \in {next} : Follows(n, post)
    BY <1>1 DEF Follows
  <2>2. posting' = [posting EXCEPT ![d] = (posting[d] \ {post}) \cup {next}]
    BY <1>1 DEF Onward
  <2> QED BY <2>1, <2>2
<1>2. ASSUME NEW next, Onward(d, post, next)
      PROVE  UNCHANGED <<log, deliveries, batches, posted>>
  BY <1>2 DEF Onward, vars, rows
<1>3. CASE Take(d, post)
  <2>1. PICK next : next = [post EXCEPT !.taken = TRUE]
    OBVIOUS
  <2>2. Follows(next, post)
    BY <1>0, <2>1 DEF Follows, Post
  <2>3. Onward(d, post, next)
    BY <1>3, <2>1 DEF Take
  <2> QED BY <1>1, <1>2, <2>2, <2>3
<1>4. CASE Repeat(d, post)
  <2>1. PICK n \in Nat : n = post.tries + 1
    BY <1>0
  <2>2. PICK next : next = [post EXCEPT !.tries = n, !.taken = FALSE]
    OBVIOUS
  <2>3. Follows(next, post)
    BY <1>0, <2>2 DEF Follows, Post
  <2>4. Onward(d, post, next)
    BY <1>4, <2>1, <2>2 DEF Repeat
  <2> QED BY <1>1, <1>2, <2>3, <2>4
<1>5. ASSUME Answered(d, post),
             {post.channel} \X post.events \subseteq sent' \cup refused' \cup dropped'
      PROVE  /\ UNCHANGED <<log, deliveries, batches, posted>>
             /\ \E new \in SUBSET Post :
                  /\ posting' = [posting EXCEPT ![d] = (posting[d] \ {post}) \cup new]
                  /\ \A next \in new : Follows(next, post)
                  /\ new # {} \/ {post.channel} \X post.events \subseteq sent' \cup refused' \cup dropped'
  <2>1. {} \in SUBSET Post /\ (posting[d] \ {post}) \cup {} = posting[d] \ {post}
    OBVIOUS
  <2>2. posting' = [posting EXCEPT ![d] = (posting[d] \ {post}) \cup {}]
    BY <1>5, <2>1 DEF Answered
  <2>3. UNCHANGED <<log, deliveries, batches, posted>>
    BY <1>5 DEF Answered, vars, rows
  <2> QED BY <1>5, <2>1, <2>2, <2>3
<1>6. CASE Accepted(d, post)
  BY <1>5, <1>6 DEF Accepted
<1>7. CASE Refused(d, post)
  BY <1>5, <1>7 DEF Refused
<1>8. CASE Unrecorded(d, post)
  <2>1. PICK done \in SUBSET post.events :
          /\ refused' = refused \cup ({post.channel} \X done)
          /\ dropped' = dropped \cup ({post.channel} \X (post.events \ done))
    BY <1>8 DEF Unrecorded
  <2>2. {post.channel} \X post.events \subseteq sent' \cup refused' \cup dropped'
    BY <2>1
  <2> QED BY <1>5, <1>8, <2>2 DEF Unrecorded
<1> QED BY <1>3, <1>4, <1>6, <1>7, <1>8 DEF Tell

\* The outcomes of a message name its own rows.
LEMMA ToldTypes ==
  ASSUME DeliveryTypeOK, Known, NEW d \in Drains, NEW post \in posting[d],
         Tell(d, post) \/ Unrecorded(d, post)
  PROVE  /\ sent' \subseteq deliveries /\ refused' \subseteq deliveries
         /\ dropped' \subseteq Channels \X Nat
         /\ troubles' \in 0..MaxTroubles
<1>0. /\ sent \subseteq deliveries /\ refused \subseteq deliveries
      /\ dropped \subseteq Channels \X Nat
      /\ troubles \in 0..MaxTroubles
  BY DEF DeliveryTypeOK
<1>1. {post.channel} \X post.events \subseteq deliveries
  BY DEF Known
<1>2. {post.channel} \X post.events \subseteq Channels \X Nat
  BY DEF DeliveryTypeOK, Post
<1>3. CASE Take(d, post)
  BY <1>0, <1>3 DEF Take, Onward
<1>4. CASE Repeat(d, post)
  BY <1>0, <1>4 DEF Repeat, Onward
<1>5. CASE Accepted(d, post)
  BY <1>0, <1>1, <1>5 DEF Accepted, Answered
<1>6. CASE Refused(d, post)
  <2>1. troubles' \in 0..MaxTroubles
    BY <1>0, <1>6, DeliveryConstants DEF Refused, Trouble
  <2> QED BY <1>0, <1>1, <1>6, <2>1 DEF Refused, Answered
<1>7. CASE Unrecorded(d, post)
  <2>1. troubles' \in 0..MaxTroubles
    BY <1>0, <1>7, DeliveryConstants DEF Unrecorded, Trouble
  <2>2. PICK done \in SUBSET post.events :
          /\ refused' = refused \cup ({post.channel} \X done)
          /\ dropped' = dropped \cup ({post.channel} \X (post.events \ done))
    BY <1>7 DEF Unrecorded
  <2>3. refused' \subseteq deliveries /\ dropped' \subseteq Channels \X Nat
    BY <1>0, <1>1, <1>2, <2>2
  <2> QED BY <1>0, <1>7, <2>1, <2>3 DEF Unrecorded, Answered
<1> QED BY <1>3, <1>4, <1>5, <1>6, <1>7 DEF Tell

\* The requests of a message and its outcome keep the types.
LEMMA TypedTold ==
  ASSUME DeliveryTypeOK, QueuesSorted, Known, NEW d \in Drains, NEW post \in posting[d],
         Tell(d, post) \/ Unrecorded(d, post)
  PROVE  DeliveryTypeOK' /\ QueuesSorted' /\ Known'
<1>1. UNCHANGED <<log, deliveries, batches, posted>>
  BY ToldFacts
<1>2. PICK new \in SUBSET Post :
        /\ posting' = [posting EXCEPT ![d] = (posting[d] \ {post}) \cup new]
        /\ \A next \in new : Follows(next, post)
  BY ToldFacts
<1>3. posting' \in [Drains -> SUBSET Post]
  BY <1>2 DEF DeliveryTypeOK
<1>4. DeliveryTypeOK'
  BY <1>1, <1>3, ToldTypes DEF DeliveryTypeOK, Row
<1>5. ASSUME NEW e \in Drains, NEW p \in posting'[e], NEW j \in p.events
      PROVE  <<p.channel, j>> \in deliveries'
  <2>1. p \in posting[e] \/ (e = d /\ Follows(p, post))
    BY <1>2, <1>5 DEF DeliveryTypeOK
  <2> QED BY <1>1, <1>5, <2>1 DEF Known, Follows
<1>6. QueuesSorted' /\ Known'
  BY <1>1, <1>5 DEF QueuesSorted, Sorted, Known
<1> QED BY <1>4, <1>6

\* What a death leaves of a server's memory.
LEMMA DeathFacts ==
  ASSUME DeliveryTypeOK, NEW d \in Drains, Die(d)
  PROVE  /\ batches' \in [Drains -> [Channels -> Seq(Batch)]]
         /\ posting' \in [Drains -> SUBSET Post]
         /\ \A c \in Channels : batches'[d][c] = << >>
         /\ posting'[d] = {}
         /\ \A e \in Drains \ {d} : batches'[e] = batches[e] /\ posting'[e] = posting[e]
         /\ UNCHANGED <<log, deliveries, sent, refused, posted>>
         /\ dropped' = dropped \cup {row \in Row : InMemory(d, row[1], row[2])}
         /\ troubles' \in 0..MaxTroubles
<1>1. NoBatches \in [Channels -> Seq(Batch)] /\ \A c \in Channels : NoBatches[c] = << >>
  BY DEF NoBatches
<1>2. batches' = [batches EXCEPT ![d] = NoBatches] /\ posting' = [posting EXCEPT ![d] = {}]
  BY DEF Die
<1>3. troubles' \in 0..MaxTroubles
  BY DeliveryConstants DEF Die, Trouble, DeliveryTypeOK
<1>4. UNCHANGED <<log, deliveries, sent, refused, posted>>
  BY DEF Die, Rollback, vars, rows
<1>5. dropped' = dropped \cup {row \in Row : InMemory(d, row[1], row[2])}
  BY DEF Die
<1>6. batches' \in [Drains -> [Channels -> Seq(Batch)]] /\ posting' \in [Drains -> SUBSET Post]
  BY <1>1, <1>2 DEF DeliveryTypeOK
<1>7. /\ \A c \in Channels : batches'[d][c] = << >>
      /\ posting'[d] = {}
      /\ \A e \in Drains \ {d} : batches'[e] = batches[e] /\ posting'[e] = posting[e]
  BY <1>1, <1>2 DEF DeliveryTypeOK
<1> HIDE DEF InMemory
<1> QED BY <1>3, <1>4, <1>5, <1>6, <1>7

\* The types hold with what they rest on: one batch of a type, and a row for
\* whatever is batched, under way or posted.
LEMMA DeliveryTyped == DeliverySpec => [](DeliveryTypeOK /\ QueuesSorted /\ Known)
<1>1. DeliveryInit => DeliveryTypeOK /\ QueuesSorted /\ Known
  BY DeliveryConstants DEF DeliveryInit, DeliveryTypeOK, NoBatches, QueuesSorted, Sorted, Known
<1>2. /\ DeliveryTypeOK /\ QueuesSorted /\ Known /\ IInv /\ [DeliveryNext]_allVars
      => (DeliveryTypeOK /\ QueuesSorted /\ Known)'
  <2> SUFFICES ASSUME DeliveryTypeOK, QueuesSorted, Known, IInv, [DeliveryNext]_allVars
               PROVE  DeliveryTypeOK' /\ QueuesSorted' /\ Known'
    OBVIOUS
  <2>0. DOMAIN log \subseteq DOMAIN log' /\ TypeOK
    BY LogKept, DeliveryStepsLog
  <2>1. CASE UNCHANGED deliveryVars
    BY <2>0, <2>1, TypedFrame
  <2>2. ASSUME NEW d \in Drains, NEW i \in tick[d].todo, DispatchEvent(d, i) \/ DispatchThrows(d, i)
        PROVE  DeliveryTypeOK' /\ QueuesSorted' /\ Known'
    <3>1. i \in DOMAIN log /\ log' = log
      BY <2>2 DEF IInv, TickInv, DispatchEvent, DispatchThrows, HandOver, Throw, rows
    <3>2. PICK C \in SUBSET Channels : WriteRows(d, i, C)
      BY <2>2 DEF DispatchEvent, DispatchThrows
    <3> QED BY <2>0, <3>1, <3>2, TypedWrite
  <2>3. ASSUME NEW d \in Drains, NEW c \in Channels, Flushes(d, c)
        PROVE  DeliveryTypeOK' /\ QueuesSorted' /\ Known'
    BY <2>0, <2>3, TypedFlush
  <2>4. ASSUME NEW d \in Drains, NEW post \in posting[d], Tell(d, post) \/ Unrecorded(d, post)
        PROVE  DeliveryTypeOK' /\ QueuesSorted' /\ Known'
    BY <2>4, TypedTold
  <2>5. ASSUME NEW d \in Drains, Die(d) PROVE DeliveryTypeOK' /\ QueuesSorted' /\ Known'
    <3>1. dropped' \subseteq Channels \X Nat
      <4>1. Row \subseteq Channels \X Nat
        BY <2>0 DEF Row, TypeOK
      <4>2. dropped' \subseteq dropped \cup Row
        BY <2>5, DeathFacts
      <4> QED BY <4>1, <4>2 DEF DeliveryTypeOK
    <3>2. /\ batches' \in [Drains -> [Channels -> Seq(Batch)]]
          /\ posting' \in [Drains -> SUBSET Post] /\ troubles' \in 0..MaxTroubles
          /\ UNCHANGED <<log, deliveries, sent, refused, posted>>
      BY <2>5, DeathFacts
    <3>3. DeliveryTypeOK'
      BY <3>1, <3>2 DEF DeliveryTypeOK, Row
    <3>4. \A e \in Drains, c \in Channels : batches'[e][c] = batches[e][c] \/ batches'[e][c] = << >>
      BY <2>5, DeathFacts
    <3>5. \A e \in Drains : posting'[e] \subseteq posting[e]
      BY <2>5, DeathFacts
    <3>6. QueuesSorted'
      <4> SUFFICES ASSUME NEW e \in Drains, NEW c \in Channels PROVE Sorted(batches'[e][c])
        BY DEF QueuesSorted, Sorted
      <4> QED BY <3>4 DEF QueuesSorted, Sorted
    <3>7. \A e \in Drains, c \in Channels : \A k \in DOMAIN batches'[e][c] :
            \A j \in batches'[e][c][k].events : <<c, j>> \in deliveries'
      <4> SUFFICES ASSUME NEW e \in Drains, NEW c \in Channels, NEW k \in DOMAIN batches'[e][c],
                          NEW j \in batches'[e][c][k].events
                   PROVE  <<c, j>> \in deliveries
        BY <3>2
      <4>1. batches'[e][c] = batches[e][c]
        BY <3>4
      <4> QED BY <4>1 DEF Known
    <3>8. \A e \in Drains : \A post \in posting'[e] : \A j \in post.events :
            <<post.channel, j>> \in deliveries'
      BY <3>2, <3>5 DEF Known
    <3>9. \A c \in Channels : \A n \in DOMAIN posted'[c] : \A j \in posted'[c][n] :
            <<c, j>> \in deliveries'
      BY <3>2 DEF Known
    <3>10. Known'
      BY <3>7, <3>8, <3>9 DEF Known
    <3> QED BY <3>3, <3>6, <3>10
  <2> QED BY <2>1, <2>2, <2>3, <2>4, <2>5 DEF DeliveryNext, Flushes, LogOnly, allVars
<1> QED BY <1>1, <1>2, DeliveryKeepsTheLog, LogInvariant, PTL DEF DeliverySpec

\* Rows, batches, posts and outcomes keep their types, after throws, rollbacks,
\* deaths and overlapping drains (dispatcher.ts).
THEOREM DeliveryTypeCorrect == DeliverySpec => []DeliveryTypeOK
BY DeliveryTyped, PTL

-----------------------------------------------------------------------------
\* An event waits for a channel in one batch of one server, and not at all
\* once it was posted there.
Apart ==
  /\ \A c \in Channels : \A d, e \in Drains :
       \A k \in DOMAIN batches[d][c], l \in DOMAIN batches[e][c] :
         batches[d][c][k].events \cap batches[e][c][l].events # {} => d = e /\ k = l
  /\ \A c \in Channels : \A d \in Drains :
       \A k \in DOMAIN batches[d][c], n \in DOMAIN posted[c] :
         batches[d][c][k].events \cap posted[c][n] = {}

\* A row that is new opens no second wait for its event.
LEMMA ApartWrite ==
  ASSUME TypeOK, DeliveryTypeOK, QueuesSorted, Known, Apart,
         NEW d \in Drains, NEW i \in DOMAIN log, NEW C \in SUBSET Channels, WriteRows(d, i, C)
  PROVE  Apart'
<1>1. posted' = posted
  BY DEF WriteRows
<1>2. \A e \in Drains \ {d} : batches'[e] = batches[e]
  BY WriteRowsFacts
<1>3. \A c \in Channels :
        \/ batches'[d][c] = batches[d][c]
        \/ /\ c \in C /\ <<c, i>> \notin deliveries
           /\ \E k \in Nat : Joins(batches[d][c], batches'[d][c], i, k)
  BY WriteRowsFacts
\* What is in a batch now was in it before, or is i, which was nowhere.
<1>4. ASSUME NEW c \in Channels
      PROVE  \E n \in Nat : \A e \in Drains : \A k \in DOMAIN batches'[e][c] :
               \A j \in batches'[e][c][k].events :
                 \/ k \in DOMAIN batches[e][c] /\ j \in batches[e][c][k].events
                 \/ e = d /\ k = n /\ j = i /\ <<c, i>> \notin deliveries
  <2>1. CASE batches'[d][c] = batches[d][c]
    BY <1>2, <2>1
  <2>2. ASSUME NEW n \in Nat, <<c, i>> \notin deliveries, Joins(batches[d][c], batches'[d][c], i, n)
        PROVE  \A e \in Drains : \A k \in DOMAIN batches'[e][c] :
               \A j \in batches'[e][c][k].events :
                 \/ k \in DOMAIN batches[e][c] /\ j \in batches[e][c][k].events
                 \/ e = d /\ k = n /\ j = i /\ <<c, i>> \notin deliveries
    BY <1>2, <2>2 DEF Joins
  <2> QED BY <1>3, <2>1, <2>2
<1>5. ASSUME NEW c \in Channels, NEW e \in Drains, NEW f \in Drains,
             NEW k \in DOMAIN batches'[e][c], NEW l \in DOMAIN batches'[f][c],
             NEW j \in batches'[e][c][k].events, j \in batches'[f][c][l].events
      PROVE  e = f /\ k = l
  <2>1. PICK n \in Nat : \A g \in Drains : \A m \in DOMAIN batches'[g][c] :
               \A x \in batches'[g][c][m].events :
                 \/ m \in DOMAIN batches[g][c] /\ x \in batches[g][c][m].events
                 \/ g = d /\ m = n /\ x = i /\ <<c, i>> \notin deliveries
    BY <1>4
  <2>2. \/ k \in DOMAIN batches[e][c] /\ j \in batches[e][c][k].events
        \/ e = d /\ k = n /\ j = i /\ <<c, i>> \notin deliveries
    BY <2>1, <1>5
  <2>3. \/ l \in DOMAIN batches[f][c] /\ j \in batches[f][c][l].events
        \/ f = d /\ l = n /\ j = i /\ <<c, i>> \notin deliveries
    BY <2>1, <1>5
  <2>4. \A g \in Drains : \A m \in DOMAIN batches[g][c] :
          i \in batches[g][c][m].events => <<c, i>> \in deliveries
    BY DEF Known
  <2>5. /\ k \in DOMAIN batches[e][c] /\ j \in batches[e][c][k].events
        /\ l \in DOMAIN batches[f][c] /\ j \in batches[f][c][l].events
        => e = f /\ k = l
    BY DEF Apart
  <2> QED BY <2>2, <2>3, <2>4, <2>5
<1>6. ASSUME NEW c \in Channels, NEW e \in Drains, NEW k \in DOMAIN batches'[e][c],
             NEW n \in DOMAIN posted[c], NEW j \in batches'[e][c][k].events, j \in posted[c][n]
      PROVE  FALSE
  <2>1. <<c, j>> \in deliveries
    BY <1>6 DEF Known
  <2>2. k \in DOMAIN batches[e][c] /\ j \in batches[e][c][k].events
    BY <1>4, <1>6, <2>1
  <2> QED BY <1>6, <2>2 DEF Apart
<1> QED BY <1>1, <1>5, <1>6 DEF Apart

\* Taking a batch out takes its events out of every queue.
LEMMA ApartFlush ==
  ASSUME TypeOK, DeliveryTypeOK, QueuesSorted, Known, Apart, NoNoticeTwice,
         NEW d \in Drains, NEW c \in Channels, Flushes(d, c)
  PROVE  Apart' /\ NoNoticeTwice'
<1> DEFINE message == Message(d, c)
<1>1. TakeBatch(d, c)
  BY FlushFacts
<1>2. /\ 1 \in DOMAIN batches[d][c]
      /\ \A e \in Drains, x \in Channels : e # d \/ x # c => batches'[e][x] = batches[e][x]
      /\ \A k \in DOMAIN batches'[d][c] :
           /\ k \in Nat \ {0} /\ k + 1 \in DOMAIN batches[d][c]
           /\ batches'[d][c][k] = batches[d][c][k + 1]
  BY <1>1, TakenFacts
<1>3. message \subseteq batches[d][c][1].events
  BY <1>1, TakenFacts
<1>4. \A x \in Channels : posted'[x] = posted[x] \/ (x = c /\ posted'[x] = Append(posted[x], message))
  BY FlushFacts
<1> HIDE DEF message
<1>5. ASSUME NEW x \in Channels, NEW n \in DOMAIN posted'[x]
      PROVE  \/ n \in DOMAIN posted[x] /\ posted'[x][n] = posted[x][n]
             \/ x = c /\ n = Len(posted[c]) + 1 /\ posted'[x][n] = message
  <2>1. PICK q \in Seq(SUBSET DOMAIN log) : q = posted[x]
    BY DEF DeliveryTypeOK
  <2>2. CASE posted'[x] = posted[x]
    BY <1>5, <2>2
  <2>3. CASE x = c /\ posted'[x] = Append(q, message)
    <3>1. \A m \in DOMAIN Append(q, message) :
            \/ m \in DOMAIN q /\ Append(q, message)[m] = q[m]
            \/ m = Len(q) + 1 /\ Append(q, message)[m] = message
      BY <2>1
    <3> QED BY <1>5, <2>1, <2>3, <3>1
  <2> QED BY <1>4, <2>1, <2>2, <2>3
<1>6. ASSUME NEW x \in Channels, NEW e \in Drains, NEW k \in DOMAIN batches'[e][x]
      PROVE  \/ k \in DOMAIN batches[e][x] /\ batches'[e][x][k] = batches[e][x][k] /\ (e # d \/ x # c)
             \/ /\ e = d /\ x = c /\ k \in Nat \ {0} /\ k + 1 \in DOMAIN batches[e][x]
                /\ batches'[e][x][k] = batches[e][x][k + 1]
  BY <1>2
<1>7. ASSUME NEW x \in Channels, NEW e \in Drains, NEW f \in Drains,
             NEW k \in DOMAIN batches'[e][x], NEW l \in DOMAIN batches'[f][x],
             batches'[e][x][k].events \cap batches'[f][x][l].events # {}
      PROVE  e = f /\ k = l
  <2>1. CASE e = f /\ f = d /\ x = c
    <3>1. k + 1 = l + 1
      BY <1>6, <1>7, <2>1 DEF Apart
    <3> QED BY <1>6, <2>1, <3>1
  <2>2. CASE ~(e = f /\ f = d /\ x = c)
    <3>1. e = f
      BY <1>6, <1>7 DEF Apart
    <3>2. /\ k \in DOMAIN batches[e][x] /\ batches'[e][x][k] = batches[e][x][k]
          /\ l \in DOMAIN batches[f][x] /\ batches'[f][x][l] = batches[f][x][l]
      BY <1>6, <2>2, <3>1
    <3> QED BY <1>7, <3>1, <3>2 DEF Apart
  <2> QED BY <2>1, <2>2
<1>8. ASSUME NEW e \in Drains, NEW k \in DOMAIN batches'[e][c]
      PROVE  batches'[e][c][k].events \cap message = {}
  BY <1>2, <1>3, <1>6 DEF Apart
<1>9. ASSUME NEW x \in Channels, NEW e \in Drains, NEW k \in DOMAIN batches'[e][x],
             NEW n \in DOMAIN posted'[x]
      PROVE  batches'[e][x][k].events \cap posted'[x][n] = {}
  BY <1>5, <1>6, <1>8 DEF Apart
<1>10. Apart'
  BY <1>7, <1>9 DEF Apart
<1>11. \A n \in DOMAIN posted[c] : message \cap posted[c][n] = {}
  BY <1>2, <1>3 DEF Apart
<1>12. NoNoticeTwice'
  BY <1>5, <1>11 DEF NoNoticeTwice
<1> QED BY <1>10, <1>12

\* No event goes to a channel in two messages, although an event is dispatched
\* again after a throw, a rollback or a crash and a message may take any number
\* of requests (the unique index of deliveries, and the status sendBatch asks
\* for).
THEOREM NoticesAreSentOnce == DeliverySpec => []NoNoticeTwice
<1>1. DeliveryInit => Apart /\ NoNoticeTwice
  BY DEF DeliveryInit, Apart, NoNoticeTwice, NoBatches
<1>2. /\ DeliveryTypeOK /\ QueuesSorted /\ Known /\ IInv
      /\ Apart /\ NoNoticeTwice /\ [DeliveryNext]_allVars
      => (Apart /\ NoNoticeTwice)'
  <2> SUFFICES ASSUME DeliveryTypeOK, QueuesSorted, Known, IInv, Apart, NoNoticeTwice,
                      [DeliveryNext]_allVars
               PROVE  Apart' /\ NoNoticeTwice'
    OBVIOUS
  <2>0. TypeOK
    BY DEF IInv
  <2>1. CASE UNCHANGED <<batches, posted>>
    BY <2>1 DEF Apart, NoNoticeTwice
  <2>2. ASSUME NEW d \in Drains, NEW i \in tick[d].todo, DispatchEvent(d, i) \/ DispatchThrows(d, i)
        PROVE  Apart' /\ NoNoticeTwice'
    <3>1. i \in DOMAIN log
      BY <2>2 DEF IInv, TickInv
    <3>2. PICK C \in SUBSET Channels : WriteRows(d, i, C)
      BY <2>2 DEF DispatchEvent, DispatchThrows
    <3>3. posted' = posted
      BY <3>2 DEF WriteRows
    <3> QED BY <2>0, <3>1, <3>2, <3>3, ApartWrite DEF NoNoticeTwice
  <2>3. ASSUME NEW d \in Drains, NEW c \in Channels, Flushes(d, c)
        PROVE  Apart' /\ NoNoticeTwice'
    BY <2>0, <2>3, ApartFlush
  <2>4. ASSUME NEW d \in Drains, Die(d) PROVE Apart' /\ NoNoticeTwice'
    <3>1. posted' = posted
      BY <2>4, DeathFacts
    <3>2. \A e \in Drains, c \in Channels : batches'[e][c] = batches[e][c] \/ batches'[e][c] = << >>
      BY <2>4, DeathFacts
    <3> QED BY <3>1, <3>2 DEF Apart, NoNoticeTwice
  <2>5. ASSUME NEW d \in Drains, NEW post \in posting[d], Tell(d, post) \/ Unrecorded(d, post)
        PROVE  UNCHANGED <<batches, posted>>
    BY <2>5, ToldFacts
  <2> QED BY <2>1, <2>2, <2>3, <2>4, <2>5
          DEF DeliveryNext, Flushes, LogOnly, allVars, deliveryVars
<1> QED BY <1>1, <1>2, DeliveryTyped, DeliveryKeepsTheLog, LogInvariant, PTL DEF DeliverySpec

-----------------------------------------------------------------------------
\* What a tick has handed over, and what is marked, has its rows.
Recorded ==
  \A c \in Channels :
    /\ \A i \in dispatched : <<c, i>> \in deliveries
    /\ \A d \in Drains : \A i \in tick[d].sent : <<c, i>> \in deliveries

\* A row that is on its way, came to its end, or was dropped.
Accounted(i, c) == Reaches(i, c) \/ <<c, i>> \in dropped

\* Every row of an immediate channel is one of these.
RowsReach ==
  \A c \in Channels \ Digest : \A i \in Nat : <<c, i>> \in deliveries => Accounted(i, c)

\* Marking an event follows the writing of its rows.
LEMMA RecordedStep ==
  ASSUME IInv, DeliveryTypeOK, Recorded, [DeliveryNext]_allVars
  PROVE  Recorded'
<1>0. TypeOK
  BY DEF IInv
<1>1. CASE UNCHANGED <<dispatched, tick, deliveries>>
  BY <1>1 DEF Recorded
<1>2. ASSUME NEW d \in Drains, NEW i \in tick[d].todo, DispatchEvent(d, i) PROVE Recorded'
  <2>1. deliveries' = deliveries \cup (Channels \X {i}) /\ dispatched' = dispatched
    BY <1>2 DEF DispatchEvent, HandOver, WriteRows, rows
  <2>2. \A e \in Drains : tick'[e].sent \subseteq tick[e].sent \cup {i}
    BY <1>0, <1>2 DEF DispatchEvent, HandOver, TypeOK, Tick
  <2> QED BY <2>1, <2>2 DEF Recorded
<1>3. ASSUME NEW d \in Drains, NEW i \in tick[d].todo, DispatchThrows(d, i) PROVE Recorded'
  <2>1. deliveries \subseteq deliveries' /\ dispatched' = dispatched
    BY <1>3 DEF DispatchThrows, Throw, WriteRows, rows
  <2>2. \A e \in Drains : tick'[e].sent = tick[e].sent
    BY <1>0, <1>3 DEF DispatchThrows, Throw, TypeOK, Tick
  <2> QED BY <2>1, <2>2 DEF Recorded
<1>4. ASSUME NEW d \in Drains, Claim(d) \/ Rollback(d), deliveries' = deliveries PROVE Recorded'
  <2>1. dispatched' = dispatched /\ \A e \in Drains : tick'[e].sent \subseteq tick[e].sent
    BY <1>0, <1>4 DEF Claim, Rollback, NoTick, TypeOK, Tick, rows
  <2> QED BY <1>4, <2>1 DEF Recorded
<1>5. ASSUME NEW d \in Drains, Commit(d), deliveries' = deliveries PROVE Recorded'
  <2>1. /\ dispatched' = dispatched \cup tick[d].sent
        /\ \A e \in Drains : tick'[e].sent \subseteq tick[e].sent
    BY <1>0, <1>5 DEF Commit, Marked, NoTick, TypeOK, Tick
  <2> QED BY <1>5, <2>1 DEF Recorded
<1>6. ASSUME Decide \/ Toggle PROVE UNCHANGED <<dispatched, tick>>
  BY <1>6 DEF Decide, Toggle, Publish, BeginApprove, CommitApprove, BeginWithdraw, CommitWithdraw,
              Abort, rows
<1>7. ASSUME NEW d \in Drains, Die(d) PROVE Recorded'
  <2>1. deliveries' = deliveries /\ (Rollback(d) \/ UNCHANGED vars)
    BY <1>7 DEF Die
  <2> QED BY <1>1, <1>4, <2>1 DEF vars, rows
<1>8. Delete => UNCHANGED <<dispatched, tick>>
  BY DeletionFrame DEF rows
<1>9. LogOnly => Recorded'
  BY <1>1, <1>4, <1>5, <1>6, <1>8 DEF LogOnly, deliveryVars
<1>10. ASSUME NEW d \in Drains, NEW c \in Channels,
              Flush(d, c) \/ Unsendable(d, c) \/ FlushFails(d, c)
       PROVE  UNCHANGED <<dispatched, tick, deliveries>>
  BY <1>10 DEF Flush, Unsendable, FlushFails, TakeBatch, vars, rows
<1>11. ASSUME NEW d \in Drains, NEW post \in posting[d], Tell(d, post) \/ Unrecorded(d, post)
       PROVE  UNCHANGED <<dispatched, tick, deliveries>>
  BY <1>11 DEF Tell, Take, Repeat, Onward, Accepted, Refused, Unrecorded, Answered, vars, rows
<1> QED BY <1>1, <1>2, <1>3, <1>7, <1>9, <1>10, <1>11
        DEF DeliveryNext, allVars, vars, rows, deliveryVars

\* What dispatch leaves in memory stays there, and a new row joins it.
LEMMA ReachWrite ==
  ASSUME TypeOK, DeliveryTypeOK, QueuesSorted, NEW d \in Drains, NEW i \in DOMAIN log,
         NEW C \in SUBSET Channels, WriteRows(d, i, C), NEW c \in Channels \ Digest, NEW j \in Nat
  PROVE  /\ Accounted(j, c) => Accounted(j, c)'
         /\ <<c, j>> \in deliveries' => <<c, j>> \in deliveries \/ Accounted(j, c)'
<1>1. /\ deliveries' = deliveries \cup (C \X {i})
      /\ UNCHANGED <<sent, refused, posting, dropped>>
  BY DEF WriteRows
<1>2. /\ \A e \in Drains \ {d} : batches'[e] = batches[e]
      /\ DOMAIN batches[d][c] \subseteq DOMAIN batches'[d][c]
      /\ \A k \in DOMAIN batches[d][c] :
           batches[d][c][k].events \subseteq batches'[d][c][k].events
      /\ c \in C \ Digest /\ <<c, i>> \notin deliveries =>
           \E k \in DOMAIN batches'[d][c] : i \in batches'[d][c][k].events
  BY WriteRowsFacts
<1>3. \A e \in Drains : InMemory(e, c, j) => InMemory(e, c, j)'
  BY <1>1, <1>2 DEF InMemory
<1>4. Accounted(j, c) => Accounted(j, c)'
  BY <1>1, <1>3 DEF Accounted, Reaches
<1>5. ASSUME <<c, j>> \in deliveries', <<c, j>> \notin deliveries PROVE Accounted(j, c)'
  <2>1. j = i /\ c \in C
    BY <1>1, <1>5
  <2>2. \E k \in DOMAIN batches'[d][c] : j \in batches'[d][c][k].events
    BY <1>2, <1>5, <2>1
  <2>3. InMemory(d, c, j)'
    BY <2>2 DEF InMemory
  <2> QED BY <2>3 DEF Accounted, Reaches
<1> QED BY <1>4, <1>5

\* A flush leaves the events of its batch under way, refused or dropped.
LEMMA ReachFlush ==
  ASSUME TypeOK, DeliveryTypeOK, QueuesSorted, Known,
         NEW d \in Drains, NEW x \in Channels, Flushes(d, x),
         NEW c \in Channels, NEW j \in Nat, Accounted(j, c)
  PROVE  Accounted(j, c)'
<1>1. TakeBatch(d, x) /\ sent' = sent /\ refused \subseteq refused' /\ dropped \subseteq dropped'
  BY FlushFacts
<1>2. \A e \in Drains : posting[e] \subseteq posting'[e]
  BY FlushFacts
<1>3. \/ Message(d, x) = {}
      \/ First(d, x) \in posting'[d]
      \/ {x} \X Message(d, x) \subseteq refused'
      \/ {x} \X Message(d, x) \subseteq dropped'
  BY FlushFacts
<1>4. /\ \A e \in Drains, y \in Channels : e # d \/ y # x => batches'[e][y] = batches[e][y]
      /\ \A k \in DOMAIN batches[d][x] : k # 1 =>
           k - 1 \in DOMAIN batches'[d][x] /\ batches'[d][x][k - 1] = batches[d][x][k]
      /\ \A i \in batches[d][x][1].events \ Message(d, x) : <<x, i>> \in sent \cup refused
  BY <1>1, TakenFacts
<1> HIDE DEF Message, First
<1>5. <<c, j>> \in sent \cup refused \cup dropped => Accounted(j, c)'
  BY <1>1 DEF Accounted, Reaches
<1>6. ASSUME NEW e \in Drains, InMemory(e, c, j)' PROVE Accounted(j, c)'
  BY <1>6 DEF Accounted, Reaches
<1>7. ASSUME NEW e \in Drains, NEW p \in posting[e], p.channel = c, j \in p.events
      PROVE  Accounted(j, c)'
  <2>1. InMemory(e, c, j)'
    BY <1>2, <1>7 DEF InMemory
  <2> QED BY <1>6, <2>1
<1>8. ASSUME x = c, j \in batches[d][c][1].events PROVE Accounted(j, c)'
  <2>1. CASE j \notin Message(d, c)
    BY <1>4, <1>5, <1>8, <2>1
  <2>2. CASE j \in Message(d, c)
    <3>1. CASE First(d, c) \in posting'[d]
      <4>1. First(d, c).channel = c /\ j \in First(d, c).events
        BY <2>2 DEF First
      <4>2. InMemory(d, c, j)'
        BY <3>1, <4>1 DEF InMemory
      <4> QED BY <1>6, <4>2
    <3>2. CASE <<c, j>> \in refused' \cup dropped'
      BY <3>2 DEF Accounted, Reaches
    <3> QED BY <1>3, <1>8, <2>2, <3>1, <3>2
  <2> QED BY <2>1, <2>2
<1>9. ASSUME NEW e \in Drains, NEW k \in DOMAIN batches[e][c], j \in batches[e][c][k].events
      PROVE  Accounted(j, c)'
  <2>1. CASE e = d /\ x = c /\ k = 1
    BY <1>8, <1>9, <2>1
  <2>2. CASE e = d /\ x = c /\ k # 1
    <3>1. k - 1 \in DOMAIN batches'[d][c] /\ j \in batches'[d][c][k - 1].events
      BY <1>4, <1>9, <2>2
    <3>2. InMemory(d, c, j)'
      BY <3>1 DEF InMemory
    <3> QED BY <1>6, <3>2
  <2>3. CASE ~(e = d /\ x = c)
    <3>1. InMemory(e, c, j)'
      BY <1>4, <1>9, <2>3 DEF InMemory
    <3> QED BY <1>6, <3>1
  <2> QED BY <2>1, <2>2, <2>3
<1> QED BY <1>5, <1>7, <1>9 DEF Accounted, Reaches, InMemory

\* A message that is answered, repeated or given up leaves its rows accounted
\* for.
LEMMA ReachTold ==
  ASSUME DeliveryTypeOK, Known, NEW d \in Drains, NEW post \in posting[d],
         Tell(d, post) \/ Unrecorded(d, post),
         NEW c \in Channels, NEW j \in Nat, Accounted(j, c)
  PROVE  Accounted(j, c)'
<1>1. batches' = batches
  BY ToldFacts
<1>2. sent \subseteq sent' /\ refused \subseteq refused' /\ dropped \subseteq dropped'
  BY DEF Tell, Take, Repeat, Onward, Accepted, Refused, Unrecorded, Answered
<1>3. ASSUME NEW e \in Drains, InMemory(e, c, j)' PROVE Accounted(j, c)'
  BY <1>3 DEF Accounted, Reaches
<1>4. ASSUME NEW e \in Drains, NEW p \in posting[e], p.channel = c, j \in p.events
      PROVE  Accounted(j, c)'
  <2>1. PICK new \in SUBSET Post :
          /\ posting' = [posting EXCEPT ![d] = (posting[d] \ {post}) \cup new]
          /\ \A next \in new : Follows(next, post)
          /\ new # {} \/ {post.channel} \X post.events \subseteq sent' \cup refused' \cup dropped'
    BY ToldFacts
  <2>2. /\ posting'[d] = (posting[d] \ {post}) \cup new
        /\ \A f \in Drains \ {d} : posting'[f] = posting[f]
    BY <2>1 DEF DeliveryTypeOK
  <2>3. CASE p # post \/ e # d
    <3>1. p \in posting'[e]
      BY <1>4, <2>2, <2>3
    <3>2. InMemory(e, c, j)'
      BY <1>4, <3>1 DEF InMemory
    <3> QED BY <1>3, <3>2
  <2>4. ASSUME p = post, NEW next \in new PROVE Accounted(j, c)'
    <3>1. next \in posting'[d] /\ next.channel = c /\ j \in next.events
      BY <1>4, <2>1, <2>2, <2>4 DEF Follows
    <3>2. InMemory(d, c, j)'
      BY <3>1 DEF InMemory
    <3> QED BY <1>3, <3>2
  <2>5. CASE p = post /\ {post.channel} \X post.events \subseteq sent' \cup refused' \cup dropped'
    BY <1>4, <2>5 DEF Accounted, Reaches
  <2> QED BY <2>1, <2>3, <2>4, <2>5
<1>5. ASSUME NEW e \in Drains, NEW k \in DOMAIN batches[e][c], j \in batches[e][c][k].events
      PROVE  Accounted(j, c)'
  <2>1. InMemory(e, c, j)'
    BY <1>1, <1>5 DEF InMemory
  <2> QED BY <1>3, <2>1
<1>6. <<c, j>> \in sent \cup refused \cup dropped => Accounted(j, c)'
  BY <1>2 DEF Accounted, Reaches
<1> QED BY <1>4, <1>5, <1>6 DEF Accounted, Reaches, InMemory

\* What a server knew of when it died is dropped.
LEMMA ReachDeath ==
  ASSUME DeliveryTypeOK, Known, NEW d \in Drains, Die(d),
         NEW c \in Channels, NEW j \in Nat, Accounted(j, c)
  PROVE  Accounted(j, c)'
<1>1. /\ UNCHANGED <<sent, refused>>
      /\ dropped' = dropped \cup {row \in Row : InMemory(d, row[1], row[2])}
      /\ \A e \in Drains \ {d} : batches'[e] = batches[e] /\ posting'[e] = posting[e]
  BY DeathFacts
<1>2. <<c, j>> \in sent \cup refused \cup dropped => Accounted(j, c)'
  BY <1>1 DEF Accounted, Reaches
<1>3. ASSUME InMemory(d, c, j) PROVE Accounted(j, c)'
  <2>1. <<c, j>> \in deliveries
    BY <1>3 DEF InMemory, Known
  <2>2. <<c, j>> \in Row
    BY <2>1 DEF DeliveryTypeOK
  <2>3. <<c, j>> \in {row \in Row : InMemory(d, row[1], row[2])}
    BY <1>3, <2>2
  <2> QED BY <1>1, <2>3 DEF Accounted
<1>4. ASSUME NEW e \in Drains \ {d}, InMemory(e, c, j) PROVE Accounted(j, c)'
  <2>1. InMemory(e, c, j)'
    BY <1>1, <1>4 DEF InMemory
  <2> QED BY <2>1 DEF Accounted, Reaches
<1> QED BY <1>2, <1>3, <1>4 DEF Accounted, Reaches

\* A row that is accounted for stays so, and a new one is.
LEMMA ReachStep ==
  ASSUME TypeOK, DeliveryTypeOK, QueuesSorted, Known, TickInv, [DeliveryNext]_allVars,
         NEW c \in Channels \ Digest, NEW j \in Nat
  PROVE  /\ Accounted(j, c) => Accounted(j, c)'
         /\ <<c, j>> \in deliveries' => <<c, j>> \in deliveries \/ Accounted(j, c)'
<1>1. CASE UNCHANGED deliveryVars
  BY <1>1 DEF deliveryVars, Accounted, Reaches, InMemory
<1>2. ASSUME NEW d \in Drains, NEW i \in tick[d].todo, DispatchEvent(d, i) \/ DispatchThrows(d, i)
      PROVE  /\ Accounted(j, c) => Accounted(j, c)'
             /\ <<c, j>> \in deliveries' => <<c, j>> \in deliveries \/ Accounted(j, c)'
  <2>1. PICK C \in SUBSET Channels : WriteRows(d, i, C)
    BY <1>2 DEF DispatchEvent, DispatchThrows
  <2>2. i \in DOMAIN log
    BY <1>2 DEF TickInv
  <2> QED BY <2>1, <2>2, ReachWrite
<1>3. ASSUME NEW d \in Drains, NEW x \in Channels, Flushes(d, x)
      PROVE  deliveries' = deliveries /\ (Accounted(j, c) => Accounted(j, c)')
  BY <1>3, ReachFlush, FlushFacts
<1>4. ASSUME NEW d \in Drains, NEW post \in posting[d], Tell(d, post) \/ Unrecorded(d, post)
      PROVE  deliveries' = deliveries /\ (Accounted(j, c) => Accounted(j, c)')
  BY <1>4, ReachTold, ToldFacts
<1>5. ASSUME NEW d \in Drains, Die(d)
      PROVE  deliveries' = deliveries /\ (Accounted(j, c) => Accounted(j, c)')
  BY <1>5, ReachDeath, DeathFacts
<1> QED BY <1>1, <1>2, <1>3, <1>4, <1>5 DEF DeliveryNext, Flushes, LogOnly, allVars

\* A dispatched event was sent to each immediate channel, was refused by it,
\* waits in the memory of some server, or was dropped with a server's memory or
\* by a failing flush: a throw, a rollback or a second dispatch loses nothing.
THEOREM DispatchedReaches == DeliverySpec => []NothingStranded
<1>1. DeliveryInit => Recorded /\ RowsReach
  BY DEF DeliveryInit, Init, Recorded, RowsReach, NoTick
<1>2. /\ DeliveryTypeOK /\ QueuesSorted /\ Known /\ IInv
      /\ Recorded /\ RowsReach /\ [DeliveryNext]_allVars
      => (Recorded /\ RowsReach)'
  <2> SUFFICES ASSUME DeliveryTypeOK, QueuesSorted, Known, IInv, Recorded, RowsReach,
                      [DeliveryNext]_allVars
               PROVE  Recorded' /\ RowsReach'
    OBVIOUS
  <2>1. TypeOK /\ TickInv
    BY DEF IInv
  <2>2. ASSUME NEW c \in Channels \ Digest, NEW j \in Nat, <<c, j>> \in deliveries'
        PROVE  Accounted(j, c)'
    BY <2>1, <2>2, ReachStep DEF RowsReach
  <2>3. RowsReach'
    BY <2>2 DEF RowsReach
  <2> QED BY <2>3, RecordedStep
<1>3. TypeOK /\ Recorded /\ RowsReach => NothingStranded
  <2> SUFFICES ASSUME TypeOK, Recorded, RowsReach,
                      NEW i \in dispatched, NEW c \in Channels \ Digest
               PROVE  Accounted(i, c)
    BY DEF NothingStranded, Accounted
  <2>1. i \in Nat
    BY DEF TypeOK
  <2> QED BY <2>1 DEF Recorded, RowsReach
<1>4. IInv => TypeOK
  BY DEF IInv
<1> QED BY <1>1, <1>2, <1>3, <1>4, DeliveryTyped, DeliveryKeepsTheLog, LogInvariant, PTL DEF DeliverySpec
=============================================================================
