------------------------------- MODULE Disputes -------------------------------
(***************************************************************************)
(* Contests of a public record (backend/src/services/disputes.ts) and the  *)
(* replies mailed about them (dispute-notifications.ts): a ledger with one *)
(* row per contest and kind of reply, an event in the same transaction,    *)
(* the drain of EventLog that dispatches it, the batch in the dispatcher's *)
(* memory and the mailer that asks the ledger before it mails.             *)
(*                                                                         *)
(* Refusals that change nothing are left out: the client windows, the      *)
(* check that the record is public and the hourly cap.                     *)
(***************************************************************************)
EXTENDS Naturals, FiniteSets

CONSTANTS
  Contests,    \* record_disputes rows that may come to be
  ContestedBy, \* ContestedBy[c]: the record it contests
  Repliable,   \* contests whose contact is a single email address
  Deciders,    \* operators
  Mailers,     \* servers, each with a drain and a dispatcher
  OpenCap,     \* RATE_LIMITS.perTargetOpen
  Requests,    \* bound: submissions under way at once
  MaxSetbacks  \* bound: deaths, rollbacks, throws

ASSUME DisputesConstants ==
  /\ Repliable \subseteq Contests
  /\ OpenCap \in Nat \ {0} /\ Requests \in Nat \ {0} /\ MaxSetbacks \in Nat

VARIABLES
  contest,   \* contest[c]: its status; counted: the caps were read for it
  decision,  \* decision[o]: the contest an operator has locked, and the outcome
  ledger,    \* ledger[n]: the state of a reply; none: no row
  owed,      \* replies whose event is not dispatched
  replyTick, \* replyTick[v]: the events a drain holds: to do, done, thrown
  handover,  \* handover[n]: the status of its `deliveries` row; none: no row
  outbox,    \* outbox[v]: the batch in v's memory
  mailing,   \* mailing[v]: the reply v is at, and how far
  mailed,    \* mailed[n]: mails the provider took
  setbacks   \* deaths, rollbacks and throws so far

disputeVars == <<contest, decision, ledger, owed, replyTick, handover, outbox, mailing, mailed, setbacks>>
contestVars == <<contest, decision, ledger, owed>>
postVars == <<replyTick, handover, outbox, mailing, mailed, setbacks>>

Outcome == {"upheld", "declined"}
Reply == Contests \X ({"received"} \cup Outcome)
ReplyTick == [todo : SUBSET Reply, done : SUBSET Reply, thrown : SUBSET Reply]
NoReplyTick == [todo |-> {}, done |-> {}, thrown |-> {}]
Mail == [reply : Reply, stage : {"queued", "sent", "suppressed", "failed"}]

DisputesTypeOK ==
  /\ contest \in [Contests -> {"none", "counted", "received"} \cup Outcome]
  /\ decision \in [Deciders -> SUBSET (Contests \X Outcome)]
  /\ ledger \in [Reply -> {"none", "queued", "unaddressed", "sent", "suppressed", "failed"}]
  /\ owed \subseteq Reply /\ \A n \in owed : ledger[n] # "none" /\ n[1] \in Repliable
  /\ replyTick \in [Mailers -> ReplyTick] /\ outbox \in [Mailers -> SUBSET Reply]
  /\ mailing \in [Mailers -> SUBSET Mail] /\ \A v \in Mailers : \A x, y \in mailing[v] : x = y
  /\ handover \in [Reply -> {"none", "pending", "sent", "skipped", "failed"}]
  /\ mailed \in [Reply -> Nat] /\ setbacks \in 0..MaxSetbacks

DisputesInit ==
  /\ contest = [c \in Contests |-> "none"]
  /\ decision = [o \in Deciders |-> {}]
  /\ ledger = [n \in Reply |-> "none"]
  /\ owed = {}
  /\ replyTick = [v \in Mailers |-> NoReplyTick]
  /\ handover = [n \in Reply |-> "none"]
  /\ outbox = [v \in Mailers |-> {}]
  /\ mailing = [v \in Mailers |-> {}]
  /\ mailed = [n \in Reply |-> 0]
  /\ setbacks = 0

-----------------------------------------------------------------------------
(* Submission and decision.                                                *)

\* Whether there is an address to write to.
Addressed(n) == n[1] \in Repliable

\* queueDisputeNotification: one row per contest and kind, and its event.
QueueReply(n) ==
  IF ledger[n] # "none" THEN UNCHANGED <<ledger, owed>>
  ELSE /\ ledger' = [ledger EXCEPT ![n] = IF Addressed(n) THEN "queued" ELSE "unaddressed"]
       /\ owed' = owed \cup {x \in {n} : Addressed(x)}

Open(t) == {c \in Contests : ContestedBy[c] = t /\ contest[c] = "received"}

\* The cap on open contests of one record, counted without a lock.
Room(c) == Cardinality(Open(ContestedBy[c])) < OpenCap

\* submitDispute counts...
CountOpen(c) ==
  /\ contest[c] = "none" /\ Room(c)
  /\ Cardinality({b \in Contests : contest[b] = "counted"}) < Requests
  /\ contest' = [contest EXCEPT ![c] = "counted"]
  /\ UNCHANGED <<decision, ledger, owed, postVars>>

\* ... and inserts, logs and queues the acknowledgement, in one commit.
Submit(c) ==
  /\ contest[c] = "counted"
  /\ contest' = [contest EXCEPT ![c] = "received"]
  /\ QueueReply(<<c, "received">>)
  /\ UNCHANGED <<decision, postVars>>

\* The submission rolls back.
SubmitFails(c) ==
  /\ contest[c] = "counted"
  /\ contest' = [contest EXCEPT ![c] = "none"]
  /\ UNCHANGED <<decision, ledger, owed, postVars>>

\* Mutant: the row is read without FOR UPDATE.
ContestLockedNever(c) == FALSE

\* Another operator's transaction has the row.
ContestLocked(c) == \E o \in Deciders : \E d \in decision[o] : d[1] = c

\* decideDispute locks the row and finds it undecided...
LockContest(o, c, outcome) ==
  /\ decision[o] = {} /\ ~ContestLocked(c)
  /\ contest[c] = "received"
  /\ decision' = [decision EXCEPT ![o] = {<<c, outcome>>}]
  /\ UNCHANGED <<contest, ledger, owed, postVars>>

\* ... and decides it.
DecideContest(o) ==
  \E d \in decision[o] :
    /\ contest' = [contest EXCEPT ![d[1]] = d[2]]
    /\ QueueReply(d)
    /\ decision' = [decision EXCEPT ![o] = {}]
    /\ UNCHANGED postVars

\* The decision rolls back.
DecideFails(o) ==
  /\ decision[o] # {}
  /\ decision' = [decision EXCEPT ![o] = {}]
  /\ UNCHANGED <<contest, ledger, owed, postVars>>

-----------------------------------------------------------------------------
(* The drain: dispatch writes outside the transaction of the tick.         *)

Setback == setbacks < MaxSetbacks /\ setbacks' = setbacks + 1

InTick(v) == replyTick[v].todo \cup replyTick[v].done \cup replyTick[v].thrown

\* The tick of a drain: the events not dispatched that no other drain has.
StartTick(v) ==
  /\ InTick(v) = {}
  /\ LET free == owed \ UNION {InTick(u) : u \in Mailers} IN
       free # {} /\ replyTick' = [replyTick EXCEPT ![v].todo = free]
  /\ UNCHANGED <<contestVars, handover, outbox, mailing, mailed, setbacks>>

\* Mutant: no unique index on deliveries.
AddedAlways(n) == TRUE

\* Whether the insert into deliveries makes a row.
Added(n) == handover[n] = "none"

\* dispatch: the row, and the batch in memory.
DispatchReply(v, n) ==
  /\ n \in replyTick[v].todo
  /\ replyTick' = [replyTick EXCEPT ![v].todo = @ \ {n}, ![v].done = @ \cup {n}]
  /\ IF Added(n)
     THEN /\ handover' = [handover EXCEPT ![n] = "pending"]
          /\ outbox' = [outbox EXCEPT ![v] = @ \cup {n}]
     ELSE UNCHANGED <<handover, outbox>>
  /\ UNCHANGED <<contestVars, mailing, mailed, setbacks>>

\* dispatch throws, with the row written or not: the tick goes on.
ReplyThrows(v, n) ==
  /\ n \in replyTick[v].todo
  /\ Setback
  /\ replyTick' = [replyTick EXCEPT ![v].todo = @ \ {n}, ![v].thrown = @ \cup {n}]
  /\ \/ UNCHANGED handover
     \/ Added(n) /\ handover' = [handover EXCEPT ![n] = "pending"]
  /\ UNCHANGED <<contestVars, outbox, mailing, mailed>>

\* The events the tick marks dispatched.
MarkedReplies(v) == replyTick[v].done

\* The tick commits.
EndTick(v) ==
  /\ InTick(v) # {} /\ replyTick[v].todo = {}
  /\ owed' = owed \ MarkedReplies(v)
  /\ replyTick' = [replyTick EXCEPT ![v] = NoReplyTick]
  /\ UNCHANGED <<contest, decision, ledger, handover, outbox, mailing, mailed, setbacks>>

\* It rolls back: what was dispatched stays so.
RollbackTick(v) ==
  /\ InTick(v) # {}
  /\ Setback
  /\ replyTick' = [replyTick EXCEPT ![v] = NoReplyTick]
  /\ UNCHANGED <<contestVars, handover, outbox, mailing, mailed>>

-----------------------------------------------------------------------------
(* The mailer: one reply at a time.                                        *)

At(v, n, stage) == mailing[v] = {[reply |-> n, stage |-> stage]}

\* sendDirectBatch takes a pending row; deliver reads the ledger.
ReadLedger(v, n) ==
  /\ mailing[v] = {} /\ n \in outbox[v]
  /\ outbox' = [outbox EXCEPT ![v] = @ \ {n}]
  /\ \/ handover[n] # "pending" /\ UNCHANGED <<handover, mailing>>
     \/ /\ handover[n] = "pending" /\ ledger[n] # "queued"
        /\ handover' = [handover EXCEPT ![n] = "skipped"] /\ UNCHANGED mailing
     \/ /\ handover[n] = "pending" /\ ledger[n] = "queued"
        /\ mailing' = [mailing EXCEPT ![v] = {[reply |-> n, stage |-> "queued"]}] /\ UNCHANGED handover
  /\ UNCHANGED <<contestVars, replyTick, mailed, setbacks>>

\* sendTransactional: the mail is taken, or the address is suppressed, or the
\* provider gives no message id.
Ask(v, n) ==
  /\ At(v, n, "queued")
  /\ \E answer \in {"sent", "suppressed", "failed"} :
       /\ mailing' = [mailing EXCEPT ![v] = {[reply |-> n, stage |-> answer]}]
       /\ mailed' = IF answer = "sent" THEN [mailed EXCEPT ![n] = @ + 1] ELSE mailed
  /\ UNCHANGED <<contestVars, replyTick, handover, outbox, setbacks>>

\* It throws, with the mail taken or not; the row is to be retried, and
\* nothing in the code calls retryPending.
AskThrows(v, n) ==
  /\ At(v, n, "queued")
  /\ Setback
  /\ \E taken \in {0, 1} : mailed' = [mailed EXCEPT ![n] = @ + taken]
  /\ mailing' = [mailing EXCEPT ![v] = {}]
  /\ UNCHANGED <<contestVars, replyTick, handover, outbox>>

\* settle writes the ledger, if it is still queued...
Settle(v, n) ==
  /\ \E answer \in {"sent", "suppressed", "failed"} :
       /\ At(v, n, answer)
       /\ ledger[n] = "queued"
       /\ ledger' = [ledger EXCEPT ![n] = answer]
  /\ UNCHANGED <<contest, decision, owed, postVars>>

Closing(answer) == IF answer = "suppressed" THEN "skipped" ELSE answer

\* ... and the dispatcher its row.
CloseRow(v, n) ==
  /\ \E answer \in {"sent", "suppressed", "failed"} :
       /\ At(v, n, answer)
       /\ handover' = [handover EXCEPT ![n] = Closing(answer)]
  /\ ledger[n] # "queued"
  /\ mailing' = [mailing EXCEPT ![v] = {}]
  /\ UNCHANGED <<contestVars, replyTick, outbox, mailed, setbacks>>

\* The server dies and starts again.
Perish(v) ==
  /\ Setback
  /\ replyTick' = [replyTick EXCEPT ![v] = NoReplyTick]
  /\ outbox' = [outbox EXCEPT ![v] = {}]
  /\ mailing' = [mailing EXCEPT ![v] = {}]
  /\ UNCHANGED <<contestVars, handover, mailed>>

DisputesNext ==
  \/ \E c \in Contests : CountOpen(c) \/ Submit(c) \/ SubmitFails(c)
  \/ \E o \in Deciders :
       \/ \E c \in Contests, outcome \in Outcome : LockContest(o, c, outcome)
       \/ DecideContest(o) \/ DecideFails(o)
  \/ \E v \in Mailers :
       \/ StartTick(v) \/ EndTick(v) \/ RollbackTick(v) \/ Perish(v)
       \/ \E n \in Reply :
            \/ DispatchReply(v, n) \/ ReplyThrows(v, n)
            \/ ReadLedger(v, n) \/ Ask(v, n) \/ AskThrows(v, n) \/ Settle(v, n) \/ CloseRow(v, n)

DisputesSpec == DisputesInit /\ [][DisputesNext]_disputeVars

-----------------------------------------------------------------------------
(* Properties.                                                             *)

\* The replies about a contest tell one outcome, the one it has, however two
\* operators decide it at once; and no reply tells of a rolled-back decision.
OneOutcome ==
  \A n \in Reply : ledger[n] # "none" =>
    /\ n[2] = "received" => contest[n[1]] \in {"received"} \cup Outcome
    /\ n[2] \in Outcome => contest[n[1]] = n[2]

\* No reply is mailed twice, after rolled-back ticks, deaths and mails the
\* provider took but did not answer for.
ReplyMailedOnce == \A n \in Reply : mailed[n] <= 1
=============================================================================
