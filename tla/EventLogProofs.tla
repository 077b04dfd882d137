--------------------------- MODULE EventLogProofs ---------------------------
(***************************************************************************)
(* Theorems about EventLog, for every set of subjects and drains, every    *)
(* batch size and every bound, overlapping withdrawals included.           *)
(***************************************************************************)
EXTENDS EventLog, TLAPS

-----------------------------------------------------------------------------
(* Operators of the model.                                                 *)

\* An insert keeps every row where it is; what it adds, at the end, is the
\* event itself.
LEMMA EmitFacts ==
  ASSUME log \in Seq(Event), NEW event \in Event
  PROVE  /\ Emit(event) \in Seq(Event)
         /\ DOMAIN log \subseteq DOMAIN Emit(event)
         /\ \A i \in DOMAIN log : Emit(event)[i] = log[i]
         /\ \A i \in DOMAIN Emit(event) \ DOMAIN log :
              Emit(event)[i] = event /\ \A j \in DOMAIN log : j < i
<1>1. CASE \E i \in DOMAIN log : log[i] = event
  BY <1>1 DEF Emit
<1>2. CASE ~\E i \in DOMAIN log : log[i] = event
  <2>1. Emit(event) = Append(log, event)
    BY <1>2 DEF Emit
  <2> QED BY <2>1
<1> QED BY <1>1, <1>2

-----------------------------------------------------------------------------
(* Ticks: what a drain holds while its transaction is open.                *)

TickInv ==
  /\ \A d \in Drains : tick[d].todo \subseteq tick[d].claimed
  /\ \A d \in Drains : tick[d].sent \subseteq tick[d].claimed \cap handed
  /\ \A d \in Drains : tick[d].claimed \subseteq DOMAIN log
  /\ \A d \in Drains : tick[d].claimed \cap (dispatched \cup revoked) = {}
  /\ OneDrainPerEvent
  /\ MarkedWasHanded

\* Transactions: what holds while a subject's row is locked.
TxnInv ==
  /\ retracted \subseteq approved
  /\ \A s \in Subjects : txn[s].op = "approve" => s \in Items \ approved
  /\ \A s \in Subjects : Withdrawing(s) =>
       /\ MayWithdraw(s)
       /\ txn[s].live = Live(s)
       /\ txn[s].gone \subseteq txn[s].live \cap dispatched

IInv == TypeOK /\ TickInv /\ TxnInv /\ RetractionFollows /\ AnnouncementsStand

-----------------------------------------------------------------------------
(* What a step does to the log.                                            *)

\* The log only grows, by at most one row, and that row is an announcement of
\* a subject just decided or the retraction a withdrawal commits.
Grows(event) ==
  /\ log' \in Seq(Event)
  /\ DOMAIN log \subseteq DOMAIN log'
  /\ \A i \in DOMAIN log : log'[i] = log[i]
  /\ \A i \in DOMAIN log' \ DOMAIN log :
       log'[i] = event /\ \A j \in DOMAIN log : j < i

\* A row about one subject leaves the live events of the others as they are.
LEMMA OthersLive ==
  ASSUME NEW event, Grows(event), UNCHANGED revoked, NEW s, s # event.subject
  PROVE  Live(s)' = Live(s)
<1>1. \A i : i \in Live(s)' => i \in Live(s)
  BY DEF Grows, Live
<1>2. \A i : i \in Live(s) => i \in Live(s)'
  BY DEF Grows, Live
<1> QED BY <1>1, <1>2

LEMMA PublishGrows ==
  ASSUME TypeOK, NEW m \in Meetings, Publish(m)
  PROVE  Grows(Announcement(m))
<1>1. Announcement(m) \in Event
  BY DEF Announcement, Event, Subjects
<1> QED BY <1>1, EmitFacts DEF Publish, Grows, TypeOK

LEMMA ApproveGrows ==
  ASSUME TypeOK, NEW x \in Items, CommitApprove(x)
  PROVE  Grows(Announcement(x))
<1>1. Announcement(x) \in Event
  BY DEF Announcement, Event, Subjects
<1> QED BY <1>1, EmitFacts DEF CommitApprove, Grows, TypeOK

LEMMA WithdrawGrows ==
  ASSUME TypeOK, TxnInv, NEW s \in Subjects, CommitWithdraw(s)
  PROVE  \E i \in Nat : /\ Grows(Retraction(s, i))
                        /\ i \in txn[s].gone \/ log' = log
<1>1. CASE log' = log
  BY <1>1 DEF Grows, TypeOK
<1>2. ASSUME NEW i \in Answerable(s), log' = Emit(Retraction(s, i))
      PROVE  Grows(Retraction(s, i)) /\ i \in Nat /\ i \in txn[s].gone
  <2>1. i \in Nat /\ i \in txn[s].gone
    BY <1>2 DEF Answerable, TypeOK, Txn
  <2>2. Retraction(s, i) \in Event
    BY <2>1 DEF Retraction, Event
  <2> QED BY <1>2, <2>1, <2>2, EmitFacts DEF Grows, TypeOK
<1> QED BY <1>1, <1>2 DEF CommitWithdraw

\* The positions a withdrawal names are positions of the log.
LEMMA WithdrawNames ==
  ASSUME TypeOK, TxnInv, NEW s \in Subjects, CommitWithdraw(s)
  PROVE  /\ Revocable(s) = Live(s)
         /\ Revocable(s) \subseteq DOMAIN log
BY DEF CommitWithdraw, TxnInv, Revocable, Live

\* A deletion takes rows that no decision has locked, and leaves the events,
\* the decisions under way and the ticks alone.
LEMMA DeletionFrame ==
  ASSUME Delete
  PROVE  /\ UNCHANGED <<published, txn, rows, handed, tick, draining, mishaps>>
         /\ doomed' \subseteq doomed \cup Claims
         /\ \E S \in SUBSET Items :
              /\ \A x \in S : txn[x].op = "none"
              /\ approved' = approved \ S
              /\ retracted' = retracted \ S
              /\ deleted' = deleted \cup S
<1>1. ASSUME NEW m \in Meetings, Redetect(m)
      PROVE  Erase(FindingsOf(m)) /\ FindingsOf(m) \subseteq Items /\ doomed' = doomed
  BY <1>1 DEF Redetect, FindingsOf
<1>2. ASSUME NEW x \in Claims, Prune(x)
      PROVE  Erase({x}) /\ {x} \subseteq Items /\ doomed' = doomed \ {x}
  BY <1>2, LogConstants DEF Prune
<1>3. ASSUME NEW x \in Claims, Doom(x)
      PROVE  /\ UNCHANGED <<published, txn, rows, handed, tick, draining, mishaps>>
             /\ UNCHANGED <<approved, retracted, deleted>>
             /\ doomed' = doomed \cup {x}
  BY <1>3 DEF Doom
<1>4. CASE \E m \in Meetings : Redetect(m)
  BY <1>1, <1>4 DEF Erase
<1>5. CASE \E x \in Claims : Prune(x)
  BY <1>2, <1>5 DEF Erase
<1>6. CASE \E x \in Claims : Doom(x)
  <2>1. {} \in SUBSET Items /\ \A x \in {} : txn[x].op = "none"
    OBVIOUS
  <2>2. approved \ {} = approved /\ retracted \ {} = retracted /\ deleted \cup {} = deleted
    OBVIOUS
  <2>3. doomed' \subseteq doomed \cup Claims
    BY <1>3, <1>6
  <2> QED BY <1>3, <1>6, <2>1, <2>2, <2>3
<1> QED BY <1>4, <1>5, <1>6 DEF Delete

-----------------------------------------------------------------------------
(* Type correctness.                                                       *)

LEMMA TypeStep == IInv /\ [Next]_vars => TypeOK'
<1> SUFFICES ASSUME IInv, [Next]_vars PROVE TypeOK'
  OBVIOUS
<1>0. TypeOK /\ TickInv /\ TxnInv
  BY DEF IInv
<1>1. ASSUME NEW m \in Meetings, Publish(m) PROVE TypeOK'
  BY <1>0, <1>1, PublishGrows DEF Publish, Grows, TypeOK
<1>2. ASSUME NEW x \in Items, BeginApprove(x) PROVE TypeOK'
  <2>1. ASSUME NEW p \in BOOLEAN
        PROVE  [NoTxn EXCEPT !.op = "approve", !.public = p] \in Txn
    BY DEF NoTxn, Txn
  <2>2. (MeetingOf[x] \in published) \in BOOLEAN
    OBVIOUS
  <2>3. [NoTxn EXCEPT !.op = "approve", !.public = MeetingOf[x] \in published]
          \in Txn
    BY <2>1, <2>2, Zenon
  <2> QED BY <1>0, <1>2, <2>3 DEF BeginApprove, rows, TypeOK
<1>3. ASSUME NEW x \in Items, CommitApprove(x) PROVE TypeOK'
  <2>1. NoTxn \in Txn
    BY DEF NoTxn, Txn
  <2> QED BY <1>0, <1>3, <2>1, ApproveGrows DEF CommitApprove, Grows, TypeOK
<1>4. ASSUME NEW s \in Subjects, BeginWithdraw(s) PROVE TypeOK'
  <2>1. Live(s) \in SUBSET Nat
    BY <1>0 DEF Live, TypeOK
  <2>2. [NoTxn EXCEPT !.op = "withdraw", !.live = Live(s),
                      !.gone = Live(s) \cap dispatched] \in Txn
    BY <2>1 DEF NoTxn, Txn
  <2> QED BY <1>0, <1>4, <2>2 DEF BeginWithdraw, rows, TypeOK
<1>5. ASSUME NEW s \in Subjects, CommitWithdraw(s) PROVE TypeOK'
  <2>1. NoTxn \in Txn
    BY DEF NoTxn, Txn
  <2>2. PICK i \in Nat : Grows(Retraction(s, i))
    BY <1>0, <1>5, WithdrawGrows
  <2> QED BY <1>0, <1>5, <2>1, <2>2, WithdrawNames
          DEF CommitWithdraw, Grows, TypeOK
<1>6. ASSUME NEW s \in Subjects, Abort(s) PROVE TypeOK'
  <2>1. NoTxn \in Txn
    BY DEF NoTxn, Txn
  <2> QED BY <1>0, <1>6, <2>1 DEF Abort, rows, TypeOK
<1>7. CASE Toggle
  BY <1>0, <1>7 DEF Toggle, decisions, rows, TypeOK
<1>8. ASSUME NEW d \in Drains, Claim(d) PROVE TypeOK'
  <2>1. PICK B \in SUBSET Waiting :
          tick' = [tick EXCEPT ![d] = [claimed |-> B, todo |-> B, sent |-> {}]]
    BY <1>8 DEF Claim
  <2>2. [claimed |-> B, todo |-> B, sent |-> {}] \in Tick
    BY <1>0 DEF Tick, Waiting, TypeOK
  <2> QED BY <1>0, <1>8, <2>1, <2>2 DEF Claim, decisions, rows, TypeOK
<1>9. ASSUME NEW d \in Drains, NEW i \in tick[d].todo, HandOver(d, i)
      PROVE  TypeOK'
  <2>1. i \in DOMAIN log /\ i \in Nat
    BY <1>0, <1>9 DEF TypeOK, TickInv
  <2>2. tick' \in [Drains -> Tick]
    <3>1. PICK k : k = [tick[d] EXCEPT !.todo = @ \ {i}, !.sent = @ \cup {i}]
      OBVIOUS
    <3>2. k \in Tick
      BY <1>0, <2>1, <3>1 DEF TypeOK, Tick
    <3> QED BY <1>0, <1>9, <3>1, <3>2 DEF HandOver, TypeOK
  <2> QED BY <1>0, <1>9, <2>1, <2>2 DEF HandOver, decisions, rows, TypeOK
<1>10. ASSUME NEW d \in Drains, NEW i \in tick[d].todo, Throw(d, i)
       PROVE  TypeOK'
  <2>1. mishaps' \in 0..MaxMishaps
    BY <1>0, <1>10, LogConstants DEF Throw, TypeOK
  <2> QED BY <1>0, <1>10, <2>1
          DEF Throw, AfterThrow, decisions, rows, TypeOK, Tick, TickInv
<1>11. ASSUME NEW d \in Drains, Commit(d) PROVE TypeOK'
  BY <1>0, <1>11
  DEF Commit, Marked, NoTick, decisions, TypeOK, Tick, TickInv
<1>12. ASSUME NEW d \in Drains, Rollback(d) PROVE TypeOK'
  BY <1>0, <1>12, LogConstants DEF Rollback, NoTick, decisions, rows, TypeOK, Tick
<1>13. CASE UNCHANGED vars
  BY <1>0, <1>13 DEF vars, decisions, rows, TypeOK
<1>14. CASE Delete
  BY <1>0, <1>14, DeletionFrame DEF rows, TypeOK
<1> QED
  BY <1>1, <1>2, <1>3, <1>4, <1>5, <1>6, <1>7, <1>8, <1>9, <1>10, <1>11,
     <1>12, <1>13, <1>14 DEF Next, Decide
-----------------------------------------------------------------------------
(* The drain.                                                              *)

\* Decisions leave the ticks alone, and revoke nothing a tick has locked.
LEMMA DecideKeepsTicks == IInv /\ Decide => TickInv'
<1> SUFFICES ASSUME IInv, Decide PROVE TickInv'
  OBVIOUS
<1>0. TypeOK /\ TickInv /\ TxnInv
  BY DEF IInv
<1>1. ASSUME NEW m \in Meetings, Publish(m) PROVE TickInv'
  BY <1>0, <1>1, PublishGrows
  DEF Publish, Grows, TickInv, OneDrainPerEvent, MarkedWasHanded
<1>2. ASSUME NEW x \in Items, BeginApprove(x) PROVE TickInv'
  BY <1>0, <1>2
  DEF BeginApprove, rows, TickInv, OneDrainPerEvent, MarkedWasHanded
<1>3. ASSUME NEW x \in Items, CommitApprove(x) PROVE TickInv'
  BY <1>0, <1>3, ApproveGrows
  DEF CommitApprove, Grows, TickInv, OneDrainPerEvent, MarkedWasHanded
<1>4. ASSUME NEW s \in Subjects, BeginWithdraw(s) PROVE TickInv'
  BY <1>0, <1>4
  DEF BeginWithdraw, rows, TickInv, OneDrainPerEvent, MarkedWasHanded
<1>5. ASSUME NEW s \in Subjects, CommitWithdraw(s) PROVE TickInv'
  <2>1. PICK i \in Nat : Grows(Retraction(s, i))
    BY <1>0, <1>5, WithdrawGrows
  <2>2. \A d \in Drains : tick[d].claimed \cap Revocable(s) = {}
    BY <1>5 DEF CommitWithdraw, Locked, Revocable
  <2> QED BY <1>0, <1>5, <2>1, <2>2
          DEF CommitWithdraw, Grows, TickInv, OneDrainPerEvent, MarkedWasHanded
<1>6. ASSUME NEW s \in Subjects, Abort(s) PROVE TickInv'
  BY <1>0, <1>6 DEF Abort, rows, TickInv, OneDrainPerEvent, MarkedWasHanded
<1> QED BY <1>1, <1>2, <1>3, <1>4, <1>5, <1>6 DEF Decide

LEMMA TickStep == IInv /\ [Next]_vars => TickInv'
<1> SUFFICES ASSUME IInv, [Next]_vars PROVE TickInv'
  OBVIOUS
<1>0. TypeOK /\ TickInv
  BY DEF IInv
<1>1. CASE Decide
  BY <1>1, DecideKeepsTicks
<1>2. CASE Toggle
  BY <1>0, <1>2
  DEF Toggle, decisions, rows, TickInv, OneDrainPerEvent, MarkedWasHanded
<1>3. ASSUME NEW d \in Drains, Claim(d) PROVE TickInv'
  <2>1. PICK B \in SUBSET Waiting :
          tick' = [tick EXCEPT ![d] = [claimed |-> B, todo |-> B, sent |-> {}]]
    BY <1>3 DEF Claim
  <2>2. B \subseteq DOMAIN log
    BY DEF Waiting
  <2>3. B \cap (dispatched \cup revoked) = {}
    BY DEF Waiting
  <2>4. \A e \in Drains : B \cap tick[e].claimed = {}
    BY DEF Waiting, Locked
  <2>5. /\ tick'[d] = [claimed |-> B, todo |-> B, sent |-> {}]
        /\ \A e \in Drains \ {d} : tick'[e] = tick[e]
    BY <1>0, <2>1 DEF TypeOK
  <2>6. OneDrainPerEvent'
    BY <1>0, <2>4, <2>5 DEF TickInv, OneDrainPerEvent
  <2>7. UNCHANGED <<log, dispatched, revoked, handed>>
    BY <1>3 DEF Claim, rows
  <2>8. /\ tick'[d].claimed = B /\ tick'[d].todo = B /\ tick'[d].sent = {}
    BY <2>5
  <2> QED BY <1>0, <2>2, <2>3, <2>5, <2>6, <2>7, <2>8
          DEF TickInv, MarkedWasHanded
<1>4. ASSUME NEW d \in Drains, NEW i \in tick[d].todo, HandOver(d, i)
      PROVE  TickInv'
  <2>1. /\ tick'[d].claimed = tick[d].claimed
        /\ tick'[d].todo = tick[d].todo \ {i}
        /\ tick'[d].sent = tick[d].sent \cup {i}
        /\ \A e \in Drains \ {d} : tick'[e] = tick[e]
    BY <1>0, <1>4 DEF HandOver, TypeOK, Tick
  <2>2. UNCHANGED <<log, dispatched, revoked>> /\ handed' = handed \cup {i}
    BY <1>4 DEF HandOver, rows
  <2>3. \A e \in Drains : tick'[e].claimed = tick[e].claimed
    BY <2>1
  <2>4. \A e \in Drains : /\ tick'[e].todo \subseteq tick[e].todo
                          /\ tick'[e].sent \subseteq tick[e].sent \cup {i}
    BY <2>1
  <2>5. \A e \in Drains : tick'[e].sent \subseteq tick'[e].claimed
    BY <1>0, <2>1 DEF TickInv
  <2> QED BY <1>0, <2>2, <2>3, <2>4, <2>5
          DEF TickInv, OneDrainPerEvent, MarkedWasHanded
<1>5. ASSUME NEW d \in Drains, NEW i \in tick[d].todo, Throw(d, i)
      PROVE  TickInv'
  <2>1. /\ tick'[d].claimed = tick[d].claimed
        /\ tick'[d].todo = tick[d].todo \ {i}
        /\ tick'[d].sent = tick[d].sent
        /\ \A e \in Drains \ {d} : tick'[e] = tick[e]
    BY <1>0, <1>5 DEF Throw, AfterThrow, TypeOK, Tick
  <2>2. handed \subseteq handed'
    BY <1>5 DEF Throw
  <2> QED BY <1>0, <1>5, <2>1, <2>2
          DEF Throw, decisions, rows, TickInv, OneDrainPerEvent, MarkedWasHanded
<1>6. ASSUME NEW d \in Drains, Commit(d) PROVE TickInv'
  <2>1. tick'[d] = NoTick /\ \A e \in Drains \ {d} : tick'[e] = tick[e]
    BY <1>0, <1>6 DEF Commit, TypeOK
  <2>2. \A e \in Drains \ {d} : tick[e].claimed \cap Marked(d) = {}
    BY <1>0 DEF TickInv, OneDrainPerEvent, Marked
  <2>3. Marked(d) \subseteq handed
    BY <1>0 DEF TickInv, Marked
  <2> QED BY <1>0, <1>6, <2>1, <2>2, <2>3
          DEF Commit, NoTick, decisions, TickInv, OneDrainPerEvent, MarkedWasHanded
<1>7. ASSUME NEW d \in Drains, Rollback(d) PROVE TickInv'
  <2>1. tick'[d] = NoTick /\ \A e \in Drains \ {d} : tick'[e] = tick[e]
    BY <1>0, <1>7 DEF Rollback, TypeOK
  <2> QED BY <1>0, <1>7, <2>1
          DEF Rollback, NoTick, decisions, rows, TickInv, OneDrainPerEvent,
              MarkedWasHanded
<1>8. CASE UNCHANGED vars
  BY <1>0, <1>8
  DEF vars, decisions, rows, TickInv, OneDrainPerEvent, MarkedWasHanded
<1>9. CASE Delete
  BY <1>0, <1>9, DeletionFrame
  DEF rows, TickInv, OneDrainPerEvent, MarkedWasHanded
<1> QED BY <1>1, <1>2, <1>3, <1>4, <1>5, <1>6, <1>7, <1>8, <1>9 DEF Next
-----------------------------------------------------------------------------
(* Decisions.                                                              *)

\* While a subject's row is locked nobody else adds to or revokes its events.
LEMMA TxnStep == IInv /\ [Next]_vars => TxnInv'
<1> SUFFICES ASSUME IInv, [Next]_vars PROVE TxnInv'
  OBVIOUS
<1>0. TypeOK /\ TickInv /\ TxnInv
  BY DEF IInv
<1> USE LogConstants DEF Subjects
<1>1. ASSUME NEW m \in Meetings, Publish(m) PROVE TxnInv'
  <2>1. \A s \in Subjects \ {m} : Live(s)' = Live(s)
    BY <1>0, <1>1, PublishGrows, OthersLive DEF Publish, Announcement
  <2>2. ~Withdrawing(m)
    BY <1>1 DEF Publish, Withdrawing
  <2> QED BY <1>0, <1>1, <2>1, <2>2 DEF Publish, TxnInv, Withdrawing, MayWithdraw
<1>2. ASSUME NEW x \in Items, BeginApprove(x) PROVE TxnInv'
  <2>1. txn'[x].op = "approve" /\ \A s \in Subjects \ {x} : txn'[s] = txn[s]
    BY <1>0, <1>2 DEF BeginApprove, NoTxn, TypeOK
  <2>2. \A s \in Subjects : Live(s)' = Live(s)
    BY <1>2 DEF BeginApprove, rows, Live
  <2> QED BY <1>0, <1>2, <2>1, <2>2
          DEF BeginApprove, rows, TxnInv, Withdrawing, MayWithdraw
<1>3. ASSUME NEW x \in Items, CommitApprove(x) PROVE TxnInv'
  <2>1. \A s \in Subjects \ {x} : Live(s)' = Live(s)
    <3>1. Grows(Announcement(x)) /\ Announcement(x).subject = x
      BY <1>0, <1>3, ApproveGrows DEF Announcement
    <3>2. UNCHANGED revoked
      BY <1>3 DEF CommitApprove
    <3> QED BY <3>1, <3>2, OthersLive
  <2>2. txn'[x] = NoTxn /\ \A s \in Subjects \ {x} : txn'[s] = txn[s]
    BY <1>0, <1>3 DEF CommitApprove, TypeOK
  <2> QED BY <1>0, <1>3, <2>1, <2>2
          DEF CommitApprove, NoTxn, TxnInv, Withdrawing, MayWithdraw
<1>4. ASSUME NEW s \in Subjects, BeginWithdraw(s) PROVE TxnInv'
  <2>1. /\ txn'[s].op = "withdraw"
        /\ txn'[s].live = Live(s)
        /\ txn'[s].gone = Live(s) \cap dispatched
        /\ \A r \in Subjects \ {s} : txn'[r] = txn[r]
    BY <1>0, <1>4 DEF BeginWithdraw, NoTxn, TypeOK
  <2>2. \A r \in Subjects : Live(r)' = Live(r)
    BY <1>4 DEF BeginWithdraw, rows, Live
  <2> QED BY <1>0, <1>4, <2>1, <2>2
          DEF BeginWithdraw, rows, TxnInv, Withdrawing, MayWithdraw
<1>5. ASSUME NEW s \in Subjects, CommitWithdraw(s) PROVE TxnInv'
  <2>1. PICK i \in Nat : Grows(Retraction(s, i))
    BY <1>0, <1>5, WithdrawGrows
  <2>2. \A r \in Subjects \ {s} : Revocable(s) \cap Live(r) = {}
    BY <1>0, <1>5, WithdrawNames DEF Live
  <2>3. \A r \in Subjects \ {s} : Live(r)' = Live(r)
    BY <1>0, <1>5, <2>1, <2>2
    DEF CommitWithdraw, Grows, Live, Retraction, TypeOK
  <2>4. txn'[s] = NoTxn /\ \A r \in Subjects \ {s} : txn'[r] = txn[r]
    BY <1>0, <1>5 DEF CommitWithdraw, TypeOK
  <2>5. retracted' \subseteq approved'
    BY <1>0, <1>5 DEF CommitWithdraw, TxnInv, MayWithdraw
  <2> QED BY <1>0, <1>5, <2>3, <2>4, <2>5
          DEF CommitWithdraw, NoTxn, TxnInv, Withdrawing, MayWithdraw
<1>6. ASSUME NEW s \in Subjects, Abort(s) PROVE TxnInv'
  <2>1. txn'[s] = NoTxn /\ \A r \in Subjects \ {s} : txn'[r] = txn[r]
    BY <1>0, <1>6 DEF Abort, TypeOK
  <2>2. \A r \in Subjects : Live(r)' = Live(r)
    BY <1>6 DEF Abort, rows, Live
  <2> QED BY <1>0, <1>6, <2>1, <2>2
          DEF Abort, rows, NoTxn, TxnInv, Withdrawing, MayWithdraw
<1>7. ASSUME UNCHANGED <<decisions, log, revoked>>, dispatched \subseteq dispatched'
      PROVE  TxnInv'
  BY <1>0, <1>7 DEF decisions, TxnInv, Withdrawing, MayWithdraw, Live
<1>8. ASSUME Toggle \/ UNCHANGED vars
      PROVE  TxnInv'
  BY <1>7, <1>8 DEF Toggle, vars, rows, decisions
<1>9. ASSUME NEW d \in Drains,
             Claim(d) \/ Commit(d) \/ Rollback(d)
               \/ \E i \in tick[d].todo : HandOver(d, i) \/ Throw(d, i)
      PROVE  TxnInv'
  BY <1>7, <1>9 DEF Claim, Commit, Rollback, HandOver, Throw, rows
<1>10. CASE Delete
  <2>1. PICK S \in SUBSET Items :
          /\ \A x \in S : txn[x].op = "none"
          /\ approved' = approved \ S
          /\ retracted' = retracted \ S
    BY <1>10, DeletionFrame
  <2>2. UNCHANGED <<txn, log, revoked, dispatched>>
    BY <1>10, DeletionFrame DEF rows
  <2>3. \A s \in Subjects : Live(s)' = Live(s)
    BY <2>2 DEF Live
  <2>4. \A s \in Subjects : Withdrawing(s) => s \notin S
    BY <2>1 DEF Withdrawing
  <2>5. \A s \in Subjects : Withdrawing(s) /\ MayWithdraw(s) => MayWithdraw(s)'
    BY <2>1, <2>4 DEF MayWithdraw
  <2> QED BY <1>0, <2>1, <2>2, <2>3, <2>5 DEF TxnInv, Withdrawing
<1> QED BY <1>1, <1>2, <1>3, <1>4, <1>5, <1>6, <1>8, <1>9, <1>10 DEF Next, Decide
-----------------------------------------------------------------------------
(* Announcements and retractions.                                          *)

\* Only an emitted row can break what is said of every row.
LEMMA RetractionStep == IInv /\ [Next]_vars => RetractionFollows'
<1> SUFFICES ASSUME IInv, [Next]_vars PROVE RetractionFollows'
  OBVIOUS
<1>0. TypeOK /\ TickInv /\ TxnInv /\ RetractionFollows
  BY DEF IInv
<1>1. ASSUME NEW s \in Subjects, Grows(Announcement(s)),
             UNCHANGED <<dispatched, revoked>>
      PROVE  RetractionFollows'
  BY <1>0, <1>1 DEF Grows, Announcement, RetractionFollows, TypeOK
<1>2. ASSUME NEW s \in Subjects, CommitWithdraw(s) PROVE RetractionFollows'
  <2>1. PICK i \in Nat : /\ Grows(Retraction(s, i))
                         /\ i \in txn[s].gone \/ log' = log
    BY <1>0, <1>2, WithdrawGrows
  <2>2. /\ Revocable(s) = Live(s)
        /\ txn[s].gone \subseteq Live(s) \cap dispatched
    BY <1>0, <1>2, WithdrawNames DEF CommitWithdraw, TxnInv
  <2>3. dispatched' = dispatched /\ revoked' = revoked \cup Live(s)
    BY <1>2, <2>2 DEF CommitWithdraw
  <2>4. CASE log' = log
    BY <1>0, <2>3, <2>4 DEF RetractionFollows
  <2>5. CASE i \in txn[s].gone
    <3>1. i \in DOMAIN log /\ log[i].subject = s /\ i \in dispatched \cap revoked'
      BY <2>2, <2>3, <2>5 DEF Live
    <3>2. ASSUME NEW k \in DOMAIN log, log[k].type = "retracted"
          PROVE  /\ log'[k].about < k
                 /\ log'[k].about \in dispatched' \cap revoked'
                 /\ log'[log'[k].about].subject = log'[k].subject
      <4>1. log[k].about \in DOMAIN log
        BY <1>0, <3>2 DEF RetractionFollows, TypeOK
      <4> QED BY <1>0, <2>1, <2>3, <3>2, <4>1 DEF Grows, RetractionFollows
    <3>3. ASSUME NEW k \in DOMAIN log' \ DOMAIN log
          PROVE  /\ log'[k].about < k
                 /\ log'[k].about \in dispatched' \cap revoked'
                 /\ log'[log'[k].about].subject = log'[k].subject
      <4>1. log'[k].about = i /\ log'[k].subject = s /\ i < k
        BY <2>1, <3>1, <3>3 DEF Grows, Retraction
      <4>2. log'[i].subject = s
        BY <2>1, <3>1 DEF Grows
      <4> QED BY <2>3, <3>1, <4>1, <4>2
    <3>4. \A k \in DOMAIN log : log'[k] = log[k]
      BY <2>1 DEF Grows
    <3> QED BY <3>2, <3>3, <3>4 DEF RetractionFollows
  <2> QED BY <2>1, <2>4, <2>5
<1>3. ASSUME UNCHANGED <<log, revoked>>, dispatched \subseteq dispatched'
      PROVE  RetractionFollows'
  BY <1>0, <1>3 DEF RetractionFollows
<1>4. ASSUME NEW m \in Meetings, Publish(m) PROVE RetractionFollows'
  BY <1>0, <1>1, <1>4, PublishGrows DEF Publish, Subjects
<1>5. ASSUME NEW x \in Items, CommitApprove(x) PROVE RetractionFollows'
  BY <1>0, <1>1, <1>5, ApproveGrows DEF CommitApprove, Subjects
<1>6. ASSUME \/ \E x \in Items : BeginApprove(x)
             \/ \E s \in Subjects : BeginWithdraw(s) \/ Abort(s)
             \/ Toggle
             \/ UNCHANGED vars
      PROVE  RetractionFollows'
  BY <1>3, <1>6 DEF BeginApprove, BeginWithdraw, Abort, Toggle, vars, rows
<1>7. ASSUME NEW d \in Drains,
             Claim(d) \/ Commit(d) \/ Rollback(d)
               \/ \E i \in tick[d].todo : HandOver(d, i) \/ Throw(d, i)
      PROVE  RetractionFollows'
  BY <1>3, <1>7 DEF Claim, Commit, Rollback, HandOver, Throw, rows
<1>8. CASE Delete
  BY <1>3, <1>8, DeletionFrame DEF rows
<1> QED BY <1>2, <1>4, <1>5, <1>6, <1>7, <1>8 DEF Next, Decide

\* What an unrevoked announcement is of.
Stands(s) == Decided(s) \/ s \in deleted

LEMMA AnnouncementStep == IInv /\ [Next]_vars => AnnouncementsStand'
<1> SUFFICES ASSUME IInv, [Next]_vars PROVE AnnouncementsStand'
  OBVIOUS
<1>0. TypeOK /\ TickInv /\ TxnInv /\ AnnouncementsStand
  BY DEF IInv
<1>1. ASSUME NEW s \in Subjects, Grows(Announcement(s)), UNCHANGED revoked,
             Stands(s)', \A r : Stands(r) => Stands(r)'
      PROVE  AnnouncementsStand'
  <2> SUFFICES ASSUME NEW j \in DOMAIN log', log'[j].type = "published", j \notin revoked'
               PROVE  \E r : log'[j].subject = r /\ Stands(r)'
    BY DEF AnnouncementsStand, Stands, Decided
  <2>1. CASE j \in DOMAIN log
    <3>1. log'[j] = log[j] /\ Stands(log[j].subject)
      BY <1>0, <1>1, <2>1 DEF Grows, AnnouncementsStand, Stands
    <3> QED BY <1>1, <3>1
  <2>2. CASE j \notin DOMAIN log
    <3>1. log'[j].subject = s
      BY <1>1, <2>2 DEF Grows, Announcement
    <3> QED BY <1>1, <3>1
  <2> QED BY <2>1, <2>2
<1>2. ASSUME NEW m \in Meetings, Publish(m) PROVE AnnouncementsStand'
  <2>1. Stands(m)' /\ \A r : Stands(r) => Stands(r)'
    BY <1>2 DEF Publish, Decided, Stands
  <2>2. Grows(Announcement(m)) /\ revoked' = revoked /\ m \in Subjects
    BY <1>0, <1>2, PublishGrows DEF Publish, Subjects
  <2> QED BY <1>1, <2>1, <2>2
<1>3. ASSUME NEW x \in Items, CommitApprove(x) PROVE AnnouncementsStand'
  <2>1. x \notin retracted /\ x \notin Meetings
    BY <1>0, <1>3, LogConstants DEF CommitApprove, TxnInv, Subjects
  <2>2. Stands(x)' /\ \A r : Stands(r) => Stands(r)'
    BY <1>3, <2>1 DEF CommitApprove, Decided, Stands
  <2>3. Grows(Announcement(x)) /\ revoked' = revoked /\ x \in Subjects
    BY <1>0, <1>3, ApproveGrows DEF CommitApprove, Subjects
  <2> QED BY <1>1, <2>2, <2>3
<1>4. ASSUME NEW s \in Subjects, CommitWithdraw(s) PROVE AnnouncementsStand'
  <2>1. PICK i \in Nat : Grows(Retraction(s, i))
    BY <1>0, <1>4, WithdrawGrows
  <2>2. revoked' = revoked \cup Live(s)
    BY <1>0, <1>4, WithdrawNames DEF CommitWithdraw
  <2>3. \A r : r # s /\ Stands(r) => Stands(r)'
    BY <1>4 DEF CommitWithdraw, Decided, Stands
  <2> SUFFICES ASSUME NEW j \in DOMAIN log', log'[j].type = "published", j \notin revoked'
               PROVE  \E r : log'[j].subject = r /\ Stands(r)'
    BY DEF AnnouncementsStand, Stands, Decided
  <2>4. j \in DOMAIN log /\ log'[j] = log[j]
    BY <2>1 DEF Grows, Retraction
  <2>5. j \notin revoked /\ log[j].subject # s
    BY <2>2, <2>4 DEF Live
  <2>6. Stands(log[j].subject)
    BY <1>0, <2>4, <2>5 DEF AnnouncementsStand, Stands
  <2> QED BY <2>3, <2>4, <2>5, <2>6
<1>5. ASSUME UNCHANGED <<log, revoked>>, \A r : Stands(r) => Stands(r)'
      PROVE  AnnouncementsStand'
  <2> SUFFICES ASSUME NEW j \in DOMAIN log, log[j].type = "published", j \notin revoked
               PROVE  \E r : log'[j].subject = r /\ Stands(r)'
    BY <1>5 DEF AnnouncementsStand, Stands, Decided
  <2>1. Stands(log[j].subject) /\ log' = log
    BY <1>0, <1>5 DEF AnnouncementsStand, Stands
  <2> QED BY <1>5, <2>1
<1>6. ASSUME UNCHANGED <<published, approved, retracted, deleted, log, revoked>>
      PROVE  AnnouncementsStand'
  BY <1>5, <1>6 DEF Stands, Decided
<1>7. ASSUME \/ \E x \in Items : BeginApprove(x)
             \/ \E s \in Subjects : BeginWithdraw(s) \/ Abort(s)
             \/ Toggle
             \/ UNCHANGED vars
      PROVE  AnnouncementsStand'
  BY <1>6, <1>7
  DEF BeginApprove, BeginWithdraw, Abort, Toggle, vars, rows, decisions
<1>8. ASSUME NEW d \in Drains,
             Claim(d) \/ Commit(d) \/ Rollback(d)
               \/ \E i \in tick[d].todo : HandOver(d, i) \/ Throw(d, i)
      PROVE  AnnouncementsStand'
  BY <1>6, <1>8 DEF Claim, Commit, Rollback, HandOver, Throw, rows, decisions
<1>9. CASE Delete
  <2>1. PICK S \in SUBSET Items : /\ approved' = approved \ S
                                  /\ retracted' = retracted \ S
                                  /\ deleted' = deleted \cup S
    BY <1>9, DeletionFrame
  <2>2. UNCHANGED <<published, log, revoked>>
    BY <1>9, DeletionFrame DEF rows
  <2>3. \A r : Stands(r) => Stands(r)'
    BY <2>1, <2>2 DEF Stands, Decided
  <2> QED BY <1>5, <2>2, <2>3
<1> QED BY <1>2, <1>3, <1>4, <1>7, <1>8, <1>9 DEF Next, Decide

-----------------------------------------------------------------------------
\* The inductive invariant: types, what an open tick and an open transaction
\* hold, and the two facts about rows that rest on them.
THEOREM LogInvariant == Spec => []IInv
<1>1. Init => IInv
  <2> SUFFICES ASSUME Init PROVE IInv
    OBVIOUS
  <2>1. NoTxn \in Txn /\ NoTick \in Tick
    BY DEF NoTxn, NoTick, Txn, Tick
  <2>2. log \in Seq(Event) /\ DOMAIN log = {}
    BY DEF Init
  <2>3. TypeOK
    <3>1. txn \in [Subjects -> Txn] /\ tick \in [Drains -> Tick]
      BY <2>1 DEF Init
    <3>2. draining \in BOOLEAN
      BY DEF Init
    <3>3. mishaps \in 0..MaxMishaps
      BY LogConstants DEF Init
    <3>4. /\ published \subseteq Meetings /\ approved \subseteq Items
          /\ retracted \subseteq Claims /\ deleted \subseteq Items
          /\ doomed \subseteq Claims /\ dispatched \subseteq DOMAIN log
          /\ revoked \subseteq DOMAIN log /\ recalled \subseteq revoked
          /\ handed \subseteq DOMAIN log
      BY DEF Init
    <3> QED BY <2>2, <3>1, <3>2, <3>3, <3>4 DEF TypeOK
  <2>4. TickInv
    <3>1. \A d \in Drains : tick[d] = NoTick
      BY DEF Init
    <3>2. /\ NoTick.claimed = {} /\ NoTick.todo = {} /\ NoTick.sent = {}
          /\ dispatched = {}
      BY DEF Init, NoTick
    <3> QED BY <3>1, <3>2 DEF TickInv, OneDrainPerEvent, MarkedWasHanded
  <2>5. TxnInv
    <3>1. \A s \in Subjects : txn[s] = NoTxn
      BY DEF Init
    <3>2. /\ NoTxn.op = "none" /\ NoTxn.live = {} /\ NoTxn.gone = {}
          /\ retracted = {}
      BY DEF Init, NoTxn
    <3> QED BY <3>1, <3>2 DEF TxnInv, Withdrawing
  <2>6. RetractionFollows /\ AnnouncementsStand
    BY <2>2 DEF RetractionFollows, AnnouncementsStand
  <2> QED BY <2>3, <2>4, <2>5, <2>6 DEF IInv
<1>2. IInv /\ [Next]_vars => IInv'
  BY TypeStep, TickStep, TxnStep, RetractionStep, AnnouncementStep DEF IInv
<1> QED BY <1>1, <1>2, PTL DEF Spec

\* Every action keeps the types of the log's variables.
THEOREM LogTypeCorrect == Spec => []TypeOK
BY LogInvariant, PTL DEF IInv

\* Two drains never hold one event, however many servers there are.
THEOREM DrainsPartition == Spec => []OneDrainPerEvent
BY LogInvariant, PTL DEF IInv, TickInv

\* No event is marked dispatched before the dispatcher has accepted it.
THEOREM DispatchThenMark == Spec => []MarkedWasHanded
BY LogInvariant, PTL DEF IInv, TickInv

\* A retraction never overtakes its publication.
THEOREM RetractionsAreAnswers == Spec => []RetractionFollows
BY LogInvariant, PTL DEF IInv

\* Unrevoked announcements stand, or their item has been deleted, under every
\* interleaving of decisions, deletions and ticks.
THEOREM AnnouncementsHold == Spec => []AnnouncementsStand
BY LogInvariant, PTL DEF IInv

\* No drain hands over an event whose revocation has committed: the rows of
\* its tick are locked since it read them unrevoked.
THEOREM RevocationIsFinal == Spec => RevokedStaysHome
<1>1. IInv /\ [Next]_vars => (handed' \ handed) \cap revoked = {}
  <2> SUFFICES ASSUME IInv, [Next]_vars
               PROVE  (handed' \ handed) \cap revoked = {}
    OBVIOUS
  <2>1. \A d \in Drains : \A i \in tick[d].todo : i \notin revoked
    BY DEF IInv, TickInv
  <2>2. Delete => handed' = handed
    BY DeletionFrame
  <2> QED BY <2>1, <2>2
          DEF Next, Decide, Publish, BeginApprove, CommitApprove, BeginWithdraw,
              CommitWithdraw, Abort, Toggle, Claim, HandOver, Throw, Commit,
              Rollback, vars
<1> QED BY <1>1, LogInvariant, PTL DEF Spec, RevokedStaysHome
=============================================================================
