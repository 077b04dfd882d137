------------------------ MODULE IngestionQueueProofs ------------------------
(***************************************************************************)
(* Theorems about IngestionQueue, for every set of jobs, workers and       *)
(* stages and every bound.                                                 *)
(***************************************************************************)
EXTENDS IngestionQueue, TLAPS

\* Every action of the queue keeps the types of its variables.
THEOREM TypeCorrect == Spec => []TypeOK
<1>1. Init => TypeOK
  BY QueueConstants DEF Init, TypeOK, Status, Cause, Phase
<1>2. TypeOK /\ [Next]_vars => TypeOK'
  <2> SUFFICES ASSUME TypeOK, [Next]_vars PROVE TypeOK'
    OBVIOUS
  <2> USE QueueConstants DEF TypeOK, Status, Cause, Phase
  <2>1. ASSUME NEW j \in Jobs, Enqueue(j) PROVE TypeOK'
    BY <2>1 DEF Enqueue, BecomeDue
  <2>2. ASSUME NEW j \in Jobs, FallsDue(j) PROVE TypeOK'
    BY <2>2 DEF FallsDue, BecomeDue
  <2>3. ASSUME NEW j \in Jobs, GoesStale(j) PROVE TypeOK'
    BY <2>3 DEF GoesStale
  <2>4. ASSUME NEW w \in Workers, Claim(w) PROVE TypeOK'
    <3>1. PICK j \in Jobs :
            /\ status' = [status EXCEPT ![j] = "running"]
            /\ attempts' = [attempts EXCEPT ![j] = @ + 1]
            /\ stale' = stale \ {j}
            /\ LeaveDue(j)
            /\ hand' = [hand EXCEPT ![w] = j]
            /\ pc' = [pc EXCEPT ![w] = "handling"]
            /\ UNCHANGED <<cause, requeued, mishaps>>
      BY <2>4 DEF Claim, Oldest, Claimable
    <3> QED BY <3>1 DEF LeaveDue
  <2>5. ASSUME NEW w \in Workers, Dispatch(w) PROVE TypeOK'
    BY <2>5 DEF Dispatch
  <2>6. ASSUME NEW w \in Workers, Complete(w) PROVE TypeOK'
    BY <2>6 DEF Complete, Release
  <2>7. ASSUME NEW w \in Workers, CompleteRefused(w) PROVE TypeOK'
    BY <2>7 DEF CompleteRefused
  <2>8. ASSUME NEW w \in Workers, Fail(w) PROVE TypeOK'
    BY <2>8 DEF Fail, Release
  <2>9. ASSUME NEW w \in Workers, FailRefused(w) PROVE TypeOK'
    BY <2>9 DEF FailRefused, Release
  <2>10. ASSUME NEW w \in Workers, Block(w) PROVE TypeOK'
    BY <2>10 DEF Block, LeaveDue, Release
  <2>11. ASSUME NEW w \in Workers, Crash(w) PROVE TypeOK'
    BY <2>11 DEF Crash, Release
  <2>12. ASSUME RecoverStalled PROVE TypeOK'
    BY <2>12 DEF RecoverStalled, StalledRows, BecomeDue
  <2>13. ASSUME Unblock PROVE TypeOK'
    BY <2>13 DEF Unblock, BlockedRows, AttemptsReset, BecomeDue
  <2>14. CASE UNCHANGED vars
    BY <2>14 DEF vars
  <2> QED
    BY <2>1, <2>2, <2>3, <2>4, <2>5, <2>6, <2>7, <2>8, <2>9, <2>10,
       <2>11, <2>12, <2>13, <2>14 DEF Next
<1> QED BY <1>1, <1>2, PTL DEF Spec

-----------------------------------------------------------------------------
(* What a row is when a worker reaches it.                                 *)

\* Only a pending row is due, so only a pending row is ever claimed.
DueArePending == \A j \in due : status[j] = "pending"

\* A row not yet inserted carries no attempts.
AbsentIsFresh == \A j \in Jobs : status[j] = "absent" => attempts[j] = 0

\* A worker has a job in hand exactly while it is not idle.
HandMatchesPc == \A w \in Workers : hand[w] \in Jobs <=> pc[w] # "idle"

RowInv == TypeOK /\ DueArePending /\ AbsentIsFresh /\ HandMatchesPc

\* What a claim does, without the choice of the row.
Claimed(w, j) ==
  /\ j \in due
  /\ pc[w] = "idle"
  /\ status' = [status EXCEPT ![j] = "running"]
  /\ attempts' = [attempts EXCEPT ![j] = @ + 1]
  /\ stale' = stale \ {j}
  /\ due' = due \ {j}
  /\ hand' = [hand EXCEPT ![w] = j]
  /\ pc' = [pc EXCEPT ![w] = "handling"]
  /\ UNCHANGED <<cause, requeued, mishaps>>

LEMMA ClaimTakesDueRow ==
  ASSUME TypeOK, NEW w \in Workers, Claim(w)
  PROVE  \E j \in Jobs : Claimed(w, j)
BY DEF TypeOK, Claim, Claimed, Oldest, Claimable, LeaveDue

LEMMA RowInvariant == Spec => []RowInv
<1>1. Init => RowInv
  BY QueueConstants
  DEF Init, RowInv, TypeOK, Status, Cause, Phase, DueArePending, AbsentIsFresh, HandMatchesPc
<1>2. RowInv /\ TypeOK' /\ [Next]_vars => RowInv'
  <2> SUFFICES ASSUME RowInv, TypeOK', [Next]_vars
               PROVE  DueArePending' /\ AbsentIsFresh' /\ HandMatchesPc'
    BY DEF RowInv
  <2> USE QueueConstants DEF RowInv, TypeOK, DueArePending, AbsentIsFresh, HandMatchesPc, Phase
  <2>1. ASSUME NEW j \in Jobs, Enqueue(j)
        PROVE  DueArePending' /\ AbsentIsFresh' /\ HandMatchesPc'
    BY <2>1 DEF Enqueue, BecomeDue
  <2>2. ASSUME NEW j \in Jobs, FallsDue(j)
        PROVE  DueArePending' /\ AbsentIsFresh' /\ HandMatchesPc'
    BY <2>2 DEF FallsDue, BecomeDue
  <2>3. ASSUME NEW j \in Jobs, GoesStale(j)
        PROVE  DueArePending' /\ AbsentIsFresh' /\ HandMatchesPc'
    BY <2>3 DEF GoesStale
  <2>4. ASSUME NEW w \in Workers, Claim(w)
        PROVE  DueArePending' /\ AbsentIsFresh' /\ HandMatchesPc'
    BY <2>4, ClaimTakesDueRow DEF Claimed
  <2>5. ASSUME NEW w \in Workers, Dispatch(w)
        PROVE  DueArePending' /\ AbsentIsFresh' /\ HandMatchesPc'
    BY <2>5 DEF Dispatch
  <2>6. ASSUME NEW w \in Workers, Complete(w)
        PROVE  DueArePending' /\ AbsentIsFresh' /\ HandMatchesPc'
    BY <2>6 DEF Complete, Release
  <2>7. ASSUME NEW w \in Workers, CompleteRefused(w)
        PROVE  DueArePending' /\ AbsentIsFresh' /\ HandMatchesPc'
    BY <2>7 DEF CompleteRefused
  <2>8. ASSUME NEW w \in Workers, Fail(w)
        PROVE  DueArePending' /\ AbsentIsFresh' /\ HandMatchesPc'
    BY <2>8 DEF Fail, Release
  <2>9. ASSUME NEW w \in Workers, FailRefused(w)
        PROVE  DueArePending' /\ AbsentIsFresh' /\ HandMatchesPc'
    BY <2>9 DEF FailRefused, Release
  <2>10. ASSUME NEW w \in Workers, Block(w)
        PROVE  DueArePending' /\ AbsentIsFresh' /\ HandMatchesPc'
    BY <2>10 DEF Block, LeaveDue, Release
  <2>11. ASSUME NEW w \in Workers, Crash(w)
        PROVE  DueArePending' /\ AbsentIsFresh' /\ HandMatchesPc'
    BY <2>11 DEF Crash, Release
  <2>12. ASSUME RecoverStalled
        PROVE  DueArePending' /\ AbsentIsFresh' /\ HandMatchesPc'
    BY <2>12 DEF RecoverStalled, StalledRows, BecomeDue
  <2>13. ASSUME Unblock
        PROVE  DueArePending' /\ AbsentIsFresh' /\ HandMatchesPc'
    BY <2>13 DEF Unblock, BlockedRows, AttemptsReset, BecomeDue
  <2>14. CASE UNCHANGED vars
    BY <2>14 DEF vars
  <2> QED
    BY <2>1, <2>2, <2>3, <2>4, <2>5, <2>6, <2>7, <2>8, <2>9, <2>10,
       <2>11, <2>12, <2>13, <2>14 DEF Next
<1> QED BY <1>1, <1>2, TypeCorrect, PTL DEF Spec

-----------------------------------------------------------------------------
(* Retries.                                                                *)

\* A job gets MaxAttempts claims plus one per recovery, whatever the handlers,
\* the crashes, the overruns and the operator do: fail's comparison and the
\* attempts that recoverStalled keeps and unblock resets add up.
THEOREM AttemptsAreAccounted == Spec => []AttemptsAccounted
<1>1. Init => AttemptsAccounted
  BY QueueConstants DEF Init, AttemptsAccounted
<1>2. RowInv /\ AttemptsAccounted /\ [Next]_vars => AttemptsAccounted'
  <2> SUFFICES ASSUME RowInv, AttemptsAccounted, [Next]_vars PROVE AttemptsAccounted'
    OBVIOUS
  <2> USE QueueConstants DEF RowInv, TypeOK, DueArePending, AbsentIsFresh, HandMatchesPc,
                             AttemptsAccounted
  <2>1. ASSUME NEW j \in Jobs, Enqueue(j) PROVE AttemptsAccounted'
    BY <2>1 DEF Enqueue
  <2>2. ASSUME NEW w \in Workers, Claim(w) PROVE AttemptsAccounted'
    BY <2>2, ClaimTakesDueRow DEF Claimed
  <2>3. ASSUME NEW w \in Workers, Complete(w) PROVE AttemptsAccounted'
    BY <2>3 DEF Complete
  <2>4. ASSUME NEW w \in Workers, Fail(w) PROVE AttemptsAccounted'
    BY <2>4 DEF Fail, Exhausted
  <2>5. ASSUME NEW w \in Workers, Block(w) PROVE AttemptsAccounted'
    BY <2>5 DEF Block
  <2>6. ASSUME RecoverStalled PROVE AttemptsAccounted'
    BY <2>6 DEF RecoverStalled, StalledRows
  <2>7. ASSUME Unblock PROVE AttemptsAccounted'
    BY <2>7 DEF Unblock, BlockedRows, AttemptsReset
  <2>8. ASSUME UNCHANGED <<status, attempts, requeued>> PROVE AttemptsAccounted'
    BY <2>8
  <2> QED
    BY <2>1, <2>2, <2>3, <2>4, <2>5, <2>6, <2>7, <2>8
    DEF Next, vars, FallsDue, GoesStale, Dispatch, CompleteRefused, FailRefused, Crash
<1> QED BY <1>1, <1>2, RowInvariant, PTL DEF Spec

-----------------------------------------------------------------------------
(* Ownership of the jobs whose handlers return within the threshold.       *)

OwnInv == HolderOwnsRow /\ OneHolder

LEMMA OwnershipInvariant == Spec => []OwnInv
<1>1. Init => OwnInv
  BY QueueConstants DEF Init, OwnInv, HolderOwnsRow, OneHolder, Prompt
<1>2. RowInv /\ OwnInv /\ [Next]_vars => OwnInv'
  <2> SUFFICES ASSUME RowInv, OwnInv, [Next]_vars PROVE OwnInv'
    OBVIOUS
  <2> USE QueueConstants DEF RowInv, TypeOK, DueArePending, HandMatchesPc,
                             OwnInv, HolderOwnsRow, OneHolder, Prompt
  <2>1. ASSUME NEW j \in Jobs, Enqueue(j) PROVE OwnInv'
    BY <2>1 DEF Enqueue
  <2>2. ASSUME NEW j \in Jobs, GoesStale(j) PROVE OwnInv'
    BY <2>2 DEF GoesStale, Held, Holds
  <2>3. ASSUME NEW w \in Workers, Claim(w) PROVE OwnInv'
    BY <2>3, ClaimTakesDueRow DEF Claimed
  <2>4. ASSUME NEW w \in Workers, Complete(w) PROVE OwnInv'
    BY <2>4 DEF Complete, Release
  <2>5. ASSUME NEW w \in Workers, Fail(w) PROVE OwnInv'
    BY <2>5 DEF Fail, Release
  <2>6. ASSUME NEW w \in Workers, Block(w) PROVE OwnInv'
    BY <2>6 DEF Block, Release
  <2>7. ASSUME NEW w \in Workers, FailRefused(w) \/ Crash(w) PROVE OwnInv'
    BY <2>7 DEF FailRefused, Crash, Release
  <2>8. ASSUME RecoverStalled PROVE OwnInv'
    BY <2>8 DEF RecoverStalled, StalledRows
  <2>9. ASSUME Unblock PROVE OwnInv'
    BY <2>9 DEF Unblock, BlockedRows
  <2>10. ASSUME UNCHANGED <<status, stale, hand>> PROVE OwnInv'
    BY <2>10
  <2> QED
    BY <2>1, <2>2, <2>3, <2>4, <2>5, <2>6, <2>7, <2>8, <2>9, <2>10
    DEF Next, vars, FallsDue, Dispatch, CompleteRefused
<1> QED BY <1>1, <1>2, RowInvariant, PTL DEF Spec

\* No two workers ever run the same prompt job, however many loops, processes,
\* crashes and overrunning jobs there are.
THEOREM NoTwoHolders == Spec => []OneHolder
<1> USE DEF OwnInv
<1> QED BY OwnershipInvariant, PTL

\* A worker writes the outcome of a prompt job to a row it still owns, so the
\* unguarded block and the unfenced complete never hit another claim.
THEOREM OutcomesAreOwned == Spec => []HolderOwnsRow
<1> USE DEF OwnInv
<1> QED BY OwnershipInvariant, PTL

\* A finished prompt job is finished: no late writer, recovery pass or operator
\* moves its row.
THEOREM DoneIsFinal == Spec => DoneStaysDone
<1>1. RowInv /\ OwnInv /\ [Next]_vars
        => [\A j \in Prompt : status[j] = "done" => status'[j] = "done"]_vars
  <2> SUFFICES ASSUME RowInv, OwnInv, Next, NEW j \in Prompt, status[j] = "done"
               PROVE  status'[j] = "done"
    OBVIOUS
  <2> USE DEF Prompt, RowInv, TypeOK, DueArePending, HandMatchesPc, OwnInv, HolderOwnsRow
  <2>1. ASSUME NEW k \in Jobs, Enqueue(k) PROVE status'[j] = "done"
    BY <2>1 DEF Enqueue
  <2>2. ASSUME NEW w \in Workers, Claim(w) PROVE status'[j] = "done"
    BY <2>2, ClaimTakesDueRow DEF Claimed
  <2>3. ASSUME NEW w \in Workers, Complete(w) \/ Fail(w) \/ Block(w)
        PROVE  status'[j] = "done"
    <3>1. hand[w] # j
      BY <2>3, QueueConstants DEF Complete, Fail, Block
    <3> QED BY <2>3, <3>1 DEF Complete, Fail, Block
  <2>4. ASSUME RecoverStalled \/ Unblock PROVE status'[j] = "done"
    BY <2>4 DEF RecoverStalled, StalledRows, Unblock, BlockedRows
  <2>5. ASSUME UNCHANGED status PROVE status'[j] = "done"
    BY <2>5
  <2> QED
    BY <2>1, <2>2, <2>3, <2>4, <2>5
    DEF Next, FallsDue, GoesStale, Dispatch, CompleteRefused, FailRefused, Crash
<1> QED BY <1>1, RowInvariant, OwnershipInvariant, PTL DEF Spec, DoneStaysDone

-----------------------------------------------------------------------------
(* Refinement of the lease.                                                *)

\* The lease state of row j, and its owner, as Lease's instance maps them.
State(j) ==
  CASE status[j] = "absent"  -> "absent"
    [] status[j] = "pending" -> "open"
    [] status[j] = "running" -> "leased"
    [] status[j] = "blocked" -> "held"
    [] OTHER                 -> "done"

Owner(j) == IF Held(j) THEN CHOOSE w \in Workers : Holds(w, j) ELSE NoJob

\* The mapped owner is the worker with the job in hand, and there is one at most.
LEMMA OwnerIsHolder ==
  ASSUME TypeOK, OneHolder, NEW j \in Prompt
  PROVE  /\ \A w \in Workers : hand[w] = j => Owner(j) = w
         /\ (\A w \in Workers : hand[w] # j) => Owner(j) = NoJob
BY QueueConstants DEF Prompt, TypeOK, OneHolder, Owner, Held, Holds

LEMMA OwnerIsHolderNext ==
  ASSUME TypeOK', OneHolder', NEW j \in Prompt
  PROVE  /\ \A w \in Workers : hand'[w] = j => Owner(j)' = w
         /\ (\A w \in Workers : hand'[w] # j) => Owner(j)' = NoJob
BY QueueConstants DEF Prompt, TypeOK, OneHolder, Owner, Held, Holds

\* A worker whose job is not a prompt one owns no lease, whatever it does.
LEMMA OthersOwnNothing ==
  ASSUME TypeOK, OneHolder, NEW w \in Workers, hand[w] \notin Prompt,
         NEW k \in Prompt
  PROVE  Owner(k) # w
<1>1. hand[w] # k /\ w # NoJob
  BY QueueConstants
<1>2. CASE \E v \in Workers : hand[v] = k
  BY <1>1, <1>2, OwnerIsHolder
<1>3. CASE \A v \in Workers : hand[v] # k
  BY <1>1, <1>3, OwnerIsHolder
<1> QED BY <1>2, <1>3

\* Every step of the queue is a step of the lease of the prompt jobs, or none: a
\* verdict comes from the owner of the claim it ends.
THEOREM QueueImplementsLease == Spec => ImplementsLease
<1> DEFINE Inv == RowInv /\ OwnInv
           S == [j \in Prompt |-> State(j)]
           O == [j \in Prompt |-> Owner(j)]
<1>1. Init => Lease!Init
  BY QueueConstants DEF Init, Lease!Init, Held, Holds, Prompt
<1>2. Inv /\ Inv' /\ [Next]_vars => [Lease!Next]_(Lease!leaseVars)
  <2> SUFFICES ASSUME Inv, Inv', [Next]_vars
               PROVE  Lease!Next \/ UNCHANGED <<S, O>>
    BY DEF Lease!leaseVars, State, Owner
  <2>0. Prompt \subseteq Jobs
    BY DEF Prompt
  <2>1. ASSUME NEW j \in Jobs, Enqueue(j) PROVE Lease!Next \/ UNCHANGED <<S, O>>
    <3>1. O' = O
      BY <2>1 DEF Enqueue, Owner, Held, Holds
    <3>2. CASE j \in Prompt
      <4>1. S[j] = "absent" /\ S' = [S EXCEPT ![j] = "open"]
        BY <2>0, <2>1, <3>2 DEF Enqueue, State, RowInv, TypeOK
      <4>2. Lease!Post(j)
        BY <3>1, <4>1 DEF Lease!Post, Lease!Move, State, Owner
      <4> QED BY <3>2, <4>2 DEF Lease!Next
    <3>3. CASE j \notin Prompt
      BY <2>0, <2>1, <3>1, <3>3 DEF Enqueue, State, RowInv, TypeOK
    <3> QED BY <3>2, <3>3
  <2>2. ASSUME NEW w \in Workers, Claim(w) PROVE Lease!Next \/ UNCHANGED <<S, O>>
    <3>1. PICK j \in Jobs : Claimed(w, j)
      BY <2>2, ClaimTakesDueRow DEF RowInv
    <3>2. CASE j \in Prompt
      <4>1. S[j] = "open" /\ S' = [S EXCEPT ![j] = "leased"]
        BY <2>0, <3>1, <3>2 DEF Claimed, State, RowInv, TypeOK, DueArePending
      <4>2. hand[w] \notin Prompt
        BY <3>1, QueueConstants DEF Claimed, RowInv, TypeOK, HandMatchesPc, Prompt
      <4>3. \A k \in Prompt : O[k] # w
        BY <4>2, OthersOwnNothing DEF RowInv, OwnInv
      <4>4. O' = [O EXCEPT ![j] = w]
        <5>1. \A k \in Prompt : O'[k] = IF k = j THEN w ELSE O[k]
          BY <2>0, <3>1, <4>2, OwnerIsHolder, OwnerIsHolderNext
          DEF Claimed, RowInv, TypeOK, HandMatchesPc, OwnInv
        <5> QED BY <5>1
      <4>5. Lease!Lease(w, j)
        BY <4>1, <4>3, <4>4 DEF Lease!Lease, Lease!Move, State, Owner
      <4> QED BY <3>2, <4>5 DEF Lease!Next
    <3>3. CASE j \notin Prompt
      <4>1. S' = S
        BY <2>0, <3>1, <3>3 DEF Claimed, State, RowInv, TypeOK
      <4>2. \A k \in Prompt : O'[k] = O[k]
        <5>1. hand[w] \notin Prompt /\ hand'[w] \notin Prompt
          BY <3>1, <3>3, QueueConstants
          DEF Claimed, RowInv, TypeOK, HandMatchesPc, Prompt
        <5> QED
          BY <2>0, <3>1, <5>1, OwnerIsHolder, OwnerIsHolderNext
          DEF Claimed, RowInv, TypeOK, OwnInv
      <4> QED BY <4>1, <4>2
    <3> QED BY <3>2, <3>3
  <2>3. ASSUME NEW w \in Workers, hand[w] \in Prompt,
               Complete(w) \/ Fail(w) \/ Block(w)
        PROVE  Lease!Next
    <3> DEFINE j == hand[w]
    <3>1. j \in Jobs /\ status[j] = "running"
      BY <2>0, <2>3 DEF OwnInv, HolderOwnsRow
    <3>2. O[j] = w
      BY <2>3, <3>1, OwnerIsHolder DEF RowInv, OwnInv
    <3>3. S[j] = "leased" /\ \E v \in {"done", "open", "held"} : S' = [S EXCEPT ![j] = v]
      <4>0. S[j] = "leased"
        BY <2>3, <3>1 DEF State
      <4>1. CASE Complete(w)
        <5>1. S' = [S EXCEPT ![j] = "done"]
          BY <2>0, <2>3, <3>1, <4>1 DEF Complete, State, RowInv, TypeOK
        <5> QED BY <4>0, <5>1
      <4>2. CASE Fail(w)
        <5>1. CASE Exhausted(j)
          <6>1. S' = [S EXCEPT ![j] = "held"]
            BY <2>0, <2>3, <3>1, <4>2, <5>1 DEF Fail, State, RowInv, TypeOK
          <6> QED BY <4>0, <6>1
        <5>2. CASE ~Exhausted(j)
          <6>1. S' = [S EXCEPT ![j] = "open"]
            BY <2>0, <2>3, <3>1, <4>2, <5>2 DEF Fail, State, RowInv, TypeOK
          <6> QED BY <4>0, <6>1
        <5> QED BY <5>1, <5>2
      <4>3. CASE Block(w)
        <5>1. S' = [S EXCEPT ![j] = "held"]
          BY <2>0, <2>3, <3>1, <4>3 DEF Block, State, RowInv, TypeOK
        <5> QED BY <4>0, <5>1
      <4> QED BY <2>3, <4>1, <4>2, <4>3
    <3>4. O' = [O EXCEPT ![j] = NoJob]
      <4>1. hand' = [hand EXCEPT ![w] = NoJob]
        BY <2>3 DEF Complete, Fail, Block, Release
      <4>2. \A k \in Prompt : O'[k] = IF k = j THEN NoJob ELSE O[k]
        BY <2>0, <2>3, <3>1, <4>1, QueueConstants, OwnerIsHolder, OwnerIsHolderNext
        DEF RowInv, TypeOK, OwnInv, OneHolder
      <4> QED BY <4>2
    <3>5. Lease!Settle(j)
      BY <2>3, <3>1, <3>2, <3>3, <3>4
      DEF Lease!Settle, Lease!Move, Lease!Owned, State, Owner
    <3> QED BY <2>3, <3>5 DEF Lease!Next
  <2>4. ASSUME NEW w \in Workers, hand[w] \in Prompt, Crash(w)
        PROVE  Lease!Next
    <3> DEFINE j == hand[w]
    <3>1. j \in Jobs /\ status[j] = "running"
      BY <2>0, <2>4 DEF OwnInv, HolderOwnsRow
    <3>2. O[j] = w /\ S[j] = "leased" /\ S' = S
      BY <2>4, <3>1, OwnerIsHolder DEF Crash, RowInv, OwnInv, State
    <3>3. O' = [O EXCEPT ![j] = NoJob]
      <4>1. \A k \in Prompt : O'[k] = IF k = j THEN NoJob ELSE O[k]
        BY <2>0, <2>4, <3>1, QueueConstants, OwnerIsHolder, OwnerIsHolderNext
        DEF Crash, Release, RowInv, TypeOK, OwnInv, OneHolder
      <4> QED BY <4>1
    <3>4. Lease!Orphan(j)
      BY <2>4, <3>1, <3>2, <3>3 DEF Lease!Orphan, Lease!Owned, State, Owner
    <3> QED BY <2>4, <3>4 DEF Lease!Next
  <2>5. ASSUME NEW w \in Workers, hand[w] \notin Prompt,
               Complete(w) \/ Fail(w) \/ Block(w) \/ FailRefused(w) \/ Crash(w)
        PROVE  UNCHANGED <<S, O>>
    <3>1. hand' = [hand EXCEPT ![w] = NoJob]
      BY <2>5 DEF Complete, Fail, Block, FailRefused, Crash, Release
    <3>2. \A k \in Prompt : status'[k] = status[k]
      BY <2>0, <2>5 DEF Complete, Fail, Block, FailRefused, Crash, RowInv, TypeOK
    <3>3. \A k \in Prompt : O'[k] = O[k]
      BY <2>0, <2>5, <3>1, QueueConstants, OwnerIsHolder, OwnerIsHolderNext
      DEF RowInv, TypeOK, OwnInv, OneHolder
    <3>4. S' = S
      BY <3>2 DEF State
    <3> QED BY <3>3, <3>4
  <2>6. ASSUME RecoverStalled PROVE Lease!Next
    <3> DEFINE J == StalledRows \cap Prompt
    <3>1. \A j \in J : S[j] = "leased" /\ O[j] = NoJob
      BY <2>0, <2>6, OwnerIsHolder, QueueConstants
      DEF StalledRows, State, RowInv, TypeOK, OwnInv, HolderOwnsRow
    <3>2. S' = [j \in Prompt |-> IF j \in J THEN "open" ELSE S[j]]
      BY <2>0, <2>6 DEF RecoverStalled, State
    <3>3. O' = O
      BY <2>6 DEF RecoverStalled, Owner, Held, Holds
    <3>4. Lease!Reopen(J, "leased")
      BY <3>1, <3>2, <3>3 DEF Lease!Reopen, State, Owner
    <3>5. J \in SUBSET Prompt
      OBVIOUS
    <3> QED BY <3>4, <3>5 DEF Lease!Next
  <2>7. ASSUME Unblock PROVE Lease!Next
    <3>1. PICK J \in SUBSET BlockedRows :
            status' = [j \in Jobs |-> IF j \in J THEN "pending" ELSE status[j]]
      BY <2>7 DEF Unblock
    <3> DEFINE K == J \cap Prompt
    <3>2. \A j \in K : S[j] = "held" /\ O[j] = NoJob
      BY <2>0, OwnerIsHolder, QueueConstants
      DEF BlockedRows, State, RowInv, TypeOK, OwnInv, HolderOwnsRow
    <3>3. S' = [j \in Prompt |-> IF j \in K THEN "open" ELSE S[j]]
      BY <2>0, <3>1 DEF State
    <3>4. O' = O
      BY <2>7 DEF Unblock, Owner, Held, Holds
    <3>5. Lease!Reopen(K, "held")
      BY <3>2, <3>3, <3>4 DEF Lease!Reopen, State, Owner
    <3>6. K \in SUBSET Prompt
      OBVIOUS
    <3> QED BY <3>5, <3>6 DEF Lease!Next
  <2>8. ASSUME UNCHANGED <<status, hand>> PROVE UNCHANGED <<S, O>>
    BY <2>8 DEF State, Owner, Held, Holds
  <2>9. ASSUME NEW w \in Workers, hand[w] \in Prompt, FailRefused(w) PROVE FALSE
    BY <2>9 DEF FailRefused, OwnInv, HolderOwnsRow
  <2> QED
    BY <2>1, <2>2, <2>3, <2>4, <2>5, <2>6, <2>7, <2>8, <2>9
    DEF Next, vars, FallsDue, GoesStale, Dispatch, CompleteRefused
<1> QED BY <1>1, <1>2, RowInvariant, OwnershipInvariant, PTL DEF Spec, ImplementsLease, Lease!Spec
=============================================================================
