---------------------------- MODULE ConsoleProofs ----------------------------
(***************************************************************************)
(* The operator's console: decisions on claims, findings, place links and  *)
(* corrections (Desk), replies about a dispute (Disputes) and feature      *)
(* switches (Features). Every theorem holds for any number of operators,   *)
(* rows, servers and mailers, and any bound of the models. Each part       *)
(* proves its types first, with what an open transaction may be, then what *)
(* the row locks guarantee, and its property from the two.                 *)
(***************************************************************************)
EXTENDS Desk, Disputes, Features, TLAPS

\* What kinds of row there are, and that they are apart.
LEMMA DeskKinds ==
  /\ Texts \subseteq Items /\ Items \subseteq Rows /\ Pairs \subseteq Rows /\ Meeting \in Rows
  /\ Meeting \notin Items \cup Pairs /\ Items \cap Pairs = {}
  /\ Nothing \notin Rows /\ Nothing \notin Wordings
  /\ Inferred \subseteq Items
BY DeskConstants DEF Rows, Items, Texts

\* What a decision writes: an edit a wording, everything else a standing.
LEMMA DeskNews ==
  ASSUME NEW op \in Ops, NEW x \in News(op)
  PROVE  /\ op # "edit" => x \in Standings
         /\ op = "edit" => x \in Wordings
         /\ x \in Values
BY DEF News, Ops, Standings, Values

\* An open transaction is about a row of its kind and writes what its kind may.
Deciding == {"approve", "reject", "retract"}
Sound(t) ==
  /\ t.op \in Ops /\ t.row \in Rows /\ t.new \in News(t.op)
  /\ t.op \in Deciding => t.row \in Items
  /\ t.op = "edit" => t.row \in Findings
  /\ t.op = "judge" => t.row \in Pairs
  /\ t.op \in {"batch", "publish"} => t.row = Meeting
OpenSound == \A o \in Operators : open[o] # Closed => Sound(open[o])

\* An open transaction stays what its kind may be.
LEMMA DeskTyped == DeskSpec => [](DeskTypeOK /\ OpenSound)
<1>1. DeskInit => DeskTypeOK /\ OpenSound
  <2> SUFFICES ASSUME DeskInit PROVE DeskTypeOK /\ OpenSound
    OBVIOUS
  <2>1. NoPin \in Pin /\ Closed \in Transaction
    BY DeskConstants DEF NoPin, Pin, Closed, Transaction, Values
  <2>2. status \in [Rows -> Standings] /\ wording \in [Texts -> Wordings]
    BY DEF DeskInit, Standings
  <2>3. pin \in [Sentences -> Pin] /\ open \in [Operators -> Transaction]
    BY <2>1 DEF DeskInit
  <2>4. build \in 1..MaxBuilds /\ audit \in Seq(LogRow) /\ card \in [Operators -> Items \cup {Nothing}]
    BY DeskConstants DEF DeskInit
  <2> QED BY <2>2, <2>3, <2>4 DEF DeskTypeOK, OpenSound, DeskInit
<1>2. DeskTypeOK /\ OpenSound /\ [DeskNext]_deskVars => (DeskTypeOK /\ OpenSound)'
  <2> SUFFICES ASSUME DeskTypeOK, OpenSound, [DeskNext]_deskVars PROVE DeskTypeOK' /\ OpenSound'
    OBVIOUS
  <2>0. open' = open => OpenSound'
    BY DEF OpenSound
  <2>1. ASSUME NEW x \in Findings, Raise(x) PROVE DeskTypeOK' /\ OpenSound'
    BY <2>0, <2>1 DEF Raise, DeskTypeOK, Standings
  <2>2. CASE EnsureRequests
    <3>1. status' \in [Rows -> Standings]
      BY <2>2 DEF EnsureRequests, DeskTypeOK, Standings
    <3> QED BY <2>0, <2>2, <3>1 DEF EnsureRequests, DeskTypeOK
  <2>3. ASSUME NEW o \in Operators, (\E x \in Items : LoadCard(o, x)) \/ LeaveCard(o)
        PROVE  DeskTypeOK' /\ OpenSound'
    BY <2>0, <2>3 DEF LoadCard, LeaveCard, DeskTypeOK
  <2>4. ASSUME NEW o \in Operators, NEW op \in Ops, NEW r \in Rows, Begin(o, op, r)
        PROVE  DeskTypeOK' /\ OpenSound'
    <3>1. PICK new \in News(op) :
            open' = [open EXCEPT ![o] = [op |-> op, row |-> r, old |-> Current(op, r), new |-> new]]
      BY <2>4 DEF Begin
    <3> DEFINE t == [op |-> op, row |-> r, old |-> Current(op, r), new |-> new]
    <3>2. Sound(t)
      <4>1. Allowed(op, r)
        BY <2>4 DEF Begin
      <4> QED BY <3>1, <4>1, DeskConstants DEF Allowed, Sound, Deciding, Ops, Items
    <3>3. Current(op, r) \in Values
      <4>1. op = "edit" => r \in Texts
        BY <3>2, DeskConstants DEF Sound, Texts
      <4> QED BY <4>1 DEF Current, Values, DeskTypeOK
    <3>4. t \in Transaction
      BY <3>1, <3>3, DeskNews DEF Transaction
    <3>5. open' \in [Operators -> Transaction]
      BY <3>1, <3>4 DEF DeskTypeOK
    <3>6. OpenSound'
      BY <3>1, <3>2 DEF OpenSound, DeskTypeOK
    <3> QED BY <2>4, <3>5, <3>6 DEF Begin, DeskTypeOK
  <2>5. ASSUME NEW o \in Operators, Commit(o) PROVE DeskTypeOK' /\ OpenSound'
    <3> DEFINE t == open[o]
    <3>1. Sound(t) /\ t \in Transaction
      BY <2>5 DEF Commit, OpenSound, DeskTypeOK
    <3>2. /\ t.row \in Rows
          /\ t.op # "edit" => t.new \in Standings
          /\ t.op = "edit" => t.new \in Wordings /\ t.row \in Texts
      BY <3>1, DeskNews DEF Sound, Texts
    <3>3. status' \in [Rows -> Standings] /\ wording' \in [Texts -> Wordings]
      BY <2>5, <3>2 DEF Commit, DeskTypeOK
    <3>4. pin' \in [Sentences -> Pin]
      <4>1. ASSUME t.row \in Sentences PROVE Pinned(t.row) \in Pin
        <5>1. wording[t.row] \in Wordings /\ build \in 0..MaxBuilds
          BY <4>1, DeskConstants DEF DeskTypeOK, Texts
        <5> QED BY <5>1 DEF Pinned, Pin
      <4> QED BY <2>5, <4>1 DEF Commit, DeskTypeOK
    <3>5. audit' \in Seq(LogRow)
      <4>1. Entry(o) \in LogRow
        <5>1. TextOf(t.row) \in Wordings \cup {Nothing}
          BY <3>2 DEF TextOf, DeskTypeOK
        <5>2. t.op \in Ops /\ t.row \in Rows /\ t.old \in Values /\ t.new \in Values
          BY <3>1 DEF Sound, Transaction
        <5> QED BY <5>1, <5>2 DEF Entry, LogRow
      <4> QED BY <2>5, <4>1 DEF Commit, DeskTypeOK
    <3>6. open' \in [Operators -> Transaction] /\ card' \in [Operators -> Items \cup {Nothing}]
      <4>1. Closed \in Transaction
        BY DEF Closed, Transaction, Values
      <4> QED BY <2>5, <4>1 DEF Commit, DeskTypeOK
    <3>7. OpenSound'
      BY <2>5 DEF Commit, OpenSound, DeskTypeOK
    <3> QED BY <2>5, <3>3, <3>4, <3>5, <3>6, <3>7 DEF Commit, DeskTypeOK
  <2>6. ASSUME NEW o \in Operators, Rollback(o) PROVE DeskTypeOK' /\ OpenSound'
    <3>1. Closed \in Transaction
      BY DEF Closed, Transaction, Values
    <3> QED BY <2>6, <3>1 DEF Rollback, DeskTypeOK, OpenSound
  <2>7. ASSUME NEW c \in Sentences, Remerge(c) PROVE DeskTypeOK' /\ OpenSound'
    BY <2>0, <2>7 DEF Remerge, DeskTypeOK
  <2>8. CASE Deploy
    BY <2>0, <2>8, DeskConstants DEF Deploy, DeskTypeOK
  <2>9. CASE UNCHANGED deskVars
    BY <2>0, <2>9 DEF deskVars, DeskTypeOK
  <2> QED BY <2>1, <2>2, <2>3, <2>4, <2>5, <2>6, <2>7, <2>8, <2>9 DEF DeskNext
<1> QED BY <1>1, <1>2, PTL DEF DeskSpec

\* The desk's rows, log and open transactions keep their types, whichever
\* operators decide, publish or edit at once, while extraction merges into the
\* claims (claims.ts, queue.ts, place-links.ts).
THEOREM DeskTypeCorrect == DeskSpec => []DeskTypeOK
BY DeskTyped, PTL
-----------------------------------------------------------------------------
\* Who has locked a row it read finds it as it read it, and is alone.
AsRead(t) ==
  /\ t.op \in {"approve", "reject"} => status[t.row] = "held" /\ t.old = "held"
  /\ t.op = "retract" => status[t.row] = "approved" /\ t.old = "approved"
  /\ t.op = "judge" /\ t.old # "none" => status[t.row] = t.old
DeskLocked ==
  /\ \A o \in Operators : open[o] # Closed => AsRead(open[o])
  /\ \A o, p \in Operators : \A r \in Rows : Holds(o, r) /\ Holds(p, r) => o = p
  /\ \A r \in Pairs : status[r] \in {"none", "same", "different"}

\* What FOR UPDATE guarantees: no two open transactions hold one row, and the
\* holder finds the row as it read it until it commits.
LEMMA DeskLocks == DeskSpec => []DeskLocked
<1>1. DeskInit => DeskLocked
  BY DeskConstants DEF DeskInit, DeskLocked, Holds, Closed, Locking, Rows, Items
<1>2. DeskTypeOK /\ OpenSound /\ OpenSound' /\ DeskLocked /\ [DeskNext]_deskVars => DeskLocked'
  <2> SUFFICES ASSUME DeskTypeOK, OpenSound, OpenSound', DeskLocked, [DeskNext]_deskVars PROVE DeskLocked'
    OBVIOUS
  <2>1. CASE UNCHANGED <<status, open>>
    BY <2>1 DEF DeskLocked, AsRead, Holds
  <2>2. ASSUME NEW x \in Findings, Raise(x) PROVE DeskLocked'
    BY <2>2, DeskKinds DEF Raise, DeskTypeOK, DeskLocked, AsRead, OpenSound, Sound, Deciding, Holds, Texts
  <2>3. CASE EnsureRequests
    BY <2>3, DeskKinds DEF EnsureRequests, DeskTypeOK, DeskLocked, AsRead, OpenSound, Sound, Deciding, Holds
  <2>4. ASSUME NEW o \in Operators, NEW op \in Ops, NEW r \in Rows, Begin(o, op, r)
        PROVE  DeskLocked'
    <3>1. PICK new \in News(op) :
            open' = [open EXCEPT ![o] = [op |-> op, row |-> r, old |-> Current(op, r), new |-> new]]
      BY <2>4 DEF Begin
    <3>2. Allowed(op, r) /\ status' = status /\ (op \in Locking => Free(r))
      BY <2>4 DEF Begin
    <3>3. AsRead([op |-> op, row |-> r, old |-> Current(op, r), new |-> new])
      BY <3>2 DEF Allowed, AsRead, Current
    <3>4. \A p \in Operators : open'[p] # Closed => AsRead(open[p])'
      BY <3>1, <3>2, <3>3 DEF DeskLocked, AsRead, DeskTypeOK
    <3>5. \A p, q \in Operators : \A x \in Rows : Holds(p, x)' /\ Holds(q, x)' => p = q
      BY <3>1, <3>2 DEF DeskLocked, Holds, Free, DeskTypeOK
    <3> QED BY <3>2, <3>4, <3>5 DEF DeskLocked
  <2>5. ASSUME NEW o \in Operators, Commit(o) PROVE DeskLocked'
    <3> DEFINE t == open[o]
    <3>1. /\ open' = [open EXCEPT ![o] = Closed] /\ t # Closed
          /\ \A p \in Operators \ {o} : ~Holds(p, t.row)
      BY <2>5 DEF Commit
    <3>2. \A r \in Rows : r # t.row => status'[r] = status[r]
      BY <2>5 DEF Commit, DeskTypeOK
    <3>3. ASSUME NEW p \in Operators, open'[p] # Closed PROVE AsRead(open[p])'
      <4>1. p # o /\ open'[p] = open[p] /\ open[p] # Closed
        BY <3>1, <3>3 DEF DeskTypeOK
      <4>2. AsRead(open[p]) /\ Sound(open[p])
        BY <4>1 DEF DeskLocked, OpenSound
      <4>3. open[p].op \in Deciding \/ (open[p].op = "judge" /\ open[p].old # "none")
            => open[p].row # t.row
        BY <3>1, <4>1 DEF Holds, Deciding, Locking
      <4> QED BY <3>2, <4>1, <4>2, <4>3 DEF AsRead, Sound, Deciding
    <3>4. \A p, q \in Operators : \A x \in Rows : Holds(p, x)' /\ Holds(q, x)' => p = q
      BY <3>1 DEF DeskLocked, Holds, DeskTypeOK, Closed, Locking
    <3>5. \A r \in Pairs : status'[r] \in {"none", "same", "different"}
      <4>1. Sound(t)
        BY <3>1 DEF OpenSound
      <4>2. t.row \in Pairs => t.op = "judge"
        BY <4>1, DeskKinds DEF Sound, Ops, Deciding, Texts
      <4>3. t.op = "judge" => t.new \in {"same", "different"}
        BY <4>1 DEF Sound, News
      <4> QED BY <2>5, <4>2, <4>3, <3>2, DeskKinds DEF Commit, DeskLocked, DeskTypeOK
    <3> QED BY <3>3, <3>4, <3>5 DEF DeskLocked
  <2>6. ASSUME NEW o \in Operators, Rollback(o) PROVE DeskLocked'
    BY <2>6 DEF Rollback, DeskTypeOK, DeskLocked, AsRead, Holds, Closed, Locking
  <2> QED BY <2>1, <2>2, <2>3, <2>4, <2>5, <2>6
          DEF DeskNext, LoadCard, LeaveCard, Remerge, Deploy, deskVars
<1> QED BY <1>1, <1>2, DeskTyped, PTL DEF DeskSpec

\* What a commit that decides a row finds: the standing it read.
LEMMA CommitReads ==
  ASSUME NEW o \in Operators, DeskTypeOK, OpenSound, DeskLocked, Commit(o),
         open[o].op # "edit", open[o].row \in Items \cup Pairs
  PROVE  /\ open[o].old = status[open[o].row]
         /\ open[o].new \notin {"none", "flagged"}
         /\ open[o].row \in Items => status[open[o].row] \in {"held", "approved"}
<1>1. open[o] # Closed /\ ~Clash(o)
  BY DEF Commit
<1>2. Sound(open[o]) /\ AsRead(open[o])
  BY <1>1 DEF OpenSound, DeskLocked
<1>3. open[o].op \in Deciding \cup {"judge"}
  BY <1>2, DeskKinds DEF Sound, Ops, Deciding
<1>4. open[o].new \notin {"none", "flagged"}
  BY <1>2, <1>3 DEF Sound, News, Deciding
<1>5. open[o].op = "judge" => open[o].row \in Pairs
  BY <1>2 DEF Sound
<1> QED BY <1>1, <1>2, <1>3, <1>4, <1>5, DeskKinds DEF AsRead, Clash, Deciding

-----------------------------------------------------------------------------
\* What nobody has decided, the log does not tell of.
Untold ==
  \A r \in Items \cup Pairs : status[r] \in {"none", "flagged"} =>
    \A i \in 1..Len(audit) : ~Tells(i, r)

\* The audit log tells how every item and pair came to stand as it does, each
\* row going on from the one before, also when two operators decide at once
\* (the FOR UPDATE of each loadForDecision, and the unique index of a first
\* judgement).
THEOREM DecisionsAreLogged == DeskSpec => []DecisionsChain
<1>1. DeskInit => Untold /\ DecisionsChain
  BY DEF DeskInit, Untold, DecisionsChain
<1>2. DeskTypeOK /\ OpenSound /\ DeskLocked /\ Untold /\ DecisionsChain /\ [DeskNext]_deskVars
      => (Untold /\ DecisionsChain)'
  <2> SUFFICES ASSUME DeskTypeOK, OpenSound, DeskLocked, Untold, DecisionsChain, [DeskNext]_deskVars
               PROVE  (Untold /\ DecisionsChain)'
    OBVIOUS
  <2>1. CASE UNCHANGED <<status, audit>>
    BY <2>1 DEF Untold, DecisionsChain, Tells, Silent
  <2>2. ASSUME NEW x \in Findings, Raise(x) PROVE (Untold /\ DecisionsChain)'
    <3>1. audit' = audit /\ x \in Items /\ \A i \in 1..Len(audit) : ~Tells(i, x)
      BY <2>2 DEF Raise, Untold, Items
    <3>2. \A r \in Items \cup Pairs : r # x => status'[r] = status[r]
      BY <2>2, DeskKinds DEF Raise, DeskTypeOK
    <3> QED BY <3>1, <3>2 DEF Untold, DecisionsChain, Tells, Silent
  <2>3. CASE EnsureRequests
    <3>1. audit' = audit
      BY <2>3 DEF EnsureRequests
    <3>2. \A r \in Items \cup Pairs :
            status'[r] = status[r] \/ (\A i \in 1..Len(audit) : ~Tells(i, r))
      BY <2>3, DeskKinds DEF EnsureRequests, DeskTypeOK, Untold
    <3>3. \A r \in Items \cup Pairs :
            status'[r] \in {"none", "flagged"} => status[r] \in {"none", "flagged"}
      BY <2>3, DeskKinds DEF EnsureRequests, DeskTypeOK
    <3> QED BY <3>1, <3>2, <3>3 DEF Untold, DecisionsChain, Tells, Silent
  <2>4. ASSUME NEW o \in Operators, Commit(o) PROVE (Untold /\ DecisionsChain)'
    <3> DEFINE t == open[o]
    <3>0. PICK n \in Nat : n = Len(audit)
      BY DEF DeskTypeOK
    <3>1. /\ audit' = Append(audit, Entry(o)) /\ Len(audit') = n + 1
          /\ \A i \in 1..n : audit'[i] = audit[i]
          /\ audit'[n + 1] = Entry(o)
      BY <2>4, <3>0 DEF Commit, DeskTypeOK
    <3>2. \A r \in Rows : \A i \in 1..n : Tells(i, r)' <=> Tells(i, r)
      BY <3>1 DEF Tells
    <3>3. \A r \in Rows : \A i, j \in Nat : i >= 1 /\ j <= n => (Silent(i, j, r)' <=> Silent(i, j, r))
      BY <3>1, <3>2 DEF Silent
    <3>4. \A r \in Rows : Tells(n + 1, r)' <=> r = t.row /\ t.op # "edit"
      <4>1. Entry(o).row = t.row /\ (Entry(o).field <=> t.op = "edit")
        BY DEF Entry
      <4> QED BY <3>1, <4>1 DEF Tells
    <3>5. \A r \in Rows : r # t.row \/ t.op = "edit" => status'[r] = status[r]
      BY <2>4 DEF Commit, DeskTypeOK
    <3>6. t.row \in Items \cup Pairs /\ t.op # "edit" =>
            /\ t.old = status[t.row] /\ status'[t.row] = t.new /\ t.new \notin {"none", "flagged"}
      BY <2>4, CommitReads, DeskKinds DEF Commit, DeskTypeOK
    <3>7. Entry(o).old = t.old /\ Entry(o).new = t.new
      BY DEF Entry
    <3>8. Untold'
      BY <3>0, <3>1, <3>2, <3>4, <3>5, <3>6, DeskKinds DEF Untold
    <3>9. ASSUME NEW r \in Items \cup Pairs, NEW i \in 1..(n+1), Tells(i, r)'
          PROVE  /\ \A j \in i+1..n+1 :
                      Tells(j, r)' /\ Silent(i + 1, j - 1, r)' => audit'[j].old = audit'[i].new
                 /\ Silent(i + 1, n + 1, r)' => audit'[i].new = status'[r]
      <4>0. r \in Rows
        BY DeskKinds
      <4>1. CASE i = n + 1
        <5>1. r = t.row /\ t.op # "edit"
          BY <3>4, <3>9, <4>0, <4>1
        <5> QED BY <3>1, <3>6, <3>7, <4>1, <5>1
      <4>2. CASE i \in 1..n
        <5>1. Tells(i, r)
          BY <3>2, <3>9, <4>0, <4>2
        <5>2. ASSUME Silent(i + 1, n, r) PROVE audit[i].new = status[r]
          BY <3>0, <4>2, <5>1, <5>2 DEF DecisionsChain
        <5>3. ASSUME NEW j \in i+1..n+1, Tells(j, r)', Silent(i + 1, j - 1, r)'
              PROVE  audit'[j].old = audit'[i].new
          <6>1. Silent(i + 1, j - 1, r)
            <7>1. i + 1 \in Nat /\ i + 1 >= 1 /\ j - 1 \in Nat /\ j - 1 <= n
              BY <4>2
            <7> QED BY <3>3, <4>0, <5>3, <7>1
          <6>2. CASE j = n + 1
            <7>1. Silent(i + 1, n, r)
              BY <3>1, <6>1, <6>2
            <7> QED BY <3>1, <3>4, <3>6, <3>7, <4>0, <4>2, <5>2, <5>3, <6>2, <7>1
          <6>3. CASE j \in i+1..n
            <7>1. Tells(j, r)
              BY <3>1, <3>2, <4>0, <4>2, <5>3, <6>3
            <7> QED BY <3>0, <3>1, <4>2, <5>1, <6>1, <6>3, <7>1 DEF DecisionsChain
          <6> QED BY <3>1, <6>2, <6>3
        <5>4. ASSUME Silent(i + 1, n + 1, r)' PROVE audit'[i].new = status'[r]
          <6>1. ~Tells(n + 1, r)' /\ Silent(i + 1, n, r)'
            <7>1. n + 1 \in i+1..n+1 /\ i+1..n \subseteq i+1..n+1
              BY <3>1, <4>2
            <7> QED BY <5>4, <7>1 DEF Silent
          <6>2. Silent(i + 1, n, r)
            <7>1. i + 1 \in Nat /\ i + 1 >= 1 /\ n \in Nat /\ n <= n
              BY <3>1, <4>2
            <7> QED BY <3>3, <4>0, <6>1, <7>1
          <6>3. status'[r] = status[r]
            BY <3>4, <3>5, <4>0, <6>1
          <6>4. audit'[i].new = audit[i].new /\ audit[i].new = status[r]
            BY <3>1, <4>2, <5>2, <6>2
          <6> QED BY <6>3, <6>4
        <5> QED BY <5>3, <5>4
      <4> QED BY <3>1, <4>1, <4>2
    <3> QED BY <3>1, <3>8, <3>9 DEF DecisionsChain
  <2> QED BY <2>1, <2>2, <2>3, <2>4
          DEF DeskNext, LoadCard, LeaveCard, Begin, Rollback, Remerge, Deploy, deskVars
<1> QED BY <1>1, <1>2, DeskTyped, DeskLocks, PTL DEF DeskSpec

-----------------------------------------------------------------------------
\* What was rejected or retracted is not revived by a decision that was under
\* way at the time (claims.ts, queue.ts, place-links.ts).
THEOREM RefusalsStand == DeskSpec => RefusedStaysRefused
<1>1. DeskTypeOK /\ OpenSound /\ DeskLocked /\ [DeskNext]_deskVars =>
      [\A r \in Items : status[r] \in {"rejected", "retracted"} => status'[r] = status[r]]_deskVars
  <2> SUFFICES ASSUME DeskTypeOK, OpenSound, DeskLocked, [DeskNext]_deskVars,
                      NEW r \in Items, status[r] \in {"rejected", "retracted"}
               PROVE  status'[r] = status[r]
    OBVIOUS
  <2>1. CASE status' = status
    BY <2>1
  <2>2. ASSUME NEW x \in Findings, Raise(x) PROVE status'[r] = status[r]
    BY <2>2, DeskKinds DEF Raise, DeskTypeOK
  <2>3. CASE EnsureRequests
    BY <2>3, DeskKinds DEF EnsureRequests
  <2>4. ASSUME NEW o \in Operators, Commit(o) PROVE status'[r] = status[r]
    <3>1. open[o].op = "edit" \/ open[o].row # r
      BY <2>4, CommitReads
    <3> QED BY <2>4, <3>1, DeskKinds DEF Commit, DeskTypeOK
  <2> QED BY <2>1, <2>2, <2>3, <2>4
          DEF DeskNext, LoadCard, LeaveCard, Begin, Rollback, Remerge, Deploy, deskVars
<1> QED BY <1>1, DeskTyped, DeskLocks, PTL DEF DeskSpec, RefusedStaysRefused

\* A text is pinned by the approval that the log tells of.
PinsAreSaid ==
  \A c \in Sentences : pin[c] # NoPin =>
    \E i \in 1..Len(audit) :
      audit[i].op = "approve" /\ audit[i].row = c /\ audit[i].said = pin[c].text

\* The sentence a reader is shown was approved in these words, although
\* extraction may have merged into the claim between the approval and the
\* reading (claims.ts: renderApprovedClaim).
THEOREM PublishedAsApproved == DeskSpec => []PublishedSentenceHolds
<1>1. DeskInit => PinsAreSaid
  BY DEF DeskInit, PinsAreSaid
<1>2. DeskTypeOK /\ OpenSound /\ PinsAreSaid /\ [DeskNext]_deskVars => PinsAreSaid'
  <2> SUFFICES ASSUME DeskTypeOK, OpenSound, PinsAreSaid, [DeskNext]_deskVars,
                      NEW c \in Sentences, pin'[c] # NoPin
               PROVE  \E i \in 1..Len(audit') :
                        audit'[i].op = "approve" /\ audit'[i].row = c /\ audit'[i].said = pin'[c].text
    BY DEF PinsAreSaid
  <2>1. CASE UNCHANGED <<pin, audit>>
    BY <2>1 DEF PinsAreSaid
  <2>2. ASSUME NEW o \in Operators, Commit(o)
        PROVE  \E i \in 1..Len(audit') :
                 audit'[i].op = "approve" /\ audit'[i].row = c /\ audit'[i].said = pin'[c].text
    <3> DEFINE n == Len(audit)
    <3>1. /\ audit' = Append(audit, Entry(o)) /\ n \in Nat /\ Len(audit') = n + 1
          /\ \A i \in 1..n : audit'[i] = audit[i]
          /\ audit'[n + 1] = Entry(o)
      BY <2>2 DEF Commit, DeskTypeOK
    <3>2. CASE open[o].op = "approve" /\ open[o].row = c
      <4>1. pin'[c] = Pinned(c)
        BY <2>2, <3>2 DEF Commit, DeskTypeOK
      <4>2. pin'[c].text = wording[c]
        BY <4>1 DEF Pinned
      <4>3. Entry(o).op = "approve" /\ Entry(o).row = c /\ Entry(o).said = wording[c]
        BY <3>2 DEF Entry, TextOf, Texts
      <4> QED BY <3>1, <4>2, <4>3
    <3>3. CASE ~(open[o].op = "approve" /\ open[o].row = c)
      <4>1. pin'[c] = pin[c]
        BY <2>2, <3>3 DEF Commit, DeskTypeOK
      <4> QED BY <3>1, <4>1 DEF PinsAreSaid
    <3> QED BY <3>2, <3>3
  <2> QED BY <2>1, <2>2
          DEF DeskNext, Raise, EnsureRequests, LoadCard, LeaveCard, Begin, Rollback, Remerge, Deploy,
              deskVars
<1>3. DeskTypeOK /\ PinsAreSaid => PublishedSentenceHolds
  <2> SUFFICES ASSUME DeskTypeOK, PinsAreSaid, NEW c \in Sentences, Public(c)
               PROVE  \E i \in 1..Len(audit) :
                        audit[i].op = "approve" /\ audit[i].row = c /\ audit[i].said = wording[c]
    BY DEF PublishedSentenceHolds
  <2>1. pin[c] = [text |-> wording[c], build |-> build]
    BY DEF Public, Renderable
  <2>2. wording[c] \in Wordings
    BY DEF DeskTypeOK, Texts
  <2>3. pin[c].text = wording[c] /\ pin[c] # NoPin
    BY <2>1, <2>2, DeskConstants DEF NoPin
  <2> QED BY <2>3 DEF PinsAreSaid
<1> QED BY <1>1, <1>2, <1>3, DeskTyped, PTL DEF DeskSpec

\* A decision puts at most its own reply into the ledger.
LEMMA QueueReplyFacts ==
  ASSUME DisputesTypeOK, NEW n \in Reply, QueueReply(n)
  PROVE  /\ ledger' \in [Reply -> {"none", "queued", "unaddressed", "sent", "suppressed", "failed"}]
         /\ ledger'[n] # "none" /\ \A m \in Reply : m # n => ledger'[m] = ledger[m]
         /\ owed' \subseteq Reply /\ \A m \in owed' : ledger'[m] # "none" /\ m[1] \in Repliable
<1>1. ledger \in [Reply -> {"none", "queued", "unaddressed", "sent", "suppressed", "failed"}]
      /\ owed \subseteq Reply /\ \A m \in owed : ledger[m] # "none" /\ m[1] \in Repliable
  BY DEF DisputesTypeOK
<1>2. CASE ledger[n] # "none"
  BY <1>1, <1>2 DEF QueueReply
<1>3. CASE ledger[n] = "none"
  <2>1. /\ ledger' = [ledger EXCEPT ![n] = IF Addressed(n) THEN "queued" ELSE "unaddressed"]
        /\ owed' = owed \cup {x \in {n} : Addressed(x)}
    BY <1>3 DEF QueueReply
  <2>2. ledger'[n] \in {"queued", "unaddressed"} /\ \A m \in Reply : m # n => ledger'[m] = ledger[m]
    BY <1>1, <2>1
  <2> QED BY <1>1, <2>1, <2>2 DEF Addressed
<1> QED BY <1>2, <1>3

\* What an operator has locked is open, and nobody else has it.
LocksHeld ==
  \A o, p \in Deciders : \A d \in decision[o] : \A e \in decision[p] :
    contest[d[1]] = "received" /\ (d[1] = e[1] => o = p /\ d = e)

\* Contests, ledger, ticks and mails keep their types, and a reply that is owed
\* is in the ledger (disputes.ts, dispute-notifications.ts).
THEOREM DisputesTypeCorrect == DisputesSpec => []DisputesTypeOK
<1>1. DisputesInit => DisputesTypeOK
  <2> SUFFICES ASSUME DisputesInit PROVE DisputesTypeOK
    OBVIOUS
  <2>1. NoReplyTick \in ReplyTick /\ 0 \in 0..MaxSetbacks
    BY DisputesConstants DEF NoReplyTick, ReplyTick
  <2> QED BY <2>1 DEF DisputesInit, DisputesTypeOK
<1>2. DisputesTypeOK /\ [DisputesNext]_disputeVars => DisputesTypeOK'
  <2> SUFFICES ASSUME DisputesTypeOK, [DisputesNext]_disputeVars PROVE DisputesTypeOK'
    OBVIOUS
  <2>0. ASSUME Setback PROVE setbacks' \in 0..MaxSetbacks
    BY <2>0, DisputesConstants DEF Setback, DisputesTypeOK
  <2>1. ASSUME NEW c \in Contests, CountOpen(c) \/ SubmitFails(c) PROVE DisputesTypeOK'
    BY <2>1 DEF CountOpen, SubmitFails, postVars, DisputesTypeOK
  <2>2. ASSUME NEW c \in Contests, Submit(c) PROVE DisputesTypeOK'
    <3>1. <<c, "received">> \in Reply
      BY DEF Reply
    <3> QED BY <2>2, <3>1, QueueReplyFacts DEF Submit, postVars, DisputesTypeOK
  <2>3. ASSUME NEW o \in Deciders, NEW c \in Contests, NEW outcome \in Outcome, LockContest(o, c, outcome)
        PROVE  DisputesTypeOK'
    BY <2>3 DEF LockContest, postVars, DisputesTypeOK
  <2>4. ASSUME NEW o \in Deciders, DecideContest(o) PROVE DisputesTypeOK'
    <3>1. PICK d \in decision[o] :
            /\ contest' = [contest EXCEPT ![d[1]] = d[2]] /\ QueueReply(d)
            /\ decision' = [decision EXCEPT ![o] = {}] /\ UNCHANGED postVars
      BY <2>4 DEF DecideContest
    <3>2. d \in Contests \X Outcome /\ d \in Reply
      BY DEF DisputesTypeOK, Reply
    <3> QED BY <3>1, <3>2, QueueReplyFacts DEF postVars, DisputesTypeOK
  <2>5. ASSUME NEW o \in Deciders, DecideFails(o) PROVE DisputesTypeOK'
    BY <2>5 DEF DecideFails, postVars, DisputesTypeOK
  <2>6. ASSUME NEW v \in Mailers, StartTick(v) \/ EndTick(v) PROVE DisputesTypeOK'
    <3>1. replyTick' \in [Mailers -> ReplyTick]
      <4>1. NoReplyTick \in ReplyTick
        BY DEF NoReplyTick, ReplyTick
      <4>2. CASE EndTick(v)
        BY <4>1, <4>2 DEF EndTick, DisputesTypeOK
      <4>3. CASE StartTick(v)
        <5>1. PICK free \in SUBSET Reply : replyTick' = [replyTick EXCEPT ![v].todo = free]
          BY <4>3 DEF StartTick, DisputesTypeOK
        <5>2. replyTick \in [Mailers -> ReplyTick] /\ replyTick[v] \in ReplyTick
          BY DEF DisputesTypeOK
        <5>3. [replyTick[v] EXCEPT !.todo = free] \in ReplyTick
          BY <5>2 DEF ReplyTick
        <5>4. replyTick' = [replyTick EXCEPT ![v] = [replyTick[v] EXCEPT !.todo = free]]
          BY <5>1, <5>2
        <5> QED BY <5>2, <5>3, <5>4
      <4> QED BY <2>6, <4>2, <4>3
    <3> QED BY <2>6, <3>1 DEF StartTick, EndTick, contestVars, DisputesTypeOK
  <2>7. ASSUME NEW v \in Mailers, NEW n \in Reply, DispatchReply(v, n) \/ ReplyThrows(v, n)
        PROVE  DisputesTypeOK'
    <3>1. replyTick' \in [Mailers -> ReplyTick]
      <4>1. replyTick[v] \in ReplyTick /\ {n} \subseteq Reply
        BY DEF DisputesTypeOK
      <4>2. CASE DispatchReply(v, n)
        <5>1. [replyTick EXCEPT ![v].todo = @ \ {n}] \in [Mailers -> ReplyTick]
          BY <4>1 DEF DisputesTypeOK, ReplyTick
        <5>2. [[replyTick EXCEPT ![v].todo = @ \ {n}] EXCEPT ![v].done = @ \cup {n}] \in [Mailers -> ReplyTick]
          BY <4>1, <5>1 DEF ReplyTick
        <5> QED BY <4>2, <5>2 DEF DispatchReply
      <4>3. CASE ReplyThrows(v, n)
        <5>1. [replyTick EXCEPT ![v].todo = @ \ {n}] \in [Mailers -> ReplyTick]
          BY <4>1 DEF DisputesTypeOK, ReplyTick
        <5>2. [[replyTick EXCEPT ![v].todo = @ \ {n}] EXCEPT ![v].thrown = @ \cup {n}] \in [Mailers -> ReplyTick]
          BY <4>1, <5>1 DEF ReplyTick
        <5> QED BY <4>3, <5>2 DEF ReplyThrows
      <4> QED BY <2>7, <4>2, <4>3
    <3>2. /\ handover' \in [Reply -> {"none", "pending", "sent", "skipped", "failed"}]
          /\ outbox' \in [Mailers -> SUBSET Reply]
      BY <2>7 DEF DispatchReply, ReplyThrows, DisputesTypeOK
    <3>3. setbacks' \in 0..MaxSetbacks
      BY <2>0, <2>7 DEF DispatchReply, ReplyThrows, DisputesTypeOK
    <3> QED BY <2>7, <3>1, <3>2, <3>3 DEF DispatchReply, ReplyThrows, contestVars, DisputesTypeOK
  <2>8. ASSUME NEW v \in Mailers, RollbackTick(v) \/ Perish(v) PROVE DisputesTypeOK'
    <3>1. NoReplyTick \in ReplyTick
      BY DEF NoReplyTick, ReplyTick
    <3> QED BY <2>0, <2>8, <3>1 DEF RollbackTick, Perish, contestVars, DisputesTypeOK
  <2>9. ASSUME NEW v \in Mailers, NEW n \in Reply, ReadLedger(v, n) PROVE DisputesTypeOK'
    <3>1. [reply |-> n, stage |-> "queued"] \in Mail
      BY DEF Mail
    <3>2. mailing' \in [Mailers -> SUBSET Mail] /\ \A u \in Mailers : \A x, y \in mailing'[u] : x = y
      BY <2>9, <3>1 DEF ReadLedger, DisputesTypeOK
    <3>3. handover' \in [Reply -> {"none", "pending", "sent", "skipped", "failed"}]
      BY <2>9 DEF ReadLedger, DisputesTypeOK
    <3>4. outbox' \in [Mailers -> SUBSET Reply]
      BY <2>9 DEF ReadLedger, DisputesTypeOK
    <3> QED BY <2>9, <3>2, <3>3, <3>4 DEF ReadLedger, contestVars, DisputesTypeOK
  <2>10. ASSUME NEW v \in Mailers, NEW n \in Reply, Ask(v, n) PROVE DisputesTypeOK'
    <3>1. PICK answer \in {"sent", "suppressed", "failed"} :
            /\ mailing' = [mailing EXCEPT ![v] = {[reply |-> n, stage |-> answer]}]
            /\ mailed' = IF answer = "sent" THEN [mailed EXCEPT ![n] = @ + 1] ELSE mailed
      BY <2>10 DEF Ask
    <3>2. [reply |-> n, stage |-> answer] \in Mail
      BY DEF Mail
    <3>3. mailing' \in [Mailers -> SUBSET Mail] /\ \A u \in Mailers : \A x, y \in mailing'[u] : x = y
      BY <3>1, <3>2 DEF DisputesTypeOK
    <3>4. mailed' \in [Reply -> Nat]
      BY <3>1 DEF DisputesTypeOK
    <3> QED BY <2>10, <3>3, <3>4 DEF Ask, contestVars, DisputesTypeOK
  <2>11. ASSUME NEW v \in Mailers, NEW n \in Reply, AskThrows(v, n) PROVE DisputesTypeOK'
    <3>1. mailed' \in [Reply -> Nat]
      BY <2>11 DEF AskThrows, DisputesTypeOK
    <3> QED BY <2>0, <2>11, <3>1 DEF AskThrows, contestVars, DisputesTypeOK
  <2>12. ASSUME NEW v \in Mailers, NEW n \in Reply, Settle(v, n) PROVE DisputesTypeOK'
    <3>1. PICK answer \in {"sent", "suppressed", "failed"} : ledger' = [ledger EXCEPT ![n] = answer]
      BY <2>12 DEF Settle
    <3>2. /\ ledger' \in [Reply -> {"none", "queued", "unaddressed", "sent", "suppressed", "failed"}]
          /\ \A m \in Reply : ledger[m] # "none" => ledger'[m] # "none"
      BY <3>1 DEF DisputesTypeOK
    <3> QED BY <2>12, <3>2 DEF Settle, postVars, DisputesTypeOK
  <2>13. ASSUME NEW v \in Mailers, NEW n \in Reply, CloseRow(v, n) PROVE DisputesTypeOK'
    <3>1. handover' \in [Reply -> {"none", "pending", "sent", "skipped", "failed"}]
      BY <2>13 DEF CloseRow, Closing, DisputesTypeOK
    <3> QED BY <2>13, <3>1 DEF CloseRow, contestVars, DisputesTypeOK
  <2>14. CASE UNCHANGED disputeVars
    BY <2>14 DEF disputeVars, DisputesTypeOK
  <2> QED
    BY <2>1, <2>2, <2>3, <2>4, <2>5, <2>6, <2>7, <2>8, <2>9, <2>10, <2>11, <2>12, <2>13, <2>14 DEF DisputesNext
<1> QED BY <1>1, <1>2, PTL DEF DisputesSpec

\* The replies about a contest tell the one outcome it has, however two
\* operators decide it at once, and no reply tells of a decision that was
\* rolled back.
THEOREM RepliesTellOneOutcome == DisputesSpec => []OneOutcome
<1>1. DisputesInit => LocksHeld /\ OneOutcome
  BY DEF DisputesInit, LocksHeld, OneOutcome
<1>2. DisputesTypeOK /\ LocksHeld /\ OneOutcome /\ [DisputesNext]_disputeVars => LocksHeld' /\ OneOutcome'
  <2> SUFFICES ASSUME DisputesTypeOK, LocksHeld, OneOutcome, [DisputesNext]_disputeVars
               PROVE  LocksHeld' /\ OneOutcome'
    OBVIOUS
  <2>0. /\ contest \in [Contests -> {"none", "counted", "received"} \cup Outcome]
        /\ decision \in [Deciders -> SUBSET (Contests \X Outcome)]
        /\ ledger \in [Reply -> {"none", "queued", "unaddressed", "sent", "suppressed", "failed"}]
        /\ \A n \in Reply : n[1] \in Contests
    BY DEF DisputesTypeOK, Reply
  <2>1. ASSUME NEW c \in Contests, CountOpen(c) \/ SubmitFails(c) PROVE LocksHeld' /\ OneOutcome'
    <3>1. /\ contest[c] \in {"none", "counted"} /\ contest'[c] \in {"none", "counted"}
          /\ \A b \in Contests : b # c => contest'[b] = contest[b]
          /\ UNCHANGED <<decision, ledger>>
      BY <2>0, <2>1 DEF CountOpen, SubmitFails
    <3>2. LocksHeld'
      BY <2>0, <3>1 DEF LocksHeld
    <3>3. OneOutcome'
      BY <2>0, <3>1 DEF OneOutcome, Outcome
    <3> QED BY <3>2, <3>3
  <2>2. ASSUME NEW c \in Contests, Submit(c) PROVE LocksHeld' /\ OneOutcome'
    <3>1. <<c, "received">> \in Reply
      BY DEF Reply
    <3>2. /\ contest[c] = "counted" /\ contest'[c] = "received"
          /\ \A b \in Contests : b # c => contest'[b] = contest[b]
          /\ decision' = decision /\ \A m \in Reply : m # <<c, "received">> => ledger'[m] = ledger[m]
      BY <2>0, <2>2, <3>1, QueueReplyFacts DEF Submit
    <3>3. LocksHeld'
      BY <2>0, <3>2 DEF LocksHeld
    <3>4. OneOutcome'
      BY <2>0, <3>2 DEF OneOutcome, Outcome
    <3> QED BY <3>3, <3>4
  <2>3. ASSUME NEW o \in Deciders, NEW c \in Contests, NEW outcome \in Outcome, LockContest(o, c, outcome)
        PROVE  LocksHeld' /\ OneOutcome'
    <3>1. /\ decision' = [decision EXCEPT ![o] = {<<c, outcome>>}] /\ UNCHANGED <<contest, ledger>>
          /\ contest[c] = "received" /\ \A p \in Deciders : \A d \in decision[p] : d[1] # c
      BY <2>3 DEF LockContest, ContestLocked
    <3>2. LocksHeld'
      BY <2>0, <3>1 DEF LocksHeld
    <3> QED BY <3>1, <3>2 DEF OneOutcome
  <2>4. ASSUME NEW o \in Deciders, DecideContest(o) PROVE LocksHeld' /\ OneOutcome'
    <3>1. PICK d \in decision[o] :
            /\ contest' = [contest EXCEPT ![d[1]] = d[2]] /\ QueueReply(d)
            /\ decision' = [decision EXCEPT ![o] = {}]
      BY <2>4 DEF DecideContest
    <3>2. /\ d \in Reply /\ d[1] \in Contests /\ d[2] \in Outcome /\ d = <<d[1], d[2]>>
          /\ contest[d[1]] = "received"
      BY <2>0 DEF Reply, LocksHeld
    <3>3. \A m \in Reply : m # d => ledger'[m] = ledger[m]
      BY <3>1, <3>2, QueueReplyFacts
    <3>4. LocksHeld'
      BY <2>0, <3>1, <3>2 DEF LocksHeld
    <3>5. ASSUME NEW m \in Reply, ledger'[m] # "none"
          PROVE  /\ m[2] = "received" => contest'[m[1]] \in {"received"} \cup Outcome
                 /\ m[2] \in Outcome => contest'[m[1]] = m[2]
      <4>1. CASE m[1] # d[1]
        BY <2>0, <3>1, <3>2, <3>3, <3>5, <4>1 DEF OneOutcome
      <4>2. CASE m[1] = d[1]
        <5>1. contest'[m[1]] = d[2]
          BY <2>0, <3>1, <3>2, <4>2
        <5>2. m[2] \in Outcome => m = d
          <6>1. m = <<m[1], m[2]>>
            BY DEF Reply
          <6> QED BY <3>2, <3>3, <3>5, <4>2, <6>1 DEF OneOutcome, Outcome
        <5> QED BY <3>2, <5>1, <5>2
      <4> QED BY <4>1, <4>2
    <3> QED BY <3>4, <3>5 DEF OneOutcome
  <2>5. ASSUME NEW o \in Deciders, DecideFails(o) PROVE LocksHeld' /\ OneOutcome'
    BY <2>0, <2>5 DEF DecideFails, LocksHeld, OneOutcome
  <2>6. ASSUME NEW v \in Mailers, NEW n \in Reply, Settle(v, n) PROVE LocksHeld' /\ OneOutcome'
    <3>1. UNCHANGED <<contest, decision>> /\ \A m \in Reply : ledger'[m] # "none" => ledger[m] # "none"
      BY <2>0, <2>6 DEF Settle
    <3> QED BY <3>1 DEF LocksHeld, OneOutcome
  <2>7. CASE UNCHANGED <<contest, decision, ledger>>
    BY <2>7 DEF LocksHeld, OneOutcome
  <2>8. ASSUME NEW v \in Mailers, StartTick(v) \/ EndTick(v) \/ RollbackTick(v) \/ Perish(v)
        PROVE  UNCHANGED <<contest, decision, ledger>>
    BY <2>8 DEF StartTick, EndTick, RollbackTick, Perish, contestVars
  <2>9. ASSUME NEW v \in Mailers, NEW n \in Reply,
               \/ DispatchReply(v, n) \/ ReplyThrows(v, n)
               \/ ReadLedger(v, n) \/ Ask(v, n) \/ AskThrows(v, n) \/ CloseRow(v, n)
        PROVE  UNCHANGED <<contest, decision, ledger>>
    BY <2>9 DEF DispatchReply, ReplyThrows, ReadLedger, Ask, AskThrows, CloseRow, contestVars
  <2>10. UNCHANGED disputeVars => UNCHANGED <<contest, decision, ledger>>
    BY DEF disputeVars
  <2> QED
    BY <2>1, <2>2, <2>3, <2>4, <2>5, <2>6, <2>7, <2>8, <2>9, <2>10 DEF DisputesNext
<1> QED BY <1>1, <1>2, DisputesTypeCorrect, PTL DEF DisputesSpec

\* Who may still mail a reply: it is in a batch, or before the provider.
Holding(v, n) == n \in outbox[v] \/ At(v, n, "queued")
\* A reply is with one mailer, in its batch or before the provider, and then it
\* has been handed over and not mailed.
ReplyHeldOnce ==
  \A n \in Reply :
    /\ \A v \in Mailers : Holding(v, n) => handover[n] # "none" /\ mailed[n] = 0
    /\ \A u, v \in Mailers : Holding(u, n) /\ Holding(v, n) => u = v
    /\ \A v \in Mailers : ~(n \in outbox[v] /\ At(v, n, "queued"))
    /\ handover[n] = "none" => mailed[n] = 0

\* Two mails that are queued are one when their replies are.
LEMMA QueuedMail ==
  ASSUME NEW m, NEW n
  PROVE  {[reply |-> m, stage |-> "queued"]} = {[reply |-> n, stage |-> "queued"]} <=> m = n
<1>1. ASSUME {[reply |-> m, stage |-> "queued"]} = {[reply |-> n, stage |-> "queued"]}
      PROVE  m = n
  <2>1. [reply |-> m, stage |-> "queued"] = [reply |-> n, stage |-> "queued"]
    BY <1>1
  <2>2. [reply |-> m, stage |-> "queued"].reply = [reply |-> n, stage |-> "queued"].reply
    BY <2>1
  <2> QED BY <2>2
<1> QED BY <1>1

\* A mail that was answered is not one that is queued.
LEMMA AnsweredMail ==
  ASSUME NEW m, NEW n, NEW a \in {"sent", "suppressed", "failed"}
  PROVE  {[reply |-> n, stage |-> a]} # {[reply |-> m, stage |-> "queued"]}
<1>1. ASSUME {[reply |-> n, stage |-> a]} = {[reply |-> m, stage |-> "queued"]}
      PROVE  FALSE
  <2>1. [reply |-> n, stage |-> a] = [reply |-> m, stage |-> "queued"]
    BY <1>1
  <2>2. [reply |-> n, stage |-> a].stage = [reply |-> m, stage |-> "queued"].stage
    BY <2>1
  <2> QED BY <2>2
<1> QED BY <1>1

\* No mail is not a mail.
LEMMA NoMail ==
  ASSUME NEW n, NEW s
  PROVE  {} # {[reply |-> n, stage |-> s]}
OBVIOUS

\* No reply is mailed twice, whatever ticks roll back, whichever process dies
\* and whatever the provider took without answering: the hand-over is recorded
\* before the provider is asked.
THEOREM RepliesAreMailedOnce == DisputesSpec => []ReplyMailedOnce
<1> DEFINE Inv == ReplyHeldOnce /\ ReplyMailedOnce
<1>1. DisputesInit => Inv
  <2> SUFFICES ASSUME DisputesInit PROVE Inv
    OBVIOUS
  <2>1. \A v \in Mailers, n \in Reply : ~At(v, n, "queued") /\ n \notin outbox[v]
    BY NoMail DEF DisputesInit, At
  <2>2. \A n \in Reply : mailed[n] = 0
    BY DEF DisputesInit
  <2>3. ReplyHeldOnce
    BY <2>1, <2>2 DEF ReplyHeldOnce, Holding
  <2> QED BY <2>2, <2>3 DEF ReplyMailedOnce
<1>2. DisputesTypeOK /\ Inv /\ [DisputesNext]_disputeVars => Inv'
  <2> SUFFICES ASSUME DisputesTypeOK, Inv, [DisputesNext]_disputeVars PROVE Inv'
    OBVIOUS
  <2>0. /\ handover \in [Reply -> {"none", "pending", "sent", "skipped", "failed"}]
        /\ outbox \in [Mailers -> SUBSET Reply] /\ mailing \in [Mailers -> SUBSET Mail]
        /\ mailed \in [Reply -> Nat]
    BY DEF DisputesTypeOK
  \* A step that hands no reply to anybody and mails none.
  <2>f. ASSUME mailed' = mailed, \A n \in Reply : handover[n] # "none" => handover'[n] # "none",
               \A v \in Mailers, n \in Reply :
                 /\ n \in outbox'[v] => n \in outbox[v]
                 /\ At(v, n, "queued")' => At(v, n, "queued")
        PROVE  Inv'
    BY <2>f DEF ReplyHeldOnce, ReplyMailedOnce, Holding
  <2>1. ASSUME NEW v \in Mailers, NEW n \in Reply, DispatchReply(v, n) PROVE Inv'
    <3>1. CASE Added(n)
      <4>1. /\ UNCHANGED <<mailing, mailed>> /\ handover[n] = "none" /\ handover'[n] = "pending"
            /\ \A m \in Reply : m # n => handover'[m] = handover[m]
            /\ outbox'[v] = outbox[v] \cup {n} /\ \A u \in Mailers : u # v => outbox'[u] = outbox[u]
        BY <2>0, <2>1, <3>1 DEF DispatchReply, Added
      <4>2. mailed[n] = 0 /\ \A u \in Mailers : ~Holding(u, n)
        BY <4>1 DEF ReplyHeldOnce
      <4>3. \A u \in Mailers, m \in Reply : At(u, m, "queued")' <=> At(u, m, "queued")
        BY <4>1 DEF At
      <4>4. ReplyHeldOnce'
        BY <4>1, <4>2, <4>3 DEF ReplyHeldOnce, Holding
      <4> QED BY <4>1, <4>4 DEF ReplyMailedOnce
    <3>2. CASE ~Added(n)
      BY <2>1, <2>f, <3>2 DEF DispatchReply, At
    <3> QED BY <3>1, <3>2
  <2>2. ASSUME NEW v \in Mailers, NEW n \in Reply, ReplyThrows(v, n) PROVE Inv'
    <3>1. UNCHANGED <<mailed, outbox, mailing>>
      BY <2>2 DEF ReplyThrows
    <3>2. \A m \in Reply : handover[m] # "none" => handover'[m] # "none"
      BY <2>0, <2>2 DEF ReplyThrows
    <3> QED BY <2>f, <3>1, <3>2 DEF At
  <2>3. ASSUME NEW v \in Mailers, NEW n \in Reply, ReadLedger(v, n) PROVE Inv'
    <3>1. /\ outbox'[v] = outbox[v] \ {n} /\ \A u \in Mailers : u # v => outbox'[u] = outbox[u]
          /\ mailed' = mailed /\ n \in outbox[v] /\ mailing[v] = {}
          /\ \A m \in Reply : handover[m] # "none" => handover'[m] # "none"
      BY <2>0, <2>3 DEF ReadLedger
    <3>2. CASE mailing' = mailing
      BY <2>f, <3>1, <3>2 DEF At
    <3>3. CASE mailing' = [mailing EXCEPT ![v] = {[reply |-> n, stage |-> "queued"]}]
      <4>1. mailing'[v] = {[reply |-> n, stage |-> "queued"]} /\ \A u \in Mailers : u # v => mailing'[u] = mailing[u]
        BY <2>0, <3>3
      <4>2. /\ \A m \in Reply : At(v, m, "queued")' <=> m = n
            /\ \A u \in Mailers, m \in Reply : u # v => (At(u, m, "queued")' <=> At(u, m, "queued"))
        <5>1. ASSUME NEW m \in Reply PROVE At(v, m, "queued")' <=> m = n
          <6>1. {[reply |-> n, stage |-> "queued"]} = {[reply |-> m, stage |-> "queued"]} <=> m = n
            BY QueuedMail
          <6> QED BY <4>1, <6>1 DEF At
        <5>2. ASSUME NEW u \in Mailers, NEW m \in Reply, u # v
              PROVE  At(u, m, "queued")' <=> At(u, m, "queued")
          BY <4>1, <5>2 DEF At
        <5> QED BY <5>1, <5>2
      <4>3. \A m \in Reply : ~At(v, m, "queued")
        BY <3>1, NoMail DEF At
      <4>4. \A u \in Mailers, m \in Reply : Holding(u, m)' => Holding(u, m)
        BY <3>1, <4>2 DEF Holding
      <4>5. \A u \in Mailers, m \in Reply : ~(m \in outbox'[u] /\ At(u, m, "queued")')
        BY <3>1, <4>2 DEF ReplyHeldOnce
      <4>6. ReplyHeldOnce'
        BY <3>1, <4>4, <4>5 DEF ReplyHeldOnce
      <4> QED BY <3>1, <4>6 DEF ReplyMailedOnce
    <3> QED BY <2>3, <3>2, <3>3 DEF ReadLedger
  <2>4. ASSUME NEW v \in Mailers, NEW n \in Reply, Ask(v, n) PROVE Inv'
    <3>1. PICK answer \in {"sent", "suppressed", "failed"} :
            /\ mailing' = [mailing EXCEPT ![v] = {[reply |-> n, stage |-> answer]}]
            /\ mailed' = IF answer = "sent" THEN [mailed EXCEPT ![n] = @ + 1] ELSE mailed
      BY <2>4 DEF Ask
    <3>2. /\ At(v, n, "queued") /\ UNCHANGED <<outbox, handover>>
          /\ mailing'[v] = {[reply |-> n, stage |-> answer]}
          /\ \A u \in Mailers : u # v => mailing'[u] = mailing[u]
      BY <2>0, <2>4, <3>1 DEF Ask
    <3>3. /\ \A m \in Reply : ~At(v, m, "queued")'
          /\ \A u \in Mailers, m \in Reply : u # v => (At(u, m, "queued")' <=> At(u, m, "queued"))
      <4>1. ASSUME NEW m \in Reply PROVE ~At(v, m, "queued")'
        <5>1. {[reply |-> n, stage |-> answer]} # {[reply |-> m, stage |-> "queued"]}
          BY AnsweredMail
        <5> QED BY <3>2, <5>1 DEF At
      <4>2. ASSUME NEW u \in Mailers, NEW m \in Reply, u # v
            PROVE  At(u, m, "queued")' <=> At(u, m, "queued")
        BY <3>2, <4>2 DEF At
      <4> QED BY <4>1, <4>2
    <3>4. /\ handover[n] # "none" /\ mailed[n] = 0 /\ n \notin outbox[v]
          /\ \A u \in Mailers : Holding(u, n) => u = v
      BY <3>2 DEF ReplyHeldOnce, Holding
    <3>5. mailed'[n] \in {0, 1} /\ \A m \in Reply : m # n => mailed'[m] = mailed[m]
      BY <2>0, <3>1, <3>4
    <3>6. \A u \in Mailers, m \in Reply : Holding(u, m)' => Holding(u, m) /\ m # n
      BY <3>2, <3>3, <3>4 DEF Holding
    <3>7. ReplyHeldOnce'
      BY <3>2, <3>3, <3>4, <3>5, <3>6 DEF ReplyHeldOnce
    <3>8. ReplyMailedOnce'
      BY <3>5 DEF ReplyMailedOnce
    <3> QED BY <3>7, <3>8
  <2>5. ASSUME NEW v \in Mailers, NEW n \in Reply, AskThrows(v, n) PROVE Inv'
    <3>1. PICK taken \in {0, 1} : mailed' = [mailed EXCEPT ![n] = @ + taken]
      BY <2>5 DEF AskThrows
    <3>2. /\ At(v, n, "queued") /\ UNCHANGED <<outbox, handover>>
          /\ mailing'[v] = {} /\ \A u \in Mailers : u # v => mailing'[u] = mailing[u]
      BY <2>0, <2>5 DEF AskThrows
    <3>3. /\ \A m \in Reply : ~At(v, m, "queued")'
          /\ \A u \in Mailers, m \in Reply : u # v => (At(u, m, "queued")' <=> At(u, m, "queued"))
      BY <3>2, NoMail DEF At
    <3>4. /\ handover[n] # "none" /\ mailed[n] = 0 /\ n \notin outbox[v]
          /\ \A u \in Mailers : Holding(u, n) => u = v
      BY <3>2 DEF ReplyHeldOnce, Holding
    <3>5. mailed'[n] \in {0, 1} /\ \A m \in Reply : m # n => mailed'[m] = mailed[m]
      BY <2>0, <3>1, <3>4
    <3>6. \A u \in Mailers, m \in Reply : Holding(u, m)' => Holding(u, m) /\ m # n
      BY <3>2, <3>3, <3>4 DEF Holding
    <3>7. ReplyHeldOnce'
      BY <3>2, <3>3, <3>4, <3>5, <3>6 DEF ReplyHeldOnce
    <3>8. ReplyMailedOnce'
      BY <3>5 DEF ReplyMailedOnce
    <3> QED BY <3>7, <3>8
  <2>6. ASSUME NEW v \in Mailers, NEW n \in Reply, CloseRow(v, n) PROVE Inv'
    <3>1. /\ UNCHANGED <<outbox, mailed>>
          /\ mailing'[v] = {} /\ \A u \in Mailers : u # v => mailing'[u] = mailing[u]
          /\ \A m \in Reply : handover[m] # "none" => handover'[m] # "none"
      BY <2>0, <2>6 DEF CloseRow, Closing
    <3>2. \A u \in Mailers, m \in Reply : At(u, m, "queued")' => At(u, m, "queued")
      BY <3>1, NoMail DEF At
    <3> QED BY <2>f, <3>1, <3>2
  <2>7. ASSUME NEW v \in Mailers, Perish(v) PROVE Inv'
    <3>1. /\ UNCHANGED <<handover, mailed>>
          /\ mailing'[v] = {} /\ \A u \in Mailers : u # v => mailing'[u] = mailing[u] /\ outbox'[u] = outbox[u]
          /\ outbox'[v] = {}
      BY <2>0, <2>7 DEF Perish
    <3>2. \A u \in Mailers, m \in Reply : At(u, m, "queued")' => At(u, m, "queued")
      BY <3>1, NoMail DEF At
    <3> QED BY <2>f, <3>1, <3>2
  <2>8. CASE UNCHANGED <<outbox, mailing, handover, mailed>>
    BY <2>f, <2>8 DEF At
  <2> QED
    BY <2>1, <2>2, <2>3, <2>4, <2>5, <2>6, <2>7, <2>8
    DEF DisputesNext, CountOpen, Submit, SubmitFails, LockContest, DecideContest, DecideFails, StartTick, EndTick,
        RollbackTick, Settle, postVars, disputeVars
<1> QED BY <1>1, <1>2, DisputesTypeCorrect, PTL DEF DisputesSpec

\* The row, its log, the servers with their caches and the flips under way keep
\* their types (registry.ts).
THEOREM FeaturesTypeCorrect == FeaturesSpec => []FeaturesTypeOK
<1>1. FeaturesInit => FeaturesTypeOK
  <2>1. NoFlip \in Flip /\ Down \in Server
    BY DEF NoFlip, Flip, Down, Server, Row, Switch
  <2>2. <<>> \in Seq(Line) /\ <<[from |-> "unset", to |-> "on"]>> \in Seq(Line)
    BY DEF Line, Row, Switch
  <2> SUFFICES ASSUME FeaturesInit PROVE FeaturesTypeOK
    OBVIOUS
  <2>3. row \in Row /\ trail \in Seq(Line)
    BY <2>2 DEF FeaturesInit, Row, Switch
  <2>4. server \in [Servers -> Server] /\ flip \in [Clerks -> Flip]
    BY <2>1 DEF FeaturesInit
  <2>5. flips \in 0..MaxFlips /\ faults \in 0..MaxFaults
    BY FeaturesConstants DEF FeaturesInit
  <2> QED
    BY <2>3, <2>4, <2>5 DEF FeaturesTypeOK
<1>2. FeaturesTypeOK /\ [FeaturesNext]_featureVars => FeaturesTypeOK'
  <2> SUFFICES ASSUME FeaturesTypeOK, [FeaturesNext]_featureVars PROVE FeaturesTypeOK'
    OBVIOUS
  <2> USE FeaturesConstants DEF FeaturesTypeOK, Row, Switch
  <2>1. ASSUME NEW v \in Servers, Boot(v) \/ PollRead(v) \/ PollApply(v)
        PROVE  FeaturesTypeOK'
    <3>1. server' \in [Servers -> Server]
      <4>1. server[v].cache \in Row /\ server[v].poll \in Row \cup {"idle"}
        BY DEF Server
      <4>2. CASE Boot(v)
        <5>1. PICK k : k = [server[v] EXCEPT !.up = TRUE]
          OBVIOUS
        <5>2. k \in Server
          BY <5>1 DEF Server
        <5> QED BY <4>2, <5>1, <5>2 DEF Boot
      <4>3. CASE PollRead(v)
        <5>1. PICK k : k = [server[v] EXCEPT !.poll = row]
          OBVIOUS
        <5>2. k \in Server
          BY <5>1 DEF Server
        <5> QED BY <4>3, <5>1, <5>2 DEF PollRead
      <4>4. CASE PollApply(v)
        <5>1. PICK k : k = [server[v] EXCEPT !.cache = server[v].poll, !.poll = "idle"]
          OBVIOUS
        <5>2. k \in Server
          BY <4>1, <4>4, <5>1 DEF PollApply, Polling, Server
        <5> QED BY <4>4, <5>1, <5>2 DEF PollApply
      <4> QED BY <2>1, <4>2, <4>3, <4>4
    <3>2. UNCHANGED <<row, trail, flip, flips, faults>>
      BY <2>1 DEF Boot, PollRead, PollApply
    <3> QED BY <3>1, <3>2
  <2>2. ASSUME NEW v \in Servers, PollFails(v) PROVE FeaturesTypeOK'
    <3>1. server' \in [Servers -> Server] /\ faults' \in 0..MaxFaults
      BY <2>2 DEF PollFails, AfterFailure, Server
    <3> QED BY <2>2, <3>1 DEF PollFails
  <2>3. ASSUME NEW v \in Servers, Die(v) PROVE FeaturesTypeOK'
    <3>1. NoFlip \in Flip /\ Down \in Server
      BY DEF NoFlip, Flip, Down, Server
    <3> QED BY <2>3, <3>1 DEF Die
  <2>4. ASSUME NEW o \in Clerks, NEW v \in Servers, NEW to \in Switch, AskFlip(o, v, to)
        PROVE FeaturesTypeOK'
    BY <2>4 DEF AskFlip, Flip
  <2>5. ASSUME NEW o \in Clerks, ReadRow(o) PROVE FeaturesTypeOK'
    <3>1. NoFlip \in Flip
      BY DEF NoFlip, Flip
    <3>2. [flip[o] EXCEPT !.pc = "read", !.from = row] \in Flip
      BY DEF Flip
    <3> QED BY <2>5, <3>1, <3>2 DEF ReadRow
  <2>6. ASSUME NEW o \in Clerks, WriteRow(o) PROVE FeaturesTypeOK'
    <3>1. [from |-> flip[o].from, to |-> flip[o].to] \in Line /\ flip[o].to \in Row
      BY DEF Flip, Line
    <3>2. flip' \in [Clerks -> Flip]
      BY <2>6 DEF WriteRow, NoFlip, Flip
    <3>3. row' \in Row /\ trail' \in Seq(Line)
      <4>1. Append(trail, [from |-> flip[o].from, to |-> flip[o].to]) \in Seq(Line)
        BY <3>1
      <4> QED BY <2>6, <3>1, <4>1 DEF WriteRow
    <3> QED BY <2>6, <3>2, <3>3 DEF WriteRow
  <2>7. ASSUME NEW o \in Clerks, ShowFlip(o) PROVE FeaturesTypeOK'
    <3>1. flip[o].to \in Row
      BY DEF Flip
    <3>2. server' \in [Servers -> Server]
      BY <2>7, <3>1 DEF ShowFlip, Server
    <3>3. NoFlip \in Flip
      BY DEF NoFlip, Flip
    <3> QED BY <2>7, <3>2, <3>3 DEF ShowFlip
  <2>8. CASE UNCHANGED featureVars
    BY <2>8 DEF featureVars
  <2> QED BY <2>1, <2>2, <2>3, <2>4, <2>5, <2>6, <2>7, <2>8 DEF FeaturesNext, FlipStep
<1> QED BY <1>1, <1>2, PTL DEF FeaturesSpec

\* Who has read the row holds it, and what it read is how the row stands; who
\* found no row read that the log is empty, or is beaten to the first row.
FlipsHeld ==
  \A o \in Clerks : Flipping(o, "read") =>
    /\ flip[o].from \in {row, "unset"}
    /\ flip[o].from # "unset" =>
         \A p \in Clerks \ {o} : Flipping(p, "read") => flip[p].from = "unset"

\* The audit log is the history of the switch: each line goes on from the one
\* before, and the last is how the switch stands, however many operators flip
\* it at once (registry.ts: the row is read FOR UPDATE, and a first row is
\* written once, for its primary key).
THEOREM FlipsAreHistory == FeaturesSpec => []FlipsChain
<1>1. FeaturesInit => FlipsHeld /\ FlipsChain
  BY DEF FeaturesInit, FlipsHeld, FlipsChain, Flipping, NoFlip
<1>2. FeaturesTypeOK /\ FeaturesTypeOK' /\ FlipsHeld /\ FlipsChain /\ [FeaturesNext]_featureVars
      => FlipsHeld' /\ FlipsChain'
  <2> SUFFICES ASSUME FeaturesTypeOK, FeaturesTypeOK', FlipsHeld, FlipsChain, [FeaturesNext]_featureVars
               PROVE  FlipsHeld' /\ FlipsChain'
    OBVIOUS
  <2>1. CASE UNCHANGED <<row, trail, flip>>
    BY <2>1 DEF FlipsHeld, FlipsChain, Flipping
  <2>2. ASSUME NEW v \in Servers, Die(v) PROVE FlipsHeld' /\ FlipsChain'
    BY <2>2 DEF Die, FlipsHeld, FlipsChain, Flipping, NoFlip, FeaturesTypeOK
  <2>3. ASSUME NEW o \in Clerks, NEW v \in Servers, NEW to \in Switch, AskFlip(o, v, to)
        PROVE  FlipsHeld' /\ FlipsChain'
    BY <2>3 DEF AskFlip, FlipsHeld, FlipsChain, Flipping, FeaturesTypeOK
  <2>4. ASSUME NEW o \in Clerks, ReadRow(o) PROVE FlipsHeld' /\ FlipsChain'
    BY <2>4 DEF ReadRow, Unlocked, FlipsHeld, FlipsChain, Flipping, NoFlip, FeaturesTypeOK, Flip
  <2>5. ASSUME NEW o \in Clerks, WriteRow(o) PROVE FlipsHeld' /\ FlipsChain'
    <3>1. CASE flip[o].from = "unset" /\ row # "unset"
      BY <2>5, <3>1 DEF WriteRow, FlipsHeld, FlipsChain, Flipping, NoFlip, FeaturesTypeOK
    <3>2. CASE ~(flip[o].from = "unset" /\ row # "unset")
      <4> DEFINE line == [from |-> flip[o].from, to |-> flip[o].to]
      <4>1. /\ row' = flip[o].to /\ trail' = Append(trail, line)
            /\ flip' = [flip EXCEPT ![o].pc = "written"]
            /\ flip[o].from = row /\ Flipping(o, "read")
        BY <2>5, <3>2 DEF WriteRow, FlipsHeld
      <4>2. flip[o] \in Flip /\ line \in Line /\ trail \in Seq(Line)
        BY DEF FeaturesTypeOK, Flip, Line
      <4>3. FlipsChain'
        BY <4>1, <4>2 DEF FlipsChain
      <4>4. FlipsHeld'
        BY <4>1, <4>2 DEF FlipsHeld, Flipping, FeaturesTypeOK
      <4> QED BY <4>3, <4>4
    <3> QED BY <3>1, <3>2
  <2>6. ASSUME NEW o \in Clerks, ShowFlip(o) PROVE FlipsHeld' /\ FlipsChain'
    BY <2>6 DEF ShowFlip, FlipsHeld, FlipsChain, Flipping, NoFlip, FeaturesTypeOK
  <2> QED BY <2>1, <2>2, <2>3, <2>4, <2>5, <2>6
          DEF FeaturesNext, FlipStep, Boot, PollRead, PollApply, PollFails, featureVars
<1> QED BY <1>1, <1>2, FeaturesTypeCorrect, PTL DEF FeaturesSpec
=============================================================================
