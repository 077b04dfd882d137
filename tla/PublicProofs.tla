---------------------------- MODULE PublicProofs ----------------------------
(***************************************************************************)
(* What the public and its subscribers are given: prerendered pages        *)
(* (Prerender), alerts and digests (Alerts), extracted claims (Extraction) *)
(* and the daily snapshots of the archive (Archive). Every theorem holds   *)
(* for any number of records, processes, subscribers and days, and any     *)
(* bound of the models.                                                    *)
(***************************************************************************)
EXTENDS Prerender, Alerts, Extraction, Archive, FiniteSetTheorems, SequenceTheorems, TLAPS

\* A set of naturals that is not empty has a least member.
LEMMA LeastOf ==
  ASSUME NEW T \in SUBSET Nat, T # {}
  PROVE  \E x \in T : \A y \in T : x <= y
<1> DEFINE R == OpToRel(<, Nat)
<1>1. IsWellFoundedOn(R, Nat)
  BY NatLessThanWellFounded, Zenon
<1>2. \A x \in Nat, y \in Nat : y < x => <<y, x>> \in R
  BY Zenon DEF OpToRel
<1> HIDE DEF R
<1>3. PICK x \in T : \A y \in T : ~(<<y, x>> \in R)
  BY <1>1, WFMin
<1>4. \A y \in T : ~(y < x)
  BY <1>2, <1>3
<1> QED BY <1>3, <1>4

\* A pass k that read s will build m's page after it; one that did not is behind.
Keeps(k, s, m) ==
  IF <<s, stamp[s]>> \in k.read
  THEN m \in k.todo /\ \A b \in k.built : b[1] = m => b[2] = Content(m)
  ELSE Before(k.upto, KeyOf(s))

\* A change of m is still to be read, or its page to be built by all who read it.
Pending(m) ==
  \E s \in unread :
    /\ PageOf(s) = m
    /\ Before(cursor, KeyOf(s))
    /\ \A r \in Renderers : Keeps(pass[r], s, m)

\* What a pass read of an event is what it says, unless it was revoked since.
ReadOnce ==
  \A r \in Renderers : \A e \in pass[r].read :
    stamp[e[1]] # 0 /\ (e[2] = stamp[e[1]] \/ e[1] \notin live)

\* A page that is not excepted shows what is public, or a change of it is
\* pending.
Following == \A m \in Records \ astray : pages[m] = Content(m) \/ Pending(m)

\* The cursor at first, a renderer asleep, and the marks of events.
LEMMA MarkShapes ==
  /\ Zero \in Mark /\ Zero.at = 0 /\ Zero.id = 0
  /\ Asleep \in Pass /\ ~Asleep.busy /\ Asleep.read = {} /\ Asleep.todo = {} /\ Asleep.built = {}
  /\ Asleep.upto = Zero
  /\ \A s \in Told : PageOf(s) \in Records
  /\ \A s \in Told, at \in Nat : Key(s, at) \in Mark /\ Key(s, at).at = at /\ Key(s, at).id = EventId[s]
BY PrerenderConstants DEF Zero, Mark, Asleep, Pass, Told, PageOf, Key

\* Where an event stands in the order that the consumer reads.
LEMMA KeyShape ==
  ASSUME PrerenderTypeOK, NEW s \in Told
  PROVE  KeyOf(s) \in Mark /\ KeyOf(s).at = stamp[s] /\ KeyOf(s).id = EventId[s] /\ stamp[s] \in Nat
<1>1. stamp[s] \in Nat
  BY PrerenderConstants DEF PrerenderTypeOK
<1> QED BY <1>1, MarkShapes DEF KeyOf

\* Marks are ordered.
LEMMA MarkOrder ==
  ASSUME NEW a \in Mark, NEW b \in Mark, NEW c \in Mark
  PROVE  /\ ~Before(a, a)
         /\ Before(a, b) /\ Before(b, c) => Before(a, c)
         /\ ~Before(b, a) /\ Before(b, c) => Before(a, c)
         /\ ~Before(c, b) /\ Before(a, b) => Before(a, c)
BY DEF Mark, Before

\* The events of S that come before s.
Ahead(S, s) == {u \in S : Before(KeyOf(u), KeyOf(s))}

\* They are no more than S has.
LEMMA AheadCount ==
  ASSUME NEW S, IsFiniteSet(S), NEW s
  PROVE  /\ IsFiniteSet(Ahead(S, s)) /\ Cardinality(Ahead(S, s)) \in Nat
         /\ Cardinality(Ahead(S, s)) <= Cardinality(S) /\ Cardinality(S) \in Nat
<1>1. Ahead(S, s) \subseteq S
  BY DEF Ahead
<1> QED BY <1>1, FS_Subset, FS_CardinalityType

\* The rank of an event in a set follows its key.
LEMMA AheadOrder ==
  ASSUME PrerenderTypeOK, NEW S \in SUBSET Told, IsFiniteSet(S), NEW s \in S, NEW u \in S
  PROVE  /\ Before(KeyOf(s), KeyOf(u)) => Cardinality(Ahead(S, s)) < Cardinality(Ahead(S, u))
         /\ ~Before(KeyOf(s), KeyOf(u)) => Cardinality(Ahead(S, u)) <= Cardinality(Ahead(S, s))
<1>1. ASSUME Before(KeyOf(s), KeyOf(u))
      PROVE  Cardinality(Ahead(S, s)) < Cardinality(Ahead(S, u))
  <2>1. s \notin Ahead(S, s)
    BY KeyShape, MarkOrder DEF Ahead
  <2>2. Ahead(S, s) \cup {s} \subseteq Ahead(S, u)
    BY <1>1, KeyShape, MarkOrder DEF Ahead
  <2>3. Cardinality(Ahead(S, s) \cup {s}) = Cardinality(Ahead(S, s)) + 1
    BY <2>1, AheadCount, FS_AddElement
  <2>4. Cardinality(Ahead(S, s) \cup {s}) <= Cardinality(Ahead(S, u))
    BY <2>2, AheadCount, FS_Subset
  <2> QED BY <2>3, <2>4, AheadCount
<1>2. ASSUME ~Before(KeyOf(s), KeyOf(u))
      PROVE  Cardinality(Ahead(S, u)) <= Cardinality(Ahead(S, s))
  <2>1. Ahead(S, u) \subseteq Ahead(S, s)
    BY <1>2, KeyShape, MarkOrder DEF Ahead
  <2> QED BY <2>1, AheadCount, FS_Subset
<1> QED BY <1>1, <1>2

\* A finite set of events has a first and a last, though the order is no
\* primitive of the library: the first has none ahead of it, the last most.
LEMMA FirstAndLast ==
  ASSUME PrerenderTypeOK, NEW S \in SUBSET Told, IsFiniteSet(S), S # {}
  PROVE  /\ \E s \in S : Ahead(S, s) = {}
         /\ \E s \in S : \A u \in S : ~Before(KeyOf(s), KeyOf(u))
<1>1. \E s \in S : Ahead(S, s) = {}
  <2> DEFINE T == {Cardinality(Ahead(S, s)) : s \in S}
  <2>1. T \in SUBSET Nat /\ T # {}
    BY AheadCount
  <2>2. PICK x \in T : \A y \in T : x <= y
    BY <2>1, LeastOf
  <2>3. PICK s \in S : x = Cardinality(Ahead(S, s))
    BY <2>2
  <2>4. ASSUME NEW u \in Ahead(S, s) PROVE FALSE
    <3>1. u \in S /\ Before(KeyOf(u), KeyOf(s))
      BY <2>4 DEF Ahead
    <3>2. Cardinality(Ahead(S, u)) < Cardinality(Ahead(S, s))
      BY <3>1, AheadOrder
    <3>3. Cardinality(Ahead(S, u)) \in T
      BY <3>1
    <3> QED BY <2>2, <2>3, <3>2, <3>3, AheadCount
  <2> QED BY <2>4
<1>2. \E s \in S : \A u \in S : ~Before(KeyOf(s), KeyOf(u))
  <2> DEFINE T == {Cardinality(S) - Cardinality(Ahead(S, s)) : s \in S}
  <2>1. T \in SUBSET Nat /\ T # {}
    BY AheadCount
  <2>2. PICK x \in T : \A y \in T : x <= y
    BY <2>1, LeastOf
  <2>3. PICK s \in S : x = Cardinality(S) - Cardinality(Ahead(S, s))
    BY <2>2
  <2>4. ASSUME NEW u \in S, Before(KeyOf(s), KeyOf(u)) PROVE FALSE
    <3>1. Cardinality(Ahead(S, s)) < Cardinality(Ahead(S, u))
      BY <2>4, AheadOrder
    <3>2. Cardinality(S) - Cardinality(Ahead(S, u)) \in T
      OBVIOUS
    <3>3. x <= Cardinality(S) - Cardinality(Ahead(S, u))
      BY <2>2, <3>2
    <3> QED BY <2>3, <3>1, <3>3, AheadCount
  <2> QED BY <2>4
<1> QED BY <1>1, <1>2

\* The last event of a batch.
LastOf(batch) == CHOOSE s \in batch : \A u \in batch : ~Before(KeyOf(s), KeyOf(u))

\* Cutting a stamp to the millisecond takes nothing that is not there.
LEMMA Cut ==
  ASSUME NEW a \in Nat, NEW g \in Nat \ {0}
  PROVE  a - (a % g) \in 0..a
<1>1. a % g \in Nat /\ a % g <= a
  BY SMTT(30)
<1> QED BY <1>1

\* The cursor after a batch: the last event's moment, cut to the precision that
\* the stored cursor keeps.
LEMMA CursorShape ==
  ASSUME PrerenderTypeOK, NEW s \in Told
  PROVE  CursorAt(s) \in Mark /\ CursorAt(s).at <= stamp[s] /\ CursorAt(s).id = EventId[s]
<1>1. stamp[s] \in Nat /\ stamp[s] - (stamp[s] % Grain) \in 0..stamp[s] /\ EventId[s] \in Nat
  BY KeyShape, Cut, PrerenderConstants DEF Told
<1> QED BY <1>1 DEF CursorAt, Mark

\* A batch is a beginning of what is past the cursor, and it leaves what it did
\* not read past the mark it goes on to write.
LEMMA BatchIsABeginning ==
  ASSUME PrerenderTypeOK, Past # {},
         NEW batch, batch = FirstOf(PageBatch, Past), NEW last, last = LastOf(batch)
  PROVE  /\ batch \subseteq Past /\ last \in batch
         /\ \A s \in Past \ batch : Before(CursorAt(last), KeyOf(s))
<1>1. Past \in SUBSET Told /\ IsFiniteSet(Past) /\ IsFiniteSet(Told)
  BY PrerenderConstants, FS_Subset DEF Past, Told
<1>2. batch = {s \in Past : Cardinality(Ahead(Past, s)) < PageBatch}
  BY DEF FirstOf, Ahead
<1>3. batch # {}
  <2>1. PICK s \in Past : Ahead(Past, s) = {}
    BY <1>1, FirstAndLast
  <2>2. Cardinality({}) = 0
    BY FS_EmptySet
  <2>3. Cardinality(Ahead(Past, s)) < PageBatch
    BY <2>1, <2>2, PrerenderConstants
  <2> QED BY <1>2, <2>3
<1>4. batch \in SUBSET Told /\ IsFiniteSet(batch) /\ batch \subseteq Past
  BY <1>1, <1>2, FS_Subset
<1>5. last \in batch
  BY <1>3, <1>4, FirstAndLast DEF LastOf
<1>6. ASSUME NEW s \in Past \ batch PROVE Before(CursorAt(last), KeyOf(s))
  <2>1. /\ Cardinality(Ahead(Past, last)) < PageBatch
        /\ ~(Cardinality(Ahead(Past, s)) < PageBatch)
    BY <1>2, <1>5, <1>6
  <2>2. ~(Cardinality(Ahead(Past, s)) <= Cardinality(Ahead(Past, last)))
    BY <1>1, <2>1, AheadCount, PrerenderConstants
  <2>3. Before(KeyOf(last), KeyOf(s))
    BY <1>1, <1>4, <1>5, <2>2, AheadOrder
  <2>4. CursorAt(last) \in Mark /\ CursorAt(last).at <= KeyOf(last).at
        /\ CursorAt(last).id = KeyOf(last).id
    BY <1>4, <1>5, KeyShape, CursorShape
  <2>5. KeyOf(last) \in Mark /\ KeyOf(s) \in Mark
    BY <1>1, <1>4, <1>5, KeyShape
  <2> QED BY <2>3, <2>4, <2>5 DEF Before, Mark
<1> QED BY <1>4, <1>5, <1>6

-----------------------------------------------------------------------------
(* Decisions.                                                              *)

\* A decision commits with the events it writes for the first time, or with
\* the live ones it revokes.
Decided(told, at) ==
  /\ Committed(told, at)
  /\ onsite' \subseteq Records
  /\ standing' \in [Quotes -> {"held", "approved", "retracted"}]
  /\ \/ (\A s \in told : stamp[s] = 0) /\ live' = live \cup told
     \/ told \subseteq live /\ live' = live \ told

\* Whatever is decided, some events are told of it, at one moment.
LEMMA DecisionShape ==
  ASSUME PrerenderTypeOK, NEW at, Decide(at)
  PROVE  \E told \in SUBSET Told : Decided(told, at)
<1>1. ASSUME NEW S \in SUBSET Records \ {{}}, PublishRecords(S, at)
      PROVE  \E told \in SUBSET Told : Decided(told, at)
  <2>1. Emitted(S) \in SUBSET Told /\ Decided(Emitted(S), at)
    BY <1>1 DEF PublishRecords, Decided, Emitted, Told, PrerenderTypeOK
  <2> QED BY <2>1
<1>2. ASSUME NEW m \in Records, WithdrawRecord(m, at)
      PROVE  \E told \in SUBSET Told : Decided(told, at)
  <2>1. Revoked(m) \in SUBSET Told /\ Revoked(m) \subseteq live /\ live' = live \ Revoked(m)
    BY <1>2 DEF WithdrawRecord, Revoked, PrerenderTypeOK
  <2>2. /\ Committed(Revoked(m), at) /\ onsite' \subseteq Records
        /\ standing' \in [Quotes -> {"held", "approved", "retracted"}]
    BY <1>2 DEF WithdrawRecord, PrerenderTypeOK
  <2> QED BY <2>1, <2>2 DEF Decided
<1>3. ASSUME NEW q \in Quotes, ApproveQuote(q, at)
      PROVE  \E told \in SUBSET Told : Decided(told, at)
  <2>1. PICK told : told = Emitted({q} \cap {c \in Quotes : RecordOf[c] \in onsite})
    OBVIOUS
  <2>2. live' = live \cup told /\ Committed(told, at)
    BY <1>3, <2>1 DEF ApproveQuote
  <2>3. told \in SUBSET Told /\ \A s \in told : stamp[s] = 0
    BY <2>1 DEF Emitted, Told
  <2>4. onsite' \subseteq Records /\ standing' \in [Quotes -> {"held", "approved", "retracted"}]
    BY <1>3 DEF ApproveQuote, PrerenderTypeOK
  <2> QED BY <2>2, <2>3, <2>4 DEF Decided
<1>4. ASSUME NEW q \in Quotes, RetractQuote(q, at)
      PROVE  \E told \in SUBSET Told : Decided(told, at)
  <2>1. Revoked(q) \in SUBSET Told /\ Revoked(q) \subseteq live /\ live' = live \ Revoked(q)
    BY <1>4 DEF RetractQuote, Revoked, PrerenderTypeOK
  <2>2. /\ Committed(Revoked(q), at) /\ onsite' \subseteq Records
        /\ standing' \in [Quotes -> {"held", "approved", "retracted"}]
    BY <1>4 DEF RetractQuote, PrerenderTypeOK
  <2> QED BY <2>1, <2>2 DEF Decided
<1> QED BY <1>1, <1>2, <1>3, <1>4 DEF Decide

\* Where the stamps and the history go with it.
LEMMA CommittedShape ==
  ASSUME PrerenderTypeOK, NEW told \in SUBSET Told, NEW at, Committed(told, at)
  PROVE  /\ stamp' = [s \in Told |-> IF s \in told THEN at ELSE stamp[s]]
         /\ \A s \in told : stamp[s] # at
         /\ unread' = unread \cup told /\ UNCHANGED <<time, pages, cursor, pass>>
         /\ astray \subseteq astray' /\ astray' \subseteq Records
         /\ \A m \in Records \ astray' :
              \/ (\A s \in told : PageOf(s) # m) /\ Content(m)' = Content(m)
              \/ \E s \in told : PageOf(s) = m /\ ~Late(s, at)
<1>1. PICK hit : hit = {m \in Records :
         /\ {s \in told : PageOf(s) = m} # {} \/ Built(onsite', standing', m) # Content(m)
         /\ \A s \in {u \in told : PageOf(u) = m} : Late(s, at)}
  OBVIOUS
<1>2. astray' = astray \cup hit
  BY <1>1 DEF Committed
<1>3. /\ stamp' = [s \in Told |-> IF s \in told THEN at ELSE stamp[s]]
      /\ \A s \in told : stamp[s] # at
      /\ unread' = unread \cup told /\ UNCHANGED <<time, pages, cursor, pass>>
  BY DEF Committed, Moved
<1>4. \A m : Content(m)' = Built(onsite', standing', m)
  BY DEF Content, Built
<1>5. \A m \in Records \ astray' :
        \/ (\A s \in told : PageOf(s) # m) /\ Content(m)' = Content(m)
        \/ \E s \in told : PageOf(s) = m /\ ~Late(s, at)
  BY <1>1, <1>2, <1>4
<1> QED BY <1>1, <1>2, <1>3, <1>5 DEF PrerenderTypeOK

-----------------------------------------------------------------------------
(* Types, and what a pass read.                                            *)

\* A renderer's pass moves.
LEMMA PassTyped ==
  ASSUME PrerenderTypeOK, NEW r \in Renderers, NEW k \in Pass, pass' = [pass EXCEPT ![r] = k],
         k.busy \/ k = Asleep,
         UNCHANGED recordVars, time' = time, pages' \in [Records -> SUBSET Told], cursor' \in Mark,
         unread' \subseteq unread, astray' \subseteq Records
  PROVE  PrerenderTypeOK'
<1>1. pass' \in [Renderers -> Pass] /\ pass'[r] = k /\ \A q \in Renderers : q # r => pass'[q] = pass[q]
  BY DEF PrerenderTypeOK
<1>2. \A q \in Renderers : ~pass'[q].busy => pass'[q] = Asleep
  BY <1>1 DEF PrerenderTypeOK
<1> QED BY <1>1, <1>2 DEF PrerenderTypeOK, recordVars, Asleep, Zero

\* A pass reads events as they are.
LEMMA ReadTyped ==
  ASSUME PrerenderTypeOK, ReadOnce, NEW r \in Renderers, NEW k, pass' = [pass EXCEPT ![r] = k],
         UNCHANGED recordVars,
         k.read \subseteq pass[r].read \cup {<<s, stamp[s]>> : s \in {u \in Told : stamp[u] # 0}}
  PROVE  ReadOnce'
<1>1. pass'[r] = k /\ \A q \in Renderers : q # r => pass'[q] = pass[q]
  BY DEF PrerenderTypeOK
<1> QED BY <1>1 DEF ReadOnce, recordVars

\* What a step of renderer r makes of its pass.
LEMMA PassShapes ==
  ASSUME PrerenderTypeOK, NEW r \in Renderers
  PROVE  /\ pass[r] \in Pass /\ (~pass[r].busy => pass[r] = Asleep)
         /\ pass[r].read \in SUBSET (Told \X Nat) /\ pass[r].todo \in SUBSET Records
         /\ pass[r].built \in SUBSET (Records \X SUBSET Told) /\ pass[r].upto \in Mark
         /\ \A m : Content(m) \in SUBSET Told \/ m \notin Records
<1>1. \A m : Content(m) \in SUBSET Told \/ m \notin Records
  BY DEF Content, Built, Told
<1>2. pass[r] \in Pass /\ (~pass[r].busy => pass[r] = Asleep)
  BY DEF PrerenderTypeOK
<1> QED BY <1>1, <1>2 DEF Pass

\* The pass that TakeBatch begins.
Taken(batch, last) ==
  [busy |-> TRUE, read |-> {<<s, stamp[s]>> : s \in batch}, built |-> {},
   todo |-> {PageOf(s) : s \in batch}, upto |-> CursorAt(last)]

\* A batch is a beginning of the past after the cursor: what it leaves is
\* behind where it will put the cursor.
LEMMA TakenShape ==
  ASSUME PrerenderTypeOK, NEW r \in Renderers, TakeBatch(r)
  PROVE  \E batch \in SUBSET Past : \E last \in batch : \E k \in Pass :
           /\ pass' = [pass EXCEPT ![r] = k] /\ k = Taken(batch, last)
           /\ k.busy /\ k.read = {<<s, stamp[s]>> : s \in batch} /\ k.built = {}
           /\ k.todo = {PageOf(s) : s \in batch} /\ k.upto = CursorAt(last)
           /\ \A s \in Past \ batch : Before(CursorAt(last), KeyOf(s))
<1>1. PICK batch : batch = FirstOf(PageBatch, Past)
  OBVIOUS
<1>2. PICK last : last = LastOf(batch)
  OBVIOUS
<1>3. /\ batch \subseteq Past /\ last \in batch
      /\ \A s \in Past \ batch : Before(CursorAt(last), KeyOf(s))
  BY <1>1, <1>2, BatchIsABeginning DEF TakeBatch
<1>4. PICK k : k = Taken(batch, last)
  OBVIOUS
<1>5. /\ k.busy /\ k.read = {<<s, stamp[s]>> : s \in batch} /\ k.built = {}
      /\ k.todo = {PageOf(s) : s \in batch} /\ k.upto = CursorAt(last)
  BY <1>4 DEF Taken
<1>6. batch \subseteq Told /\ last \in Told
  BY <1>3 DEF Past
<1>7. k \in Pass
  <2>1. {<<s, stamp[s]>> : s \in batch} \in SUBSET (Told \X Nat)
    BY <1>6, KeyShape
  <2>2. {PageOf(s) : s \in batch} \in SUBSET Records
    BY <1>6, MarkShapes
  <2> QED BY <1>4, <1>6, <2>1, <2>2, CursorShape DEF Taken, Pass
<1>8. pass' = [pass EXCEPT ![r] = k]
  BY <1>1, <1>2, <1>4 DEF TakeBatch, LastOf, Taken
<1> QED BY <1>3, <1>4, <1>5, <1>7, <1>8

\* The pass without a page.
LEMMA WithoutShape ==
  ASSUME PrerenderTypeOK, NEW r \in Renderers, NEW m, pass' = Without(r, m), pass[r].built # {}
  PROVE  \E k \in Pass :
           /\ pass' = [pass EXCEPT ![r] = k] /\ k.busy /\ k.built = {} /\ k.read = pass[r].read
           /\ k.todo = pass[r].todo \ {m} /\ k.upto = pass[r].upto
<1>1. PICK k : k = [pass[r] EXCEPT !.todo = pass[r].todo \ {m}, !.built = {}]
  OBVIOUS
<1>2. /\ k \in Pass /\ k.busy = pass[r].busy /\ k.built = {} /\ k.read = pass[r].read
      /\ k.todo = pass[r].todo \ {m} /\ k.upto = pass[r].upto
  BY <1>1, PassShapes DEF Pass
<1>3. pass[r].busy
  BY PassShapes, MarkShapes
<1>4. pass' = [pass EXCEPT ![r] = k]
  BY <1>1 DEF Without
<1> QED BY <1>2, <1>3, <1>4

\* Every step keeps the types and what a pass read.
LEMMA PagesTyped ==
  ASSUME PrerenderTypeOK, ReadOnce, [PrerenderNext]_prerenderVars
  PROVE  PrerenderTypeOK' /\ ReadOnce'
<1> USE MarkShapes
<1>1. ASSUME NEW at \in 1..time, Decide(at) PROVE PrerenderTypeOK' /\ ReadOnce'
  <2>1. PICK told \in SUBSET Told : Decided(told, at)
    BY <1>1, DecisionShape
  <2>2. Committed(told, at)
    BY <2>1 DEF Decided
  <2>a. told \in SUBSET Told
    OBVIOUS
  <2>3. /\ stamp' = [s \in Told |-> IF s \in told THEN at ELSE stamp[s]]
        /\ \A s \in told : stamp[s] # at
        /\ unread' = unread \cup told /\ UNCHANGED <<time, pages, cursor, pass>>
    BY <2>2 DEF Committed, Moved
  <2>b. astray' \subseteq Records
    BY <2>1, <2>2, CommittedShape
  <2>4. at \in 1..MaxTime /\ 0 \in 0..MaxTime /\ at # 0
    BY <1>1, PrerenderConstants DEF PrerenderTypeOK
  <2>5. stamp' \in [Told -> 0..MaxTime] /\ \A s \in told : stamp'[s] # 0
    BY <2>3, <2>4 DEF PrerenderTypeOK
  <2>6. \A s \in Told : stamp[s] # 0 => stamp'[s] # 0
    BY <2>3, <2>4
  <2>7. live' \subseteq {s \in Told : stamp'[s] # 0}
    BY <2>1, <2>5, <2>6 DEF Decided, PrerenderTypeOK
  <2>8. unread' \subseteq {s \in Told : stamp'[s] # 0}
    BY <2>3, <2>5, <2>6 DEF PrerenderTypeOK
  <2>9. PrerenderTypeOK'
    BY <2>1, <2>3, <2>b, <2>5, <2>7, <2>8 DEF Decided, PrerenderTypeOK
  <2>10. ASSUME NEW r \in Renderers, NEW e \in pass[r].read
         PROVE  stamp'[e[1]] # 0 /\ (e[2] = stamp'[e[1]] \/ e[1] \notin live')
    <3>1. e[1] \in Told /\ stamp[e[1]] # 0 /\ (e[2] = stamp[e[1]] \/ e[1] \notin live)
      BY <2>10, PassShapes DEF ReadOnce
    <3>2. CASE e[1] \in told
      BY <2>1, <2>6, <3>1, <3>2 DEF Decided
    <3>3. CASE e[1] \notin told
      BY <2>1, <2>3, <2>6, <3>1, <3>3 DEF Decided
    <3> QED BY <3>2, <3>3
  <2>11. ReadOnce'
    BY <2>3, <2>10 DEF ReadOnce
  <2> QED BY <2>9, <2>11
<1>2. CASE Clock
  <2>1. time' \in 1..MaxTime
    BY <1>2, PrerenderConstants DEF Clock, PrerenderTypeOK
  <2> QED BY <1>2, <2>1 DEF Clock, recordVars, PrerenderTypeOK, ReadOnce, Asleep, Zero
<1>3. ASSUME NEW r \in Renderers, TakeBatch(r) PROVE PrerenderTypeOK' /\ ReadOnce'
  <2>1. PICK batch \in SUBSET Past, k \in Pass :
          /\ pass' = [pass EXCEPT ![r] = k] /\ k.busy /\ k.read = {<<s, stamp[s]>> : s \in batch}
    BY <1>3, TakenShape
  <2>2. UNCHANGED <<recordVars, time, pages, cursor, unread, astray>>
    BY <1>3 DEF TakeBatch
  <2>3. PrerenderTypeOK'
    BY <2>1, <2>2, PassTyped DEF PrerenderTypeOK
  <2>4. k.read \subseteq {<<s, stamp[s]>> : s \in {u \in Told : stamp[u] # 0}}
    BY <2>1 DEF Past
  <2>5. UNCHANGED recordVars
    BY <2>2
  <2>6. ReadOnce'
    BY <2>1, <2>4, <2>5, ReadTyped
  <2> QED BY <2>3, <2>6
<1>4. ASSUME NEW r \in Renderers, Rebuild(r) PROVE PrerenderTypeOK' /\ ReadOnce'
  <2>1. PICK k : k = [Asleep EXCEPT !.busy = TRUE, !.todo = onsite]
    OBVIOUS
  <2>2. k \in Pass /\ k.busy /\ k.read = {}
    BY <2>1 DEF Pass, Asleep, PrerenderTypeOK
  <2>3. pass' = [pass EXCEPT ![r] = k] /\ UNCHANGED <<recordVars, time, pages, cursor, unread, astray>>
    BY <1>4, <2>1 DEF Rebuild
  <2> QED BY <2>2, <2>3, PassTyped, ReadTyped DEF PrerenderTypeOK
<1>5. ASSUME NEW r \in Renderers, NEW m \in Records, Build(r, m) PROVE PrerenderTypeOK' /\ ReadOnce'
  <2>1. PICK k : k = [pass[r] EXCEPT !.built = {<<m, Content(m)>>}]
    OBVIOUS
  <2>2. {<<m, Content(m)>>} \in SUBSET (Records \X SUBSET Told)
    BY PassShapes
  <2>3. k \in Pass /\ k.busy = pass[r].busy /\ k.read = pass[r].read
    BY <2>1, <2>2, PassShapes DEF Pass
  <2>4. pass[r].busy
    BY <1>5, PassShapes DEF Build
  <2>5. pass' = [pass EXCEPT ![r] = k] /\ UNCHANGED <<recordVars, time, pages, cursor, unread, astray>>
    BY <1>5, <2>1 DEF Build
  <2>6. PrerenderTypeOK'
    BY <2>3, <2>4, <2>5, PassTyped DEF PrerenderTypeOK
  <2>7. UNCHANGED recordVars
    BY <2>4, <2>5
  <2>8. ReadOnce'
    BY <2>3, <2>5, <2>7, ReadTyped
  <2> QED BY <2>6, <2>8
<1>6. ASSUME NEW r \in Renderers, PutPage(r) \/ PageFails(r) PROVE PrerenderTypeOK' /\ ReadOnce'
  <2>1. PICK b \in pass[r].built : pass' = Without(r, b[1])
    BY <1>6 DEF PutPage, PageFails
  <2>2. b[1] \in Records /\ b[2] \in SUBSET Told
    <3>1. pass[r] \in Pass
      BY DEF PrerenderTypeOK
    <3>2. pass[r].built \in SUBSET (Records \X SUBSET Told)
      BY <3>1 DEF Pass
    <3> QED BY <2>1, <3>2
  <2>3. PICK k \in Pass : pass' = [pass EXCEPT ![r] = k] /\ k.busy /\ k.read = pass[r].read
    <3>1. PICK m : m = b[1]
      OBVIOUS
    <3>2. pass' = Without(r, m) /\ pass[r].built # {}
      BY <2>1, <3>1
    <3> QED BY ONLY PrerenderTypeOK, r \in Renderers, <3>2, WithoutShape
  <2>4. UNCHANGED <<recordVars, time, cursor, unread>>
    BY <1>6 DEF PutPage, PageFails
  <2>5. pages' \in [Records -> SUBSET Told] /\ astray' \subseteq Records
    <3>1. \A c \in pass[r].built : c[1] \in Records /\ c[2] \in SUBSET Told
      BY PassShapes
    <3>2. CASE PutPage(r)
      BY <3>1, <3>2 DEF PutPage, PrerenderTypeOK
    <3>3. CASE PageFails(r)
      BY <3>1, <3>3 DEF PageFails, PrerenderTypeOK
    <3> QED BY <1>6, <3>2, <3>3
  <2>6. PrerenderTypeOK'
    BY <2>3, <2>4, <2>5, PassTyped DEF PrerenderTypeOK
  <2>7. UNCHANGED recordVars
    BY <2>4, <2>5
  <2>8. ReadOnce'
    BY <2>3, <2>5, <2>7, ReadTyped
  <2> QED BY <2>6, <2>8
<1>7. ASSUME NEW r \in Renderers, WriteCursor(r) \/ Abandon(r) PROVE PrerenderTypeOK' /\ ReadOnce'
  <2>1. /\ pass' = [pass EXCEPT ![r] = Asleep] /\ UNCHANGED <<recordVars, time, pages, astray>>
        /\ unread' \subseteq unread
    BY <1>7 DEF WriteCursor, Abandon
  <2>2. cursor' \in Mark
    BY <1>7, PassShapes DEF WriteCursor, Abandon, PrerenderTypeOK
  <2> QED BY <2>1, <2>2, PassTyped, ReadTyped DEF PrerenderTypeOK
<1>8. CASE LoseCursor
  BY <1>8 DEF LoseCursor, recordVars, PrerenderTypeOK, ReadOnce, Asleep, Zero, Mark
<1>9. CASE UNCHANGED prerenderVars
  BY <1>9 DEF prerenderVars, recordVars, PrerenderTypeOK, ReadOnce, Asleep, Zero
<1> QED BY <1>1, <1>2, <1>3, <1>4, <1>5, <1>6, <1>7, <1>8, <1>9 DEF PrerenderNext

-----------------------------------------------------------------------------
(* Pages follow.                                                           *)

\* A step of one pass, after which the page of m is still to be built.
LEMMA PendingStays ==
  ASSUME PrerenderTypeOK, NEW m \in Records, NEW r \in Renderers, NEW k,
         pass' = [pass EXCEPT ![r] = k], UNCHANGED recordVars,
         NEW s \in unread, s \in unread', PageOf(s) = m, Before(cursor', KeyOf(s)),
         \A q \in Renderers : Keeps(pass[q], s, m), Keeps(k, s, m)
  PROVE  Pending(m)'
<1>1. pass'[r] = k /\ \A q \in Renderers : q # r => pass'[q] = pass[q]
  BY DEF PrerenderTypeOK
<1>2. UNCHANGED <<onsite, standing, stamp>>
  BY DEF recordVars
<1>3. KeyOf(s)' = KeyOf(s) /\ Content(m)' = Content(m)
  BY <1>2 DEF KeyOf, Key, Content, Built
<1>4. \A q \in Renderers : Keeps(pass'[q], s, m)
  BY <1>1
<1>5. \A q \in Renderers : Keeps(pass[q], s, m)'
  BY <1>2, <1>3, <1>4 DEF Keeps
<1> QED BY <1>3, <1>5 DEF Pending

\* An idle pass is behind every event.
LEMMA AsleepKeeps ==
  ASSUME PrerenderTypeOK, NEW s \in unread, NEW m
  PROVE  Keeps(Asleep, s, m)
<1>1. s \in Told /\ stamp[s] # 0
  BY DEF PrerenderTypeOK
<1>2. stamp[s] > 0 /\ KeyOf(s) \in Mark /\ KeyOf(s).at = stamp[s]
  BY <1>1, KeyShape
<1>3. Before(Zero, KeyOf(s))
  BY <1>2, MarkShapes DEF Before, Mark
<1> QED BY <1>3, MarkShapes DEF Keeps

\* A page that no step but one of its own renderers touches.
LEMMA FollowedAfterPass ==
  ASSUME PrerenderTypeOK, Following, NEW r \in Renderers, NEW k, pass' = [pass EXCEPT ![r] = k],
         UNCHANGED <<recordVars, pages, cursor, unread, astray>>,
         \A s \in unread, m \in Records :
           PageOf(s) = m /\ Before(cursor, KeyOf(s)) /\ Keeps(pass[r], s, m) => Keeps(k, s, m)
  PROVE  Following'
<1> SUFFICES ASSUME NEW m \in Records \ astray', ~(pages'[m] = Content(m)')
             PROVE  Pending(m)'
  BY DEF Following
<1>0. UNCHANGED <<onsite, standing, stamp>> /\ UNCHANGED recordVars /\ UNCHANGED <<pages, cursor, unread, astray>>
  BY DEF recordVars
<1>1. Content(m)' = Content(m)
  BY <1>0 DEF Content, Built
<1>2. Pending(m)
  BY <1>0, <1>1 DEF Following
<1>3. PICK s \in unread : /\ PageOf(s) = m /\ Before(cursor, KeyOf(s))
                          /\ \A q \in Renderers : Keeps(pass[q], s, m)
  BY <1>2 DEF Pending
<1> QED BY <1>0, <1>3, PendingStays

\* A decision leaves every page right, pending or excepted.
LEMMA FollowedAfterDecision ==
  ASSUME PrerenderTypeOK, ReadOnce, Following, NEW at \in 1..time, Decide(at)
  PROVE  Following'
<1>1. PICK told \in SUBSET Told : Decided(told, at)
  BY DecisionShape
<1>2. Committed(told, at)
  BY <1>1 DEF Decided
<1>3. /\ stamp' = [s \in Told |-> IF s \in told THEN at ELSE stamp[s]]
      /\ \A s \in told : stamp[s] # at
      /\ unread' = unread \cup told /\ UNCHANGED <<time, pages, cursor, pass>>
  BY <1>1, <1>2, CommittedShape
<1>4. \A m \in Records \ astray' :
        \/ (\A s \in told : PageOf(s) # m) /\ Content(m)' = Content(m)
        \/ \E s \in told : PageOf(s) = m /\ ~Late(s, at)
  BY <1>1, <1>2, CommittedShape
<1>5. astray \subseteq astray'
  BY <1>1, <1>2, CommittedShape
<1> SUFFICES ASSUME NEW m \in Records \ astray', ~(pages'[m] = Content(m)')
             PROVE  Pending(m)'
  BY DEF Following
<1>6. CASE (\A s \in told : PageOf(s) # m) /\ Content(m)' = Content(m)
  <2>1. Pending(m)
    BY <1>3, <1>5, <1>6 DEF Following
  <2>2. PICK s \in unread : /\ PageOf(s) = m /\ Before(cursor, KeyOf(s))
                            /\ \A q \in Renderers : Keeps(pass[q], s, m)
    BY <2>1 DEF Pending
  <2>3. s \in Told /\ s \notin told
    BY <1>6, <2>2 DEF PrerenderTypeOK
  <2>4. stamp'[s] = stamp[s] /\ KeyOf(s)' = KeyOf(s)
    BY <1>3, <2>3 DEF KeyOf, Key
  <2>5. \A q \in Renderers : Keeps(pass[q], s, m)'
    BY <1>3, <1>6, <2>2, <2>4 DEF Keeps
  <2> QED BY <1>3, <2>2, <2>4, <2>5 DEF Pending
<1>7. ASSUME NEW s \in told, PageOf(s) = m, ~Late(s, at) PROVE Pending(m)'
  <2>1. s \in Told /\ stamp'[s] = at /\ s \in unread' /\ KeyOf(s)' = Key(s, at)
    BY <1>3, <1>7 DEF KeyOf, Key
  <2>2. Before(cursor, Key(s, at)) /\ \A q \in Renderers : Before(pass[q].upto, Key(s, at))
    BY <1>7 DEF Late
  <2>3. ASSUME NEW q \in Renderers, <<s, at>> \in pass[q].read PROVE FALSE
    <3>1. stamp[s] # 0 /\ (at = stamp[s] \/ s \notin live)
      BY <2>3 DEF ReadOnce
    <3>2. stamp[s] # at
      BY <1>3
    <3> QED BY <1>1, <3>1, <3>2 DEF Decided
  <2>4. \A q \in Renderers : Keeps(pass[q], s, m)'
    BY <1>3, <2>1, <2>2, <2>3 DEF Keeps
  <2>5. Before(cursor, KeyOf(s))'
    BY <1>3, <2>1, <2>2
  <2> QED BY <1>7, <2>1, <2>4, <2>5 DEF Pending
<1> QED BY <1>4, <1>6, <1>7

\* A page that is put shows what is public now, or its change is pending with
\* another pass.
LEMMA FollowedAfterPage ==
  ASSUME PrerenderTypeOK, Following, NEW r \in Renderers, PutPage(r) \/ PageFails(r)
  PROVE  Following'
<1>1. PICK b \in pass[r].built :
        /\ pass' = Without(r, b[1])
        /\ \/ /\ pages' = [pages EXCEPT ![b[1]] = b[2]]
              /\ \/ b[2] = Content(b[1]) /\ astray' = astray \ {b[1]}
                 \/ Mends(b[1]) /\ astray' = astray
                 \/ astray' = astray \cup {b[1]}
           \/ pages' = pages /\ astray' = astray \cup {b[1]}
  BY DEF PutPage, PageFails
<1>2. UNCHANGED recordVars /\ UNCHANGED <<cursor, unread>> /\ UNCHANGED <<onsite, standing, stamp>>
  BY DEF PutPage, PageFails, recordVars
<1>a. PICK n : n = b[1]
  OBVIOUS
<1>b. pass' = Without(r, n) /\ pass[r].built # {}
  BY <1>1, <1>a
<1>c. PICK k \in Pass : /\ pass' = [pass EXCEPT ![r] = k] /\ k.busy /\ k.built = {}
                        /\ k.read = pass[r].read /\ k.todo = pass[r].todo \ {n}
                        /\ k.upto = pass[r].upto
  BY <1>b, WithoutShape
<1>3. /\ pass' = [pass EXCEPT ![r] = k] /\ k.busy /\ k.built = {}
      /\ k.read = pass[r].read /\ k.todo = pass[r].todo \ {b[1]}
      /\ k.upto = pass[r].upto
  BY <1>a, <1>c
<1>4. b[1] \in Records
  BY PassShapes
<1> SUFFICES ASSUME NEW m \in Records \ astray', ~(pages'[m] = Content(m)')
             PROVE  Pending(m)'
  BY DEF Following
<1>5. Content(m)' = Content(m)
  BY <1>2 DEF Content, Built
<1>6. CASE m = b[1]
  <2>1. Mends(m)
    BY <1>1, <1>4, <1>5, <1>6 DEF PrerenderTypeOK
  <2>2. PICK s \in unread : /\ PageOf(s) = m /\ ~Late(s, stamp[s])
                            /\ \A q \in Renderers : <<s, stamp[s]>> \notin pass[q].read
    BY <2>1 DEF Mends
  <2>3. Before(cursor, KeyOf(s)) /\ \A q \in Renderers : Before(pass[q].upto, KeyOf(s))
    BY <2>2 DEF Late, KeyOf
  <2>4. (\A q \in Renderers : Keeps(pass[q], s, m)) /\ Keeps(k, s, m)
    BY <1>3, <2>2, <2>3 DEF Keeps
  <2> QED BY <1>2, <1>3, <2>2, <2>3, <2>4, PendingStays
<1>7. CASE m # b[1]
  <2>1. Pending(m)
    BY <1>1, <1>5, <1>7 DEF Following, PrerenderTypeOK
  <2>2. PICK s \in unread : /\ PageOf(s) = m /\ Before(cursor, KeyOf(s))
                            /\ \A q \in Renderers : Keeps(pass[q], s, m)
    BY <2>1 DEF Pending
  <2>3. Keeps(k, s, m)
    BY <1>3, <1>7, <2>2 DEF Keeps
  <2> QED BY <1>2, <1>3, <2>2, <2>3, PendingStays
<1> QED BY <1>6, <1>7

\* The cursor is written, or the pass ends without: a page it had yet to build
\* is built again.
LEMMA FollowedAfterEnd ==
  ASSUME PrerenderTypeOK, Following, NEW r \in Renderers, WriteCursor(r) \/ Abandon(r)
  PROVE  Following'
<1>1. /\ pass' = [pass EXCEPT ![r] = Asleep] /\ UNCHANGED recordVars /\ UNCHANGED <<pages, astray>>
      /\ UNCHANGED <<onsite, standing, stamp>>
  BY DEF WriteCursor, Abandon, recordVars
<1> SUFFICES ASSUME NEW m \in Records \ astray', ~(pages'[m] = Content(m)')
             PROVE  Pending(m)'
  BY DEF Following
<1>2. Pending(m)
  BY <1>1 DEF Following, Content, Built
<1>3. PICK s \in unread : /\ PageOf(s) = m /\ Before(cursor, KeyOf(s))
                          /\ \A q \in Renderers : Keeps(pass[q], s, m)
  BY <1>2 DEF Pending
<1>4. Keeps(Asleep, s, m)
  BY AsleepKeeps
<1>5. CASE WriteCursor(r)
  <2>1. <<s, stamp[s]>> \notin pass[r].read /\ Before(pass[r].upto, KeyOf(s))
    BY <1>3, <1>5 DEF WriteCursor, Keeps
  <2>2. s \in unread' /\ Before(cursor', KeyOf(s))
    BY <1>3, <1>5, <2>1 DEF WriteCursor
  <2> QED BY <1>1, <1>3, <1>4, <2>2, PendingStays
<1>6. CASE Abandon(r)
  <2>1. s \in unread' /\ Before(cursor', KeyOf(s))
    BY <1>3, <1>6 DEF Abandon
  <2> QED BY <1>1, <1>3, <1>4, <2>1, PendingStays
<1> QED BY <1>5, <1>6

\* A cursor that stays or is lost keeps every pending change ahead of it.
LEMMA FollowedStill ==
  ASSUME PrerenderTypeOK, Following, UNCHANGED <<recordVars, pages, pass, unread, astray>>,
         cursor' = cursor \/ cursor' = Zero
  PROVE  Following'
<1>1. UNCHANGED <<onsite, standing, stamp, pages, pass, unread, astray>>
  BY DEF recordVars
<1>2. \A s \in unread : Before(Zero, KeyOf(s))
  BY AsleepKeeps, MarkShapes DEF Keeps
<1>3. \A m : Content(m)' = Content(m)
  BY <1>1 DEF Content, Built
<1>4. \A s : KeyOf(s)' = KeyOf(s)
  BY <1>1 DEF KeyOf, Key
<1>5. \A m : Pending(m) => Pending(m)'
  BY <1>1, <1>2, <1>3, <1>4 DEF Pending, Keeps
<1> QED BY <1>1, <1>3, <1>5 DEF Following

\* Every step keeps the pages following.
LEMMA FollowingKept ==
  ASSUME PrerenderTypeOK, ReadOnce, Following, [PrerenderNext]_prerenderVars
  PROVE  Following'
<1> USE MarkShapes
<1>1. ASSUME NEW r \in Renderers, TakeBatch(r) PROVE Following'
  <2>a. PICK batch \in SUBSET Past : \E last \in batch : \E k \in Pass :
           /\ pass' = [pass EXCEPT ![r] = k] /\ k = Taken(batch, last)
           /\ k.busy /\ k.read = {<<s, stamp[s]>> : s \in batch} /\ k.built = {}
           /\ k.todo = {PageOf(s) : s \in batch} /\ k.upto = CursorAt(last)
           /\ \A s \in Past \ batch : Before(CursorAt(last), KeyOf(s))
    BY <1>1, TakenShape
  <2>1. PICK last \in batch, k \in Pass :
          /\ pass' = [pass EXCEPT ![r] = k]
          /\ k.read = {<<s, stamp[s]>> : s \in batch} /\ k.built = {}
          /\ k.todo = {PageOf(s) : s \in batch} /\ k.upto = CursorAt(last)
          /\ \A s \in Past \ batch : Before(CursorAt(last), KeyOf(s))
    BY <2>a
  <2>2. ASSUME NEW s \in unread, NEW m \in Records, PageOf(s) = m, Before(cursor, KeyOf(s))
        PROVE  Keeps(k, s, m)
    <3>1. s \in Past
      BY <2>2 DEF Past, Beyond, PrerenderTypeOK
    <3>2. CASE s \in batch
      BY <2>1, <2>2, <3>2 DEF Keeps
    <3>3. CASE s \notin batch
      <4>1. <<s, stamp[s]>> \notin k.read
        BY <2>1, <3>3
      <4> QED BY <2>1, <3>1, <3>3, <4>1 DEF Keeps
    <3> QED BY <3>2, <3>3
  <2>3. UNCHANGED <<recordVars, pages, cursor, unread, astray>>
    BY <1>1 DEF TakeBatch
  <2> QED BY <2>1, <2>2, <2>3, FollowedAfterPass
<1>2. ASSUME NEW r \in Renderers, Rebuild(r) PROVE Following'
  <2>1. PICK k : k = [Asleep EXCEPT !.busy = TRUE, !.todo = onsite]
    OBVIOUS
  <2>2. k.read = {} /\ k.upto = Zero
    BY <2>1 DEF Asleep
  <2>3. \A s \in unread, m \in Records : Keeps(k, s, m)
    BY <2>2, AsleepKeeps DEF Keeps
  <2>4. pass' = [pass EXCEPT ![r] = k] /\ UNCHANGED <<recordVars, pages, cursor, unread, astray>>
    BY <1>2, <2>1 DEF Rebuild
  <2> QED BY <2>3, <2>4, FollowedAfterPass
<1>3. ASSUME NEW r \in Renderers, NEW n \in Records, Build(r, n) PROVE Following'
  <2>1. PICK k : k = [pass[r] EXCEPT !.built = {<<n, Content(n)>>}]
    OBVIOUS
  <2>2. /\ k.read = pass[r].read /\ k.todo = pass[r].todo /\ k.upto = pass[r].upto
        /\ k.built = {<<n, Content(n)>>}
    BY <2>1, PassShapes DEF Pass
  <2>3. \A b \in k.built : b[2] = Content(b[1])
    BY <2>2
  <2>4. \A s \in unread, m \in Records : Keeps(pass[r], s, m) => Keeps(k, s, m)
    BY <2>2, <2>3 DEF Keeps
  <2>5. pass' = [pass EXCEPT ![r] = k] /\ UNCHANGED <<recordVars, pages, cursor, unread, astray>>
    BY <1>3, <2>1 DEF Build
  <2> QED BY <2>4, <2>5, FollowedAfterPass
<1>4. CASE Clock
  BY <1>4, FollowedStill DEF Clock
<1>5. CASE LoseCursor
  BY <1>5, FollowedStill DEF LoseCursor
<1>6. CASE UNCHANGED prerenderVars
  BY <1>6, FollowedStill DEF prerenderVars, recordVars
<1> QED BY <1>1, <1>2, <1>3, <1>4, <1>5, <1>6, FollowedAfterDecision, FollowedAfterPage,
          FollowedAfterEnd DEF PrerenderNext

\* They follow in every behaviour.
LEMMA AlwaysFollowing == PrerenderSpec => [](PrerenderTypeOK /\ ReadOnce /\ Following)
<1>1. PrerenderInit => PrerenderTypeOK /\ ReadOnce /\ Following
  BY PrerenderConstants, MarkShapes DEF PrerenderInit, PrerenderTypeOK, ReadOnce, Following,
     Content, Built, Told
<1>2. PrerenderTypeOK /\ ReadOnce /\ Following /\ [PrerenderNext]_prerenderVars
      => PrerenderTypeOK' /\ ReadOnce' /\ Following'
  BY PagesTyped, FollowingKept
<1> QED BY <1>1, <1>2, PTL DEF PrerenderSpec

\* Pages, cursor, passes and stamps keep their types, over any number of
\* renderers and records (consumer.ts).
THEOREM PrerenderTypeCorrect == PrerenderSpec => []PrerenderTypeOK
BY AlwaysFollowing, PTL

\* Once the consumer has caught up, a page that is not excepted shows what is
\* public: after deaths between pages and cursor, changes while a page is
\* built, and a lost cursor that replays everything (consumer.ts: "Rendering is
\* idempotent, so an overlapping replay costs nothing").
THEOREM PagesFollowTheRecord == PrerenderSpec => []PagesFollow
<1>1. PrerenderTypeOK /\ Following => PagesFollow
  BY DEF PagesFollow, AtRest, Following, Pending, Beyond
<1> QED BY <1>1, AlwaysFollowing, PTL

-----------------------------------------------------------------------------
\* Findings, notices and the idle task.
LEMMA FlagShapes ==
  /\ \A i \in Flags : i[1] \in AlertRules /\ i = <<i[1], i[2]>>
  /\ \A n \in Notices : n[1] \in Subscribers /\ n[2] \in Flags
  /\ Idle \in Task /\ Idle.stage = "idle" /\ Idle.mail = {} /\ Idle.list = {} /\ Idle.todo = {}
BY DEF Flags, Notices, Idle, Task, Stages

\* A task moves and no row changes.
LEMMA TaskTyped ==
  ASSUME AlertsTypeOK, NEW p \in Tasks, NEW t \in Task, task' = [task EXCEPT ![p] = t],
         UNCHANGED <<finding, threshold, notice, enabled, stopped, alerted>>, losses' \in 0..MaxLosses
  PROVE  AlertsTypeOK'
BY DEF AlertsTypeOK

\* The rows of a mail get a status.
LEMMA StatusTyped ==
  ASSUME AlertsTypeOK, NEW p \in Tasks, NEW t \in Task, task' = [task EXCEPT ![p] = t],
         NEW s \in {"sent", "skipped", "failed"}, SetStatus(p, s),
         UNCHANGED <<finding, threshold, enabled, stopped, alerted>>, losses' \in 0..MaxLosses
  PROVE  AlertsTypeOK'
<1>1. notice' \in [Notices -> {"none", "pending", "queued", "sent", "skipped", "failed"}]
  BY DEF AlertsTypeOK, SetStatus
<1>2. \A n \in Notices : notice'[n] # "none" => finding'[n[2]] \in {"held", "published"}
  BY DEF AlertsTypeOK, SetStatus
<1> QED BY <1>1, <1>2 DEF AlertsTypeOK

\* Findings, notices and tasks keep their types, and a notice there is stands
\* for a finding there is (notification.ts, anomaly-detection.ts).
THEOREM AlertsTypeCorrect == AlertsSpec => []AlertsTypeOK
<1>1. AlertsInit => AlertsTypeOK
  BY FlagShapes, AlertsConstants DEF AlertsInit, AlertsTypeOK, States
<1>2. AlertsTypeOK /\ [AlertsNext]_alertVars => AlertsTypeOK'
  <2> SUFFICES ASSUME AlertsTypeOK, [AlertsNext]_alertVars PROVE AlertsTypeOK'
    OBVIOUS
  <2> USE FlagShapes
  <2>0. /\ \A p \in Tasks : task[p] \in Task
        /\ losses \in 0..MaxLosses
    BY DEF AlertsTypeOK
  <2>1. CASE SetThreshold
    BY <2>1, AlertsConstants DEF SetThreshold, readerVars, AlertsTypeOK
  <2>2. ASSUME NEW i \in Flags, ApproveFlag(i) PROVE AlertsTypeOK'
    BY <2>2 DEF ApproveFlag, readerVars, AlertsTypeOK, States
  <2>3. ASSUME NEW s \in Subscribers, TurnOff(s) \/ StopMail(s) PROVE AlertsTypeOK'
    BY <2>3 DEF TurnOff, StopMail, reviewVars, AlertsTypeOK
  <2>4. ASSUME NEW p \in Detections, Detect(p) PROVE AlertsTypeOK'
    <3>1. PICK t : t = [Idle EXCEPT !.stage = "deleting", !.rules = threshold, !.ids = Standing(Flags)]
      OBVIOUS
    <3>2. t \in Task
      BY <3>1 DEF AlertsTypeOK, Task, Stages, Standing
    <3> QED BY <2>0, <2>4, <3>1, <3>2, TaskTyped DEF Detect, reviewVars, readerVars, Tasks
  <2>5. ASSUME NEW p \in Detections, ReplaceFlags(p) PROVE AlertsTypeOK'
    <3> p \in Tasks
      BY DEF Tasks
    <3>1. PICK fired \in SUBSET {r \in AlertRules : New(r) # {}} :
            /\ finding' = [i \in Flags |->
                 CASE i \in UNION {New(r) : r \in fired} ->
                        IF i[1] \in task[p].rules THEN "held" ELSE "published"
                   [] i \in task[p].ids -> "gone"
                   [] OTHER -> finding[i]]
            /\ LET told == fired \ task[p].rules IN
                 task' = [task EXCEPT ![p] = IF told = {} THEN Idle
                            ELSE [Idle EXCEPT !.stage = "announcing", !.rules = told]]
      BY <2>5 DEF ReplaceFlags
    <3>2. \A i \in UNION {New(r) : r \in fired} : finding[i] = "none"
      BY DEF New
    <3>3. finding' \in [Flags -> States]
      BY <3>1 DEF AlertsTypeOK, States
    <3>4. task' \in [Tasks -> Task]
      <4>1. [Idle EXCEPT !.stage = "announcing", !.rules = fired \ task[p].rules] \in Task
        BY DEF Task, Stages
      <4> QED BY <3>1, <4>1 DEF AlertsTypeOK
    <3>5. /\ notice' = [n \in Notices |-> IF n[2] \in task[p].ids THEN "none" ELSE notice[n]]
          /\ alerted' = [n \in Notices |-> IF n[2] \in task[p].ids THEN 0 ELSE alerted[n]]
          /\ UNCHANGED <<threshold, enabled, stopped, losses>>
      BY <2>5 DEF ReplaceFlags, readerVars
    <3>6. /\ notice' \in [Notices -> {"none", "pending", "queued", "sent", "skipped", "failed"}]
          /\ alerted' \in [Notices -> Nat]
      BY <3>5 DEF AlertsTypeOK
    <3>7. ASSUME NEW n \in Notices, notice'[n] # "none" PROVE finding'[n[2]] \in {"held", "published"}
      <4>1. n[2] \notin task[p].ids /\ notice[n] # "none"
        BY <3>5, <3>7
      <4>2. finding[n[2]] \in {"held", "published"}
        BY <4>1 DEF AlertsTypeOK
      <4>3. finding'[n[2]] = finding[n[2]]
        BY <3>1, <3>2, <4>1, <4>2
      <4> QED BY <4>2, <4>3
    <3> QED BY <3>3, <3>4, <3>5, <3>6, <3>7 DEF AlertsTypeOK
  <2>6. ASSUME NEW p \in Detections, ReadFlags(p) PROVE AlertsTypeOK'
    <3>1. PICK t : t = [Idle EXCEPT !.stage = "noting", !.ids = enabled,
                                    !.todo = Subscribers \X Announced(task[p].rules)]
      OBVIOUS
    <3>2. Subscribers \X Announced(task[p].rules) \subseteq Notices
      BY DEF Announced, Standing, Notices
    <3>3. t \in Task
      BY <3>1, <3>2 DEF AlertsTypeOK, Task, Stages
    <3> QED BY <2>0, <2>6, <3>1, <3>3, TaskTyped DEF ReadFlags, reviewVars, readerVars, Tasks
  <2>7. ASSUME NEW p \in Detections, WriteNotices(p) PROVE AlertsTypeOK'
    <3> DEFINE new == {n \in task[p].todo : Insertable(n)}
               t == [Idle EXCEPT !.stage = "listing",
                                 !.list = {n \in new : StatusOf(n, task[p].ids) = "queued"}]
    <3> p \in Tasks
      BY DEF Tasks
    <3>1. /\ notice' = [n \in Notices |-> IF n \in new THEN StatusOf(n, task[p].ids) ELSE notice[n]]
          /\ task' = [task EXCEPT ![p] = t]
          /\ UNCHANGED <<finding, threshold, enabled, stopped, alerted, losses>>
      BY <2>7 DEF WriteNotices, reviewVars, readerVars
    <3>2. \A n \in Notices : StatusOf(n, task[p].ids) \in {"skipped", "queued", "pending"}
      BY DEF StatusOf
    <3>3. notice' \in [Notices -> {"none", "pending", "queued", "sent", "skipped", "failed"}]
      BY <3>1, <3>2 DEF AlertsTypeOK
    <3>4. \A n \in Notices : notice'[n] # "none" => finding'[n[2]] \in {"held", "published"}
      BY <3>1 DEF AlertsTypeOK, Insertable, Standing
    <3>5. t \in Task
      BY <2>0 DEF Task, Stages
    <3> QED BY <3>1, <3>3, <3>4, <3>5 DEF AlertsTypeOK
  <2>8. ASSUME NEW p \in Detections, NextAlert(p) PROVE AlertsTypeOK'
    <3>1. PICK n \in task[p].list :
            task' = [task EXCEPT ![p] = [@ EXCEPT !.stage = "mailing", !.list = task[p].list \ {n}, !.mail = {n}]]
      BY <2>8 DEF NextAlert
    <3>2. p \in Tasks /\ task[p] \in Task /\ n \in Notices
      BY <2>0, <3>1 DEF Task, Tasks
    <3>3. [task[p] EXCEPT !.stage = "mailing", !.list = task[p].list \ {n}, !.mail = {n}] \in Task
      <4>1. task[p].list \ {n} \in SUBSET Notices /\ {n} \in SUBSET Notices /\ "mailing" \in Stages
        BY <3>2 DEF Task, Stages
      <4> QED BY <3>2, <4>1 DEF Task
    <3>4. PICK t \in Task : t = [task[p] EXCEPT !.stage = "mailing", !.list = task[p].list \ {n}, !.mail = {n}]
      BY <3>3
    <3>5. task' = [task EXCEPT ![p] = t]
      BY <3>1, <3>4
    <3> QED BY <2>0, <2>8, <3>2, <3>5, TaskTyped DEF NextAlert, reviewVars, readerVars, Tasks
  <2>9. ASSUME NEW p \in Digests, StartDigest(p) PROVE AlertsTypeOK'
    <3>1. PICK t : t = [Idle EXCEPT !.stage = "listing", !.list = {n \in Notices : Due(n) /\ n[1] \in enabled}]
      OBVIOUS
    <3>2. t \in Task
      BY <3>1 DEF Task, Stages
    <3> QED BY <2>0, <2>9, <3>1, <3>2, TaskTyped DEF StartDigest, reviewVars, readerVars, Tasks
  <2>10. ASSUME NEW p \in Digests, NextDigest(p) PROVE AlertsTypeOK'
    <3>1. PICK s \in {n[1] : n \in task[p].list} :
            LET mail == {n \in Notices : n[1] = s /\ Due(n)} IN
            task' = [task EXCEPT ![p] = [@ EXCEPT !.list = {n \in task[p].list : n[1] # s}, !.mail = mail,
                                             !.stage = IF mail = {} THEN "listing" ELSE "mailing"]]
      BY <2>10 DEF NextDigest
    <3>2. PICK mail : mail = {n \in Notices : n[1] = s /\ Due(n)}
      OBVIOUS
    <3>3. PICK t : t = [task[p] EXCEPT !.list = {n \in task[p].list : n[1] # s}, !.mail = mail,
                                       !.stage = IF mail = {} THEN "listing" ELSE "mailing"]
      OBVIOUS
    <3>4. t \in Task
      BY <2>0, <3>2, <3>3 DEF Task, Stages, Tasks
    <3> QED BY <2>0, <2>10, <3>1, <3>2, <3>3, <3>4, TaskTyped DEF NextDigest, reviewVars, readerVars, Tasks
  <2>11. ASSUME NEW p \in Tasks PROVE [task[p] EXCEPT !.stage = "listing", !.mail = {}] \in Task
    BY <2>0 DEF Task, Stages
  <2>12. ASSUME NEW p \in Tasks, Clear(p) PROVE AlertsTypeOK'
    <3>1. [task[p] EXCEPT !.stage = "cleared"] \in Task
      BY <2>0 DEF Task, Stages
    <3> QED BY <2>0, <2>11, <2>12, <3>1, TaskTyped, StatusTyped DEF Clear, Finished, reviewVars, readerVars
  <2>13. ASSUME NEW p \in Tasks, Post(p) PROVE AlertsTypeOK'
    <3>1. [task[p] EXCEPT !.stage = "taken"] \in Task
      BY <2>0 DEF Task, Stages
    <3>2. alerted' \in [Notices -> Nat]
      BY <2>13 DEF Post, AlertsTypeOK
    <3> QED BY <2>13, <3>1, <3>2 DEF Post, AlertsTypeOK, reviewVars, readerVars
  <2>14. ASSUME NEW p \in Tasks, PostFails(p) PROVE AlertsTypeOK'
    <3>1. losses' \in 0..MaxLosses
      BY <2>0, <2>14, AlertsConstants DEF PostFails
    <3> QED BY <2>11, <2>14, <3>1, TaskTyped, StatusTyped DEF PostFails, Finished, reviewVars, readerVars
  <2>15. ASSUME NEW p \in Tasks, MarkSent(p) PROVE AlertsTypeOK'
    BY <2>0, <2>11, <2>15, StatusTyped DEF MarkSent, Finished, reviewVars, readerVars
  <2>16. ASSUME NEW p \in Tasks, EndTask(p) PROVE AlertsTypeOK'
    BY <2>0, <2>16, TaskTyped DEF EndTask, reviewVars, readerVars
  <2>17. ASSUME NEW p \in Tasks, LoseTask(p) PROVE AlertsTypeOK'
    <3>1. losses' \in 0..MaxLosses
      BY <2>0, <2>17, AlertsConstants DEF LoseTask
    <3> QED BY <2>17, <3>1, TaskTyped DEF LoseTask, reviewVars, readerVars
  <2>18. CASE UNCHANGED alertVars
    BY <2>18 DEF alertVars, AlertsTypeOK
  <2> QED BY <2>1, <2>2, <2>3, <2>4, <2>5, <2>6, <2>7, <2>8, <2>9, <2>10, <2>12, <2>13, <2>14, <2>15,
             <2>16, <2>17, <2>18 DEF AlertsNext
<1> QED BY <1>1, <1>2, PTL DEF AlertsSpec

\* What ReplaceFlags does to one finding and to the rows about it.
LEMMA Replacing ==
  ASSUME AlertsTypeOK, NEW p \in Detections, ReplaceFlags(p)
  PROVE  /\ \A i \in Flags :
              /\ finding[i] # "none" => finding'[i] = IF i \in task[p].ids THEN "gone" ELSE finding[i]
              /\ finding[i] = "none" => finding'[i] \in States
         /\ \A n \in Notices :
              /\ notice'[n] = IF n[2] \in task[p].ids THEN "none" ELSE notice[n]
              /\ alerted'[n] = IF n[2] \in task[p].ids THEN 0 ELSE alerted[n]
         /\ task'[p].stage \in {"idle", "announcing"} /\ task'[p].list = {} /\ task'[p].mail = {}
         /\ \A q \in Tasks : q # p => task'[q] = task[q]
         /\ losses' = losses
<1> USE FlagShapes DEF Tasks
<1>1. PICK fired \in SUBSET {r \in AlertRules : New(r) # {}} :
        /\ finding' = [i \in Flags |->
             CASE i \in UNION {New(r) : r \in fired} ->
                    IF i[1] \in task[p].rules THEN "held" ELSE "published"
               [] i \in task[p].ids -> "gone"
               [] OTHER -> finding[i]]
        /\ LET told == fired \ task[p].rules IN
             task' = [task EXCEPT ![p] = IF told = {} THEN Idle
                        ELSE [Idle EXCEPT !.stage = "announcing", !.rules = told]]
  BY DEF ReplaceFlags
<1>2. \A i \in UNION {New(r) : r \in fired} : finding[i] = "none"
  BY DEF New
<1>3. ASSUME NEW i \in Flags, finding[i] # "none"
      PROVE  finding'[i] = IF i \in task[p].ids THEN "gone" ELSE finding[i]
  BY <1>1, <1>2, <1>3
<1>4. ASSUME NEW i \in Flags, finding[i] = "none" PROVE finding'[i] \in States
  BY <1>1, <1>4 DEF States
<1>5. /\ \A n \in Notices :
           /\ notice'[n] = IF n[2] \in task[p].ids THEN "none" ELSE notice[n]
           /\ alerted'[n] = IF n[2] \in task[p].ids THEN 0 ELSE alerted[n]
      /\ losses' = losses
  BY DEF ReplaceFlags
<1>6. /\ task'[p].stage \in {"idle", "announcing"} /\ task'[p].list = {} /\ task'[p].mail = {}
      /\ \A q \in Tasks : q # p => task'[q] = task[q]
  BY <1>1 DEF AlertsTypeOK, Idle
<1> QED BY <1>3, <1>4, <1>5, <1>6

\* How the other steps of a task move it.
Rest(p) == \A q \in Tasks : q # p => task'[q] = task[q]

\* What the start of a detection changes.
LEMMA Detecting ==
  ASSUME AlertsTypeOK, NEW p \in Detections, Detect(p)
  PROVE  /\ task[p] = Idle /\ Rest(p)
         /\ task'[p].stage = "deleting" /\ task'[p].list = {} /\ task'[p].mail = {}
         /\ UNCHANGED <<finding, notice, alerted, losses>>
BY DEF Detect, Rest, Idle, AlertsTypeOK, Tasks, reviewVars

\* What reading the findings to announce changes.
LEMMA Noting ==
  ASSUME AlertsTypeOK, NEW p \in Detections, ReadFlags(p)
  PROVE  /\ task[p].stage = "announcing" /\ Rest(p)
         /\ task'[p].stage = "noting" /\ task'[p].list = {} /\ task'[p].mail = {}
         /\ task'[p].todo = Subscribers \X Announced(task[p].rules)
         /\ UNCHANGED <<finding, notice, alerted, losses>>
BY DEF ReadFlags, Rest, Idle, AlertsTypeOK, Tasks, reviewVars

\* What writing the notices changes.
LEMMA Writing ==
  ASSUME AlertsTypeOK, NEW p \in Detections, WriteNotices(p)
  PROVE  /\ task[p].stage = "noting" /\ Rest(p) /\ task'[p].stage = "listing" /\ task'[p].mail = {}
         /\ \A n \in Notices :
              \/ notice'[n] = notice[n] /\ n \notin task'[p].list
              \/ /\ n \in task[p].todo /\ Insertable(n) /\ notice'[n] = StatusOf(n, task[p].ids)
                 /\ n \in task'[p].list <=> notice'[n] = "queued"
         /\ task'[p].list \subseteq Notices
         /\ UNCHANGED <<finding, alerted, losses>>
<1> DEFINE new == {n \in task[p].todo : Insertable(n)}
           t == [Idle EXCEPT !.stage = "listing",
                             !.list = {n \in new : StatusOf(n, task[p].ids) = "queued"}]
<1> p \in Tasks
  BY DEF Tasks
<1>1. /\ notice' = [n \in Notices |-> IF n \in new THEN StatusOf(n, task[p].ids) ELSE notice[n]]
      /\ task' = [task EXCEPT ![p] = t]
      /\ task[p].stage = "noting"
      /\ UNCHANGED <<finding, alerted, losses>>
  BY DEF WriteNotices, reviewVars
<1>2. /\ task'[p].stage = "listing" /\ task'[p].mail = {}
      /\ task'[p].list = {n \in new : StatusOf(n, task[p].ids) = "queued"}
  BY <1>1 DEF AlertsTypeOK, Idle
<1>3. new \subseteq Notices
  BY DEF AlertsTypeOK, Task
<1>4. Rest(p)
  BY <1>1 DEF Rest, AlertsTypeOK
<1> QED BY <1>1, <1>2, <1>3, <1>4

\* What taking the next alert to mail changes.
LEMMA Alerting ==
  ASSUME AlertsTypeOK, NEW p \in Detections, NextAlert(p)
  PROVE  /\ task[p].stage = "listing" /\ Rest(p) /\ task'[p].stage = "mailing"
         /\ \E n \in task[p].list : task'[p].mail = {n} /\ task'[p].list = task[p].list \ {n}
         /\ UNCHANGED <<finding, notice, alerted, losses>>
<1>1. PICK n \in task[p].list :
        task' = [task EXCEPT ![p] = [@ EXCEPT !.stage = "mailing", !.list = task[p].list \ {n}, !.mail = {n}]]
  BY DEF NextAlert
<1>2. /\ task'[p].stage = "mailing" /\ task'[p].mail = {n} /\ task'[p].list = task[p].list \ {n}
      /\ Rest(p)
  BY <1>1 DEF AlertsTypeOK, Task, Tasks, Rest
<1> QED BY <1>2 DEF NextAlert, reviewVars

\* What the start of a digest changes.
LEMMA Digesting ==
  ASSUME AlertsTypeOK, NEW p \in Digests, StartDigest(p)
  PROVE  /\ task[p] = Idle /\ Rest(p)
         /\ task'[p].stage = "listing" /\ task'[p].mail = {}
         /\ UNCHANGED <<finding, notice, alerted, losses>>
BY DEF StartDigest, Rest, Idle, AlertsTypeOK, Tasks, reviewVars

\* What collecting the notices of a digest changes.
LEMMA Collecting ==
  ASSUME AlertsTypeOK, NEW p \in Digests, NextDigest(p)
  PROVE  /\ task[p].stage = "listing" /\ Rest(p)
         /\ task'[p].stage = IF task'[p].mail = {} THEN "listing" ELSE "mailing"
         /\ task'[p].mail \subseteq {n \in Notices : Due(n)}
         /\ UNCHANGED <<finding, notice, alerted, losses>>
<1>1. PICK s \in {n[1] : n \in task[p].list} :
        LET mail == {n \in Notices : n[1] = s /\ Due(n)} IN
        task' = [task EXCEPT ![p] = [@ EXCEPT !.list = {n \in task[p].list : n[1] # s}, !.mail = mail,
                                         !.stage = IF mail = {} THEN "listing" ELSE "mailing"]]
  BY DEF NextDigest
<1>2. PICK mail : mail = {n \in Notices : n[1] = s /\ Due(n)}
  OBVIOUS
<1>3. PICK list : list = {n \in task[p].list : n[1] # s}
  OBVIOUS
<1>4. task' = [task EXCEPT ![p] = [@ EXCEPT !.list = list, !.mail = mail,
                                            !.stage = IF mail = {} THEN "listing" ELSE "mailing"]]
  BY <1>1, <1>2, <1>3
<1>5. /\ task'[p].stage = IF mail = {} THEN "listing" ELSE "mailing"
      /\ task'[p].mail = mail
      /\ Rest(p)
  BY <1>4 DEF AlertsTypeOK, Task, Tasks, Rest
<1> QED BY <1>2, <1>5 DEF NextDigest, reviewVars

\* What the end of a mail changes.
LEMMA Finishing ==
  ASSUME AlertsTypeOK, NEW p \in Tasks, task' = Finished(p)
  PROVE  /\ Rest(p) /\ task'[p].stage = "listing" /\ task'[p].mail = {} /\ task'[p].list = task[p].list
BY DEF Finished, AlertsTypeOK, Task, Rest

\* What a step from one stage to the next changes.
LEMMA Staging ==
  ASSUME AlertsTypeOK, NEW p \in Tasks, NEW s, task' = [task EXCEPT ![p].stage = s]
  PROVE  /\ Rest(p) /\ task'[p].stage = s /\ task'[p].mail = task[p].mail /\ task'[p].list = task[p].list
BY DEF AlertsTypeOK, Task, Rest

\* What the end of a task changes.
LEMMA Idling ==
  ASSUME AlertsTypeOK, NEW p \in Tasks, task' = [task EXCEPT ![p] = Idle]
  PROVE  /\ Rest(p) /\ task'[p].stage = "idle" /\ task'[p].mail = {} /\ task'[p].list = {}
BY DEF AlertsTypeOK, Task, Rest, Idle

\* A finding that was published stays so until it is deleted; nothing that was
\* deleted comes back.
LEMMA FindingSteps ==
  ASSUME AlertsTypeOK, [AlertsNext]_alertVars, NEW i \in Flags
  PROVE  /\ finding[i] = "gone" => finding'[i] = "gone"
         /\ finding[i] = "published" => finding'[i] \in {"published", "gone"}
         /\ finding[i] # "none" => finding'[i] # "none"
<1>1. ASSUME NEW p \in Detections, ReplaceFlags(p)
      PROVE  /\ finding[i] = "gone" => finding'[i] = "gone"
             /\ finding[i] = "published" => finding'[i] \in {"published", "gone"}
             /\ finding[i] # "none" => finding'[i] # "none"
  BY <1>1, Replacing
<1>2. ASSUME NEW j \in Flags, ApproveFlag(j)
      PROVE  /\ finding[i] = "gone" => finding'[i] = "gone"
             /\ finding[i] = "published" => finding'[i] \in {"published", "gone"}
             /\ finding[i] # "none" => finding'[i] # "none"
  BY <1>2 DEF ApproveFlag, AlertsTypeOK
<1>3. CASE UNCHANGED finding
  BY <1>3
<1> QED BY <1>1, <1>2, <1>3 DEF AlertsNext, alertVars, SetThreshold, TurnOff, StopMail, Detect, ReadFlags,
           WriteNotices, NextAlert, StartDigest, NextDigest, Clear, Post, PostFails, MarkSent, EndTask,
           LoseTask, reviewVars

\* What is about to be noted was published when it was read, and was not held
\* back since: it can only have been deleted.
ReadPublished ==
  \A p \in Tasks : task[p].stage = "noting" =>
    \A n \in task[p].todo : finding[n[2]] \in {"published", "gone"}

\* No notification is about a finding held for review, also when a second
\* detection, under a stricter policy, replaces the findings that the first is
\* about to announce (notification.ts: "emailed while the site is still
\* withholding it").
THEOREM OnlyPublishedIsNoticed == AlertsSpec => []NoticedIsPublished
<1> USE FlagShapes
<1>1. AlertsInit => ReadPublished /\ NoticedIsPublished
  BY DEF AlertsInit, ReadPublished, NoticedIsPublished
<1>2. AlertsTypeOK /\ AlertsTypeOK' /\ ReadPublished /\ NoticedIsPublished /\ [AlertsNext]_alertVars
      => ReadPublished' /\ NoticedIsPublished'
  <2> SUFFICES ASSUME AlertsTypeOK, AlertsTypeOK', ReadPublished, NoticedIsPublished, [AlertsNext]_alertVars
               PROVE  ReadPublished' /\ NoticedIsPublished'
    OBVIOUS
  <2>0. /\ \A p \in Tasks : task[p] \in Task
        /\ \A i \in Flags : finding[i] \in {"published", "gone"} => finding'[i] \in {"published", "gone"}
    BY FindingSteps DEF AlertsTypeOK
  \* A step after which nobody but who did already is about to note.
  <2>f. ASSUME \A q \in Tasks : task'[q] = task[q] \/ task'[q].stage # "noting"
        PROVE  ReadPublished'
    <3> SUFFICES ASSUME NEW q \in Tasks, task'[q].stage = "noting", NEW n \in task'[q].todo
                 PROVE  finding'[n[2]] \in {"published", "gone"}
      BY DEF ReadPublished
    <3>1. task'[q] = task[q] /\ n \in Notices
      BY <2>0, <2>f DEF Task
    <3> QED BY <2>0, <3>1 DEF ReadPublished
  \* A step that makes no row and changes no finding.
  <2>g. ASSUME UNCHANGED finding, \A n \in Notices : notice'[n] # "none" => notice[n] # "none"
        PROVE  NoticedIsPublished'
    BY <2>g DEF NoticedIsPublished
  <2>1. CASE SetThreshold
    BY <2>1, <2>f, <2>g DEF SetThreshold
  <2>2. ASSUME NEW i \in Flags, ApproveFlag(i) PROVE ReadPublished' /\ NoticedIsPublished'
    <3>1. NoticedIsPublished'
      BY <2>2 DEF ApproveFlag, NoticedIsPublished, AlertsTypeOK
    <3> QED BY <2>2, <2>f, <3>1 DEF ApproveFlag
  <2>3. ASSUME NEW s \in Subscribers, TurnOff(s) \/ StopMail(s) PROVE ReadPublished' /\ NoticedIsPublished'
    BY <2>3, <2>f, <2>g DEF TurnOff, StopMail, reviewVars
  <2>5. ASSUME NEW p \in Detections, ReplaceFlags(p) PROVE ReadPublished' /\ NoticedIsPublished'
    <3>1. ReadPublished'
      BY <2>5, <2>f, Replacing
    <3>2. NoticedIsPublished'
      BY <2>5, Replacing DEF NoticedIsPublished
    <3> QED BY <3>1, <3>2
  <2>6. ASSUME NEW p \in Detections, ReadFlags(p) PROVE ReadPublished' /\ NoticedIsPublished'
    <3>1. /\ \A q \in Tasks : q # p => task'[q] = task[q]
          /\ task'[p].todo = Subscribers \X Announced(task[p].rules) /\ UNCHANGED <<finding, notice>>
      BY <2>6, Noting DEF Rest
    <3>2. \A n \in task'[p].todo : finding'[n[2]] = "published"
      BY <3>1 DEF Announced
    <3>3. ReadPublished'
      BY <3>1, <3>2 DEF ReadPublished
    <3> QED BY <2>g, <3>1, <3>3
  <2>7. ASSUME NEW p \in Detections, WriteNotices(p) PROVE ReadPublished' /\ NoticedIsPublished'
    <3>1. /\ \A q \in Tasks : q # p => task'[q] = task[q]
          /\ task'[p].stage = "listing" /\ task[p].stage = "noting" /\ p \in Tasks
          /\ UNCHANGED finding
          /\ \A n \in Notices : notice'[n] # "none" =>
               notice[n] # "none" \/ (n \in task[p].todo /\ Insertable(n))
      BY <2>7 DEF WriteNotices, reviewVars, AlertsTypeOK, Idle, Tasks
    <3>2. NoticedIsPublished'
      BY <3>1 DEF NoticedIsPublished, ReadPublished, Insertable, Standing
    <3> QED BY <2>f, <3>1, <3>2
  <2>8. ASSUME NEW p \in Detections, Detect(p) \/ NextAlert(p) PROVE ReadPublished' /\ NoticedIsPublished'
    <3>1. /\ \A q \in Tasks : q # p => task'[q] = task[q]
          /\ task'[p].stage # "noting" /\ UNCHANGED <<finding, notice>>
      BY <2>8, Detecting, Alerting DEF Rest
    <3> QED BY <2>f, <2>g, <3>1
  <2>9. ASSUME NEW p \in Digests, StartDigest(p) \/ NextDigest(p) PROVE ReadPublished' /\ NoticedIsPublished'
    <3>1. /\ \A q \in Tasks : q # p => task'[q] = task[q]
          /\ task'[p].stage # "noting" /\ UNCHANGED <<finding, notice>>
      BY <2>9, Digesting, Collecting DEF Rest
    <3> QED BY <2>f, <2>g, <3>1
  <2>10. ASSUME NEW p \in Tasks, Clear(p) \/ Post(p) \/ PostFails(p) \/ MarkSent(p) \/ EndTask(p) \/ LoseTask(p)
         PROVE  ReadPublished' /\ NoticedIsPublished'
    <3>1. /\ \A q \in Tasks : q # p => task'[q] = task[q]
          /\ task'[p].stage # "noting" /\ UNCHANGED finding
      BY <2>10, Finishing, Staging, Idling
      DEF Clear, Post, PostFails, MarkSent, EndTask, LoseTask, Rest, reviewVars
    <3>2. \A n \in Notices : notice'[n] # "none" => notice[n] # "none"
      BY <2>10 DEF Clear, Post, PostFails, MarkSent, EndTask, LoseTask, SetStatus, AlertsTypeOK
    <3> QED BY <2>f, <2>g, <3>1, <3>2
  <2>11. CASE UNCHANGED alertVars
    BY <2>11, <2>f, <2>g DEF alertVars
  <2> QED BY <2>1, <2>2, <2>3, <2>5, <2>6, <2>7, <2>8, <2>9, <2>10, <2>11 DEF AlertsNext
<1> QED BY <1>1, <1>2, AlertsTypeCorrect, PTL DEF AlertsSpec

-----------------------------------------------------------------------------
(* ToldOnce.                                                               *)

\* The notice is of a grave finding, and so is an alert and in no digest.
Gravely(n) == n[2][1] \in Grave
\* What a task has yet to mail, or is mailing.
HeldBy(p) == task[p].list \cup task[p].mail

\* Who mails what: digests mail what was pending, detections what is grave.
\* What a detection holds has a row, until its finding is gone, and no other
\* detection holds it.
MailShape ==
  /\ \A n \in Notices : notice[n] = "pending" => ~Gravely(n)
  /\ \A p \in Tasks : task[p].mail # {} => task[p].stage \in {"mailing", "cleared", "taken"}
  /\ \A p \in Digests : \A n \in task[p].mail : ~Gravely(n)
  /\ \A p \in Detections :
       /\ task[p].list \cap task[p].mail = {}
       /\ \A n \in HeldBy(p) : Gravely(n) /\ (notice[n] # "none" \/ finding[n[2]] = "gone")
  /\ \A p, q \in Detections : p # q => HeldBy(p) \cap HeldBy(q) = {}

\* It is so in every behaviour.
LEMMA MailsKeepShape == AlertsSpec => []MailShape
<1> USE FlagShapes DEF Tasks
<1>1. AlertsInit => MailShape
  BY DEF AlertsInit, MailShape, HeldBy
<1>2. AlertsTypeOK /\ AlertsTypeOK' /\ MailShape /\ [AlertsNext]_alertVars => MailShape'
  <2> SUFFICES ASSUME AlertsTypeOK, AlertsTypeOK', MailShape, [AlertsNext]_alertVars PROVE MailShape'
    OBVIOUS
  <2>0. /\ \A p \in Tasks : HeldBy(p) \subseteq Notices
        /\ \A i \in Flags : finding[i] = "gone" => finding'[i] = "gone"
    BY FindingSteps DEF AlertsTypeOK, Task, HeldBy
  \* A step in which p takes up nothing and no row is made or lost.
  <2>f. ASSUME NEW p \in Tasks, Rest(p),
               task'[p].mail \in {{}, task[p].mail}, task'[p].list \in {{}, task[p].list},
               task'[p].mail # {} => task'[p].stage \in {"mailing", "cleared", "taken"},
               \A n \in Notices : (notice'[n] # "none" <=> notice[n] # "none")
                                  /\ (notice'[n] = "pending" => notice[n] = "pending")
        PROVE  MailShape'
    <3>1. \A q \in Tasks : HeldBy(q)' \subseteq HeldBy(q)
      BY <2>f DEF HeldBy, Rest
    <3>2. \A q \in Digests : task'[q].mail \subseteq task[q].mail
      BY <2>f DEF Rest
    <3>3. \A q \in Detections : task'[q].mail \subseteq task[q].mail /\ task'[q].list \subseteq task[q].list
      BY <2>f DEF Rest
    <3>4. \A q \in Tasks : task'[q].mail # {} => task'[q].stage \in {"mailing", "cleared", "taken"}
      BY <2>f DEF Rest, MailShape
    <3>5. \A q \in Detections : \A n \in HeldBy(q)' :
            Gravely(n) /\ (notice'[n] # "none" \/ finding'[n[2]] = "gone")
      BY <2>0, <2>f, <3>1 DEF MailShape
    <3> QED BY <2>f, <3>1, <3>2, <3>3, <3>4, <3>5 DEF MailShape
  <2>1. CASE UNCHANGED <<task, notice>>
    BY <2>0, <2>1 DEF MailShape, HeldBy
  <2>2. ASSUME NEW p \in Detections, Detect(p) \/ ReadFlags(p) PROVE MailShape'
    BY <2>2, <2>f, Detecting, Noting
  <2>3. ASSUME NEW p \in Detections, ReplaceFlags(p) PROVE MailShape'
    <3>1. /\ \A q \in Tasks : q # p => task'[q] = task[q]
          /\ task'[p].list = {} /\ task'[p].mail = {}
          /\ \A n \in Notices : notice'[n] = IF n[2] \in task[p].ids THEN "none" ELSE notice[n]
          /\ \A i \in Flags : finding[i] # "none" => finding'[i] = IF i \in task[p].ids THEN "gone" ELSE finding[i]
      BY <2>3, Replacing
    <3>2. \A q \in Tasks : HeldBy(q)' \subseteq HeldBy(q)
      BY <3>1 DEF HeldBy
    <3>3. \A n \in Notices : notice[n] # "none" => finding[n[2]] # "none"
      BY DEF AlertsTypeOK
    <3>4. \A q \in Detections : \A n \in HeldBy(q)' :
            Gravely(n) /\ (notice'[n] # "none" \/ finding'[n[2]] = "gone")
      BY <2>0, <3>1, <3>2, <3>3 DEF MailShape
    <3>5. \A n \in Notices : notice'[n] = "pending" => notice[n] = "pending"
      BY <3>1
    <3>6. \A q \in Tasks : task'[q].mail # {} => task'[q].stage \in {"mailing", "cleared", "taken"}
      BY <3>1 DEF MailShape
    <3> QED BY <3>1, <3>2, <3>4, <3>5, <3>6 DEF MailShape
  <2>4. ASSUME NEW p \in Detections, WriteNotices(p) PROVE MailShape'
    <3>1. /\ Rest(p) /\ task'[p].mail = {} /\ task'[p].list \subseteq Notices
          /\ \A n \in Notices :
              \/ notice'[n] = notice[n] /\ n \notin task'[p].list
              \/ /\ Insertable(n) /\ notice'[n] = StatusOf(n, task[p].ids)
                 /\ n \in task'[p].list <=> notice'[n] = "queued"
          /\ UNCHANGED finding
      BY <2>4, Writing
    <3>2. ASSUME NEW n \in task'[p].list
          PROVE  n \in Notices /\ Gravely(n) /\ notice'[n] = "queued" /\ \A q \in Detections : n \notin HeldBy(q)
      <4>1. n \in Notices /\ Insertable(n) /\ notice'[n] = "queued" /\ notice'[n] = StatusOf(n, task[p].ids)
        BY <3>1
      <4>2. Gravely(n)
        BY <4>1 DEF StatusOf, Gravely
      <4>3. notice[n] = "none" /\ finding[n[2]] # "gone"
        BY <4>1 DEF Insertable, Standing
      <4> QED BY <4>1, <4>2, <4>3 DEF MailShape
    <3>3. \A n \in Notices : notice'[n] = "pending" => ~Gravely(n)
      BY <3>1 DEF StatusOf, Gravely, MailShape
    <3>4. \A n \in Notices : notice[n] # "none" => notice'[n] # "none"
      BY <3>1 DEF StatusOf
    <3>5. HeldBy(p)' = task'[p].list /\ \A q \in Tasks : q # p => HeldBy(q)' = HeldBy(q)
      BY <3>1 DEF HeldBy, Rest
    <3>6. \A q \in Detections : \A n \in HeldBy(q)' :
            Gravely(n) /\ (notice'[n] # "none" \/ finding'[n[2]] = "gone")
      BY <2>0, <3>1, <3>2, <3>4, <3>5 DEF MailShape
    <3>7. \A u, v \in Detections : u # v => HeldBy(u)' \cap HeldBy(v)' = {}
      BY <3>2, <3>5 DEF MailShape
    <3>8. \A q \in Tasks : task'[q].mail # {} => task'[q].stage \in {"mailing", "cleared", "taken"}
      BY <3>1 DEF MailShape, Rest
    <3>9. /\ \A q \in Digests : \A n \in task'[q].mail : ~Gravely(n)
          /\ \A q \in Detections : task'[q].list \cap task'[q].mail = {}
      BY <3>1 DEF MailShape, Rest
    <3> QED BY <3>3, <3>6, <3>7, <3>8, <3>9 DEF MailShape
  <2>5. ASSUME NEW p \in Detections, NextAlert(p) PROVE MailShape'
    <3>1. PICK n \in task[p].list : task'[p].mail = {n} /\ task'[p].list = task[p].list \ {n}
      BY <2>5, Alerting
    <3>2. Rest(p) /\ task'[p].stage = "mailing" /\ UNCHANGED <<finding, notice>>
      BY <2>5, Alerting
    <3>3. \A q \in Tasks : HeldBy(q)' \subseteq HeldBy(q)
      BY <3>1, <3>2 DEF HeldBy, Rest
    <3>4. /\ \A q \in Digests : \A m \in task'[q].mail : ~Gravely(m)
          /\ \A q \in Detections : task'[q].list \cap task'[q].mail = {}
          /\ \A q \in Tasks : task'[q].mail # {} => task'[q].stage \in {"mailing", "cleared", "taken"}
      BY <3>1, <3>2, AlertsConstants DEF MailShape, Rest
    <3>5. \A q \in Detections : \A m \in HeldBy(q)' :
            Gravely(m) /\ (notice'[m] # "none" \/ finding'[m[2]] = "gone")
      BY <3>2, <3>3 DEF MailShape
    <3> QED BY <3>2, <3>3, <3>4, <3>5 DEF MailShape
  <2>6. ASSUME NEW p \in Digests, StartDigest(p) \/ NextDigest(p) PROVE MailShape'
    <3>1. /\ Rest(p) /\ task'[p].mail \subseteq {n \in Notices : Due(n)}
          /\ task'[p].mail # {} => task'[p].stage = "mailing"
          /\ UNCHANGED <<finding, notice>>
      BY <2>6, Digesting, Collecting
    <3>2. \A q \in Detections : task'[q] = task[q]
      BY <3>1, AlertsConstants DEF Rest
    <3>3. \A q \in Digests : \A n \in task'[q].mail : ~Gravely(n)
      BY <3>1 DEF Rest, MailShape, Due
    <3>4. \A q \in Tasks : task'[q].mail # {} => task'[q].stage \in {"mailing", "cleared", "taken"}
      BY <3>1 DEF MailShape, Rest
    <3> QED BY <3>1, <3>2, <3>3, <3>4 DEF MailShape, HeldBy
  <2>7. ASSUME NEW p \in Tasks, Clear(p) \/ Post(p) \/ PostFails(p) \/ MarkSent(p) \/ EndTask(p) \/ LoseTask(p)
        PROVE  MailShape'
    <3>1. /\ Rest(p)
          /\ task'[p].mail \in {{}, task[p].mail} /\ task'[p].list \in {{}, task[p].list}
          /\ task'[p].mail # {} => task'[p].stage \in {"mailing", "cleared", "taken"}
      <4>1. CASE task' = Finished(p)
        BY <4>1, Finishing
      <4>2. CASE \E s \in {"cleared", "taken"} : task' = [task EXCEPT ![p].stage = s]
        BY <4>2, Staging
      <4>3. CASE task' = [task EXCEPT ![p] = Idle]
        BY <4>3, Idling
      <4> QED BY <2>7, <4>1, <4>2, <4>3 DEF Clear, Post, PostFails, MarkSent, EndTask, LoseTask
    <3>2. \A n \in Notices : (notice'[n] # "none" <=> notice[n] # "none")
                             /\ (notice'[n] = "pending" => notice[n] = "pending")
      BY <2>7 DEF Clear, Post, PostFails, MarkSent, EndTask, LoseTask, SetStatus, AlertsTypeOK
    <3> QED BY <2>f, <3>1, <3>2
  <2> QED BY <2>1, <2>2, <2>3, <2>4, <2>5, <2>6, <2>7
          DEF AlertsNext, alertVars, SetThreshold, ApproveFlag, TurnOff, StopMail, reviewVars
<1> QED BY <1>1, <1>2, AlertsTypeCorrect, PTL DEF AlertsSpec

\* A grave finding is told once: who holds the row has not told it yet.
Once(n) ==
  Gravely(n) =>
    /\ alerted[n] <= 1
    /\ notice[n] = "none" => alerted[n] = 0
    /\ \A p \in Detections :
         n \in task[p].list \/ (n \in task[p].mail /\ task[p].stage # "taken") => alerted[n] = 0

\* The digests with n in a mail that is still to be taken.
Unposted(n) == {p \in Digests : n \in task[p].mail /\ task[p].stage \in {"mailing", "cleared"}}
\* Those with n in a mail that was taken and is still to be marked.
Posted(n) == {p \in Digests : n \in task[p].mail /\ task[p].stage = "taken"}

\* Every telling of a row that is still pending was lost or is still to be
\* marked; once it is not pending, only the digests that hold it can tell it.
Often(n) ==
  ~Gravely(n) =>
    /\ notice[n] = "none" => alerted[n] = 0
    /\ notice[n] = "pending" => alerted[n] <= losses + Cardinality(Posted(n))
    /\ notice[n] \notin {"none", "pending"} =>
         alerted[n] + Cardinality(Unposted(n)) <= losses + Cardinality(Digests)

\* What the proofs count digests with.
LEMMA Counting ==
  ASSUME NEW S \in SUBSET Digests, NEW T \in SUBSET Digests
  PROVE  /\ Cardinality(S) \in Nat /\ Cardinality(T) \in Nat /\ Cardinality(Digests) \in Nat \ {0}
         /\ Cardinality(S) <= Cardinality(Digests)
         /\ S \subseteq T => Cardinality(S) <= Cardinality(T)
         /\ S \cap T = {} => Cardinality(S) + Cardinality(T) <= Cardinality(Digests)
         /\ \A p \in S : T = S \ {p} => Cardinality(T) = Cardinality(S) - 1
         /\ \A p \in Digests \ S : T = S \cup {p} => Cardinality(T) = Cardinality(S) + 1
         /\ \A p : S \ {p} \subseteq T => Cardinality(S) <= Cardinality(T) + 1
<1> USE AlertsConstants
<1>1. IsFiniteSet(S) /\ IsFiniteSet(T)
  BY FS_Subset
<1>2. /\ Cardinality(S) \in Nat /\ Cardinality(T) \in Nat /\ Cardinality(Digests) \in Nat
  BY <1>1, FS_CardinalityType
<1>3. Cardinality(Digests) # 0
  BY FS_EmptySet
<1>4. Cardinality(S) <= Cardinality(Digests)
  BY FS_Subset
<1>5. S \subseteq T => Cardinality(S) <= Cardinality(T)
  BY <1>1, FS_Subset
<1>6. ASSUME S \cap T = {} PROVE Cardinality(S) + Cardinality(T) <= Cardinality(Digests)
  <2>1. Cardinality(S \cup T) = Cardinality(S) + Cardinality(T) - Cardinality(S \cap T)
    BY <1>1, FS_Union
  <2>2. Cardinality(S \cap T) = 0
    BY <1>6, FS_EmptySet
  <2>3. S \cup T \in SUBSET Digests
    OBVIOUS
  <2>4. Cardinality(S \cup T) <= Cardinality(Digests)
    BY <2>3, FS_Subset
  <2> QED BY <1>2, <2>1, <2>2, <2>4
<1>7. \A p \in S : Cardinality(S \ {p}) = Cardinality(S) - 1
  BY <1>1, FS_RemoveElement
<1>8. \A p \in Digests \ S : Cardinality(S \cup {p}) = Cardinality(S) + 1
  BY <1>1, FS_AddElement
<1>9. ASSUME NEW p, S \ {p} \subseteq T PROVE Cardinality(S) <= Cardinality(T) + 1
  <2>1. Cardinality(S \ {p}) <= Cardinality(T)
    BY <1>1, <1>9, FS_Subset
  <2>2. CASE p \in S
    BY <1>2, <1>7, <2>1, <2>2
  <2>3. CASE p \notin S
    <3>1. S \ {p} = S
      BY <2>3
    <3>2. Cardinality(S) <= Cardinality(T)
      BY <2>1, <3>1, Zenon
    <3> QED BY <1>2, <3>2
  <2> QED BY <2>2, <2>3
<1> QED BY <1>2, <1>3, <1>4, <1>5, <1>6, <1>7, <1>8, <1>9

\* Often follows what is asked.
LEMMA OftenBounds ==
  ASSUME AlertsTypeOK, NEW n \in Notices, Often(n), ~Gravely(n)
  PROVE  alerted[n] <= Cardinality(Digests) + losses
<1>1. /\ Posted(n) \in SUBSET Digests /\ Unposted(n) \in SUBSET Digests
      /\ alerted[n] \in Nat /\ losses \in Nat
  BY AlertsConstants DEF Posted, Unposted, AlertsTypeOK
<1> HIDE DEF Posted, Unposted
<1>2. /\ Cardinality(Posted(n)) \in Nat /\ Cardinality(Posted(n)) <= Cardinality(Digests)
      /\ Cardinality(Unposted(n)) \in Nat /\ Cardinality(Digests) \in Nat
  BY <1>1, Counting
<1> QED BY <1>1, <1>2 DEF Often

\* A step in which no digest changes its mind about n; one that is lost; one
\* that closes the row; one that tells.
LEMMA OftenKept ==
  ASSUME AlertsTypeOK, AlertsTypeOK', NEW n \in Notices, Often(n),
         notice'[n] = notice[n], alerted'[n] = alerted[n],
         \/ losses' = losses /\ Posted(n) \subseteq Posted(n)'
         \/ losses' = losses + 1 /\ \E p \in Digests : Posted(n) \ {p} \subseteq Posted(n)',
         notice[n] # "pending" => Unposted(n)' \subseteq Unposted(n)
  PROVE  Often(n)'
<1>1. /\ Posted(n) \in SUBSET Digests /\ Unposted(n) \in SUBSET Digests
      /\ Posted(n)' \in SUBSET Digests /\ Unposted(n)' \in SUBSET Digests
      /\ alerted[n] \in Nat /\ losses \in Nat
  BY AlertsConstants DEF Posted, Unposted, AlertsTypeOK
<1> HIDE DEF Posted, Unposted
<1>2. PICK P, U, Q, V : P = Posted(n) /\ U = Unposted(n) /\ Q = Posted(n)' /\ V = Unposted(n)'
  OBVIOUS
<1>3. /\ Cardinality(P) \in Nat /\ Cardinality(Q) \in Nat /\ Cardinality(U) \in Nat /\ Cardinality(V) \in Nat
      /\ Cardinality(Digests) \in Nat
  BY <1>1, <1>2, Counting
<1>4. notice[n] # "pending" => Cardinality(V) <= Cardinality(U)
  BY <1>1, <1>2, Counting
<1>5. losses + Cardinality(P) <= losses' + Cardinality(Q)
  <2>1. CASE losses' = losses /\ P \subseteq Q
    BY <1>1, <1>2, <1>3, <2>1, Counting
  <2>2. CASE losses' = losses + 1 /\ \E p \in Digests : P \ {p} \subseteq Q
    <3>1. Cardinality(P) <= Cardinality(Q) + 1
      BY <1>1, <1>2, <2>2, Counting
    <3> QED BY <1>1, <1>3, <2>2, <3>1
  <2> QED BY <1>2, <2>1, <2>2
<1>6. losses' \in Nat /\ losses <= losses'
  BY <1>1
<1> QED BY <1>1, <1>2, <1>3, <1>4, <1>5, <1>6 DEF Often

\* A notice that is closed, its mark lost or not, is told no oftener.
LEMMA OftenClosed ==
  ASSUME AlertsTypeOK, AlertsTypeOK', NEW n \in Notices, Often(n),
         notice[n] # "none", notice'[n] \notin {"none", "pending"}, alerted'[n] = alerted[n],
         losses' \in {losses, losses + 1}, Unposted(n)' \subseteq Unposted(n)
  PROVE  Often(n)'
<1>1. /\ Posted(n) \in SUBSET Digests /\ Unposted(n) \in SUBSET Digests /\ Unposted(n)' \in SUBSET Digests
      /\ Posted(n) \cap Unposted(n) = {}
      /\ alerted[n] \in Nat /\ losses \in Nat
  BY AlertsConstants DEF Posted, Unposted, AlertsTypeOK
<1> HIDE DEF Posted, Unposted
<1>2. PICK P, U, V : P = Posted(n) /\ U = Unposted(n) /\ V = Unposted(n)'
  OBVIOUS
<1>3. /\ Cardinality(P) \in Nat /\ Cardinality(U) \in Nat /\ Cardinality(V) \in Nat
      /\ Cardinality(Digests) \in Nat
      /\ Cardinality(V) <= Cardinality(U)
      /\ Cardinality(P) + Cardinality(U) <= Cardinality(Digests)
  BY <1>1, <1>2, Counting
<1> QED BY <1>1, <1>2, <1>3 DEF Often

\* A digest that mails the notice moves from those to mail it to those that
\* did.
LEMMA OftenTold ==
  ASSUME AlertsTypeOK, AlertsTypeOK', NEW n \in Notices, Often(n),
         notice[n] # "none", notice'[n] = notice[n], alerted'[n] = alerted[n] + 1, losses' = losses,
         NEW p \in Unposted(n), Unposted(n)' = Unposted(n) \ {p}, Posted(n)' = Posted(n) \cup {p}
  PROVE  Often(n)'
<1>1. /\ Posted(n) \in SUBSET Digests /\ Unposted(n) \in SUBSET Digests
      /\ Posted(n)' \in SUBSET Digests /\ Unposted(n)' \in SUBSET Digests
      /\ p \in Digests \ Posted(n)
      /\ alerted[n] \in Nat /\ losses \in Nat
  BY AlertsConstants DEF Posted, Unposted, AlertsTypeOK
<1> HIDE DEF Posted, Unposted
<1>2. PICK P, U, Q, V : P = Posted(n) /\ U = Unposted(n) /\ Q = Posted(n)' /\ V = Unposted(n)'
  OBVIOUS
<1>3. /\ Cardinality(P) \in Nat /\ Cardinality(Q) \in Nat /\ Cardinality(U) \in Nat /\ Cardinality(V) \in Nat
      /\ Cardinality(Digests) \in Nat
  BY <1>1, <1>2, Counting
<1>4. Cardinality(Q) = Cardinality(P) + 1
  BY <1>1, <1>2, Counting
<1>5. Cardinality(V) = Cardinality(U) - 1
  BY <1>1, <1>2, Counting
<1> QED BY <1>1, <1>2, <1>3, <1>4, <1>5 DEF Often

\* A subscriber is told of a finding once for each digest that overlaps, and
\* once more for each mail whose mark was lost; alerts and digests do not both
\* tell it (notification.ts: a queued notice is an alert, a pending one goes
\* into a digest).
THEOREM EachIsToldOnce == AlertsSpec => []ToldOnce
<1> DEFINE Counted == \A n \in Notices : Once(n) /\ Often(n)
<1> USE FlagShapes DEF Tasks
<1>1. AlertsInit => Counted
  BY DEF AlertsInit, Once, Often
<1>2. AlertsTypeOK /\ AlertsTypeOK' /\ MailShape /\ MailShape' /\ Counted /\ [AlertsNext]_alertVars => Counted'
  <2> SUFFICES ASSUME AlertsTypeOK, AlertsTypeOK', MailShape, MailShape', Counted, [AlertsNext]_alertVars,
                      NEW n \in Notices
               PROVE  Once(n)' /\ Often(n)'
    OBVIOUS
  <2>0. /\ Once(n) /\ Often(n) /\ n[2] \in Flags
        /\ alerted[n] \in Nat /\ losses \in Nat /\ Detections \cap Digests = {}
    BY AlertsConstants DEF AlertsTypeOK
  \* A step of a detection, or of nobody, that tells nothing.
  <2>f. ASSUME NEW p \in Detections, Rest(p), notice'[n] = notice[n], alerted'[n] = alerted[n],
               losses' = losses \/ losses' = losses + 1
        PROVE  Often(n)'
    <3>1. \A q \in Digests : task'[q] = task[q]
      BY <2>0, <2>f DEF Rest
    <3>2. Posted(n)' = Posted(n) /\ Unposted(n)' = Unposted(n)
      BY <3>1 DEF Posted, Unposted
    <3>3. \E q \in Digests : Posted(n) \ {q} \subseteq Posted(n)'
      BY <3>2, AlertsConstants
    <3> QED BY <2>0, <2>f, <3>2, <3>3, OftenKept
  \* A step that tells nobody of n, makes no row for it, and in which nobody
  \* takes it up who did not have it.
  <2>g. ASSUME notice'[n] = "none" <=> notice[n] = "none", alerted'[n] = alerted[n],
               \A q \in Detections :
                 n \in task'[q].list \/ (n \in task'[q].mail /\ task'[q].stage # "taken")
                 => n \in task[q].list \/ (n \in task[q].mail /\ task[q].stage # "taken")
        PROVE  Once(n)'
    BY <2>0, <2>g DEF Once, Gravely
  \* A row that was not there, is not there.
  <2>n. ASSUME notice[n] = "none", notice'[n] = "none", alerted'[n] = alerted[n] PROVE Often(n)'
    BY <2>0, <2>n DEF Often, Gravely
  \* What was deleted was not told.
  <2>d. ASSUME alerted'[n] = 0, notice'[n] = "none" PROVE Once(n)' /\ Often(n)'
    BY <2>d DEF Once, Often
  <2>1. CASE UNCHANGED <<task, notice, alerted, losses>>
    BY <2>0, <2>1 DEF Once, Often, Posted, Unposted, Gravely
  <2>2. ASSUME NEW p \in Detections, Detect(p) \/ ReadFlags(p) PROVE Once(n)' /\ Often(n)'
    <3>1. /\ Rest(p) /\ task'[p].list = {} /\ task'[p].mail = {} /\ UNCHANGED <<notice, alerted, losses>>
      BY <2>2, Detecting, Noting
    <3> QED BY <2>f, <2>g, <3>1 DEF Rest
  <2>3. ASSUME NEW p \in Detections, ReplaceFlags(p) PROVE Once(n)' /\ Often(n)'
    <3>1. /\ Rest(p) /\ task'[p].list = {} /\ task'[p].mail = {} /\ losses' = losses
          /\ notice'[n] = IF n[2] \in task[p].ids THEN "none" ELSE notice[n]
          /\ alerted'[n] = IF n[2] \in task[p].ids THEN 0 ELSE alerted[n]
      BY <2>3, Replacing DEF Rest
    <3> QED BY <2>d, <2>f, <2>g, <3>1 DEF Rest
  <2>4. ASSUME NEW p \in Detections, WriteNotices(p) PROVE Once(n)' /\ Often(n)'
    <3>1. /\ Rest(p) /\ task'[p].mail = {} /\ UNCHANGED <<alerted, losses>>
          /\ \/ notice'[n] = notice[n] /\ n \notin task'[p].list
             \/ Insertable(n) /\ notice'[n] = StatusOf(n, task[p].ids)
      BY <2>4, Writing
    <3>2. CASE notice'[n] = notice[n] /\ n \notin task'[p].list
      BY <2>f, <2>g, <3>1, <3>2 DEF Rest
    <3>3. CASE Insertable(n) /\ notice'[n] = StatusOf(n, task[p].ids)
      <4>1. alerted'[n] = 0 /\ notice'[n] \in {"pending", "queued", "skipped"}
        BY <2>0, <3>1, <3>3 DEF Insertable, StatusOf, Once, Often
      <4>2. Once(n)'
        BY <4>1 DEF Once
      <4>3. Often(n)'
        <5>1. /\ Posted(n)' \in SUBSET Digests /\ Unposted(n)' \in SUBSET Digests
          BY DEF Posted, Unposted
        <5> HIDE DEF Posted, Unposted
        <5>2. /\ Cardinality(Posted(n)') \in Nat /\ Cardinality(Unposted(n)') \in Nat
              /\ Cardinality(Unposted(n)') <= Cardinality(Digests) /\ Cardinality(Digests) \in Nat
          BY <5>1, Counting
        <5> QED BY <2>0, <3>1, <4>1, <5>2 DEF Often
      <4> QED BY <4>2, <4>3
    <3> QED BY <3>1, <3>2, <3>3
  <2>5. ASSUME NEW p \in Detections, NextAlert(p) PROVE Once(n)' /\ Often(n)'
    <3>1. /\ Rest(p) /\ UNCHANGED <<notice, alerted, losses>>
          /\ n \in task'[p].list \cup task'[p].mail => n \in task[p].list
      BY <2>5, Alerting
    <3> QED BY <2>f, <2>g, <3>1 DEF Rest
  <2>6. ASSUME NEW p \in Digests, StartDigest(p) \/ NextDigest(p) PROVE Once(n)' /\ Often(n)'
    <3>1. /\ Rest(p) /\ task'[p].mail \subseteq {m \in Notices : Due(m)} /\ UNCHANGED <<notice, alerted, losses>>
          /\ task[p].stage \in {"idle", "listing"}
      BY <2>6, Digesting, Collecting
    <3>2. Posted(n) \subseteq Posted(n)'
      BY <3>1 DEF Posted, Rest
    <3>3. notice[n] # "pending" => Unposted(n)' \subseteq Unposted(n)
      BY <3>1 DEF Unposted, Rest, Due
    <3> QED BY <2>0, <2>g, <3>1, <3>2, <3>3, OftenKept DEF Rest
  \* The rows of a mail.
  <2>s. ASSUME NEW p \in Tasks, NEW s \in {"sent", "skipped", "failed"}, SetStatus(p, s)
        PROVE  notice'[n] = IF n \in task[p].mail /\ notice[n] # "none" THEN s ELSE notice[n]
    BY <2>s DEF SetStatus
  <2>7. ASSUME NEW p \in Detections, NEW s \in {"sent", "skipped", "failed"},
               task' \in {Finished(p), [task EXCEPT ![p] = Idle], [task EXCEPT ![p].stage = "cleared"]},
               task' = [task EXCEPT ![p].stage = "cleared"] => task[p].stage = "mailing",
               SetStatus(p, s) \/ UNCHANGED notice, UNCHANGED alerted, losses' \in {losses, losses + 1}
        PROVE  Once(n)' /\ Often(n)'
    <3>1. /\ Rest(p) /\ task'[p].list \subseteq task[p].list
          /\ task'[p].mail # {} => task'[p].mail = task[p].mail /\ task[p].stage # "taken"
      <4>1. CASE task' = Finished(p)
        BY <4>1, Finishing
      <4>2. CASE task' = [task EXCEPT ![p].stage = "cleared"]
        BY <2>7, <4>2, Staging
      <4>3. CASE task' = [task EXCEPT ![p] = Idle]
        BY <4>3, Idling
      <4> QED BY <2>7, <4>1, <4>2, <4>3
    <3>2. /\ notice'[n] = "none" <=> notice[n] = "none"
          /\ n \notin task[p].mail => notice'[n] = notice[n]
          /\ alerted'[n] = alerted[n]
      BY <2>7, <2>s
    <3>3. Once(n)'
      BY <2>g, <3>1, <3>2 DEF Rest
    <3>4. CASE n \in task[p].mail
      <4>1. Gravely(n)
        BY <3>4 DEF MailShape, HeldBy
      <4> QED BY <3>3, <4>1 DEF Often, Gravely
    <3>5. CASE n \notin task[p].mail
      BY <2>7, <2>f, <3>1, <3>2, <3>3, <3>5
    <3> QED BY <3>4, <3>5
  <2>8. ASSUME NEW p \in Detections, Post(p) PROVE Once(n)' /\ Often(n)'
    <3>1. /\ Rest(p) /\ task[p].stage = "cleared" /\ task'[p].stage = "taken"
          /\ task'[p].list = task[p].list /\ task'[p].mail = task[p].mail
          /\ UNCHANGED <<notice, losses>>
          /\ alerted'[n] = alerted[n] + (IF n \in task[p].mail /\ notice[n] # "none" THEN 1 ELSE 0)
      BY <2>8, Staging DEF Post
    <3>2. CASE n \in task[p].mail
      <4>1. Gravely(n) /\ alerted[n] = 0 /\ n \notin task[p].list
        BY <2>0, <3>1, <3>2 DEF MailShape, HeldBy, Once
      <4>2. \A q \in Detections : q # p => n \notin task'[q].list \cup task'[q].mail
        BY <3>1, <3>2 DEF MailShape, HeldBy, Rest
      <4>3. Once(n)'
        BY <3>1, <4>1, <4>2 DEF Once, Gravely
      <4> QED BY <4>1, <4>3 DEF Often, Gravely
    <3>3. CASE n \notin task[p].mail
      <4>1. alerted'[n] = alerted[n] /\ notice'[n] = notice[n]
        BY <2>0, <3>1, <3>3
      <4> QED BY <2>f, <2>g, <3>1, <3>3, <4>1 DEF Rest
    <3> QED BY <3>2, <3>3
  \* The same for a digest: what it mails is not grave.
  <2>o. ASSUME NEW p \in Digests, Rest(p), n \in task[p].mail \/ (notice'[n] = notice[n] /\ alerted'[n] = alerted[n])
        PROVE  Once(n)'
    <3>1. CASE n \in task[p].mail
      BY <3>1 DEF MailShape, Once, Gravely
    <3>2. CASE notice'[n] = notice[n] /\ alerted'[n] = alerted[n]
      <4>1. \A q \in Detections : task'[q] = task[q]
        BY <2>0, <2>o DEF Rest
      <4> QED BY <2>g, <3>2, <4>1
    <3> QED BY <2>o, <3>1, <3>2
  <2>9. ASSUME NEW p \in Digests, NEW s \in {"sent", "skipped", "failed"},
               task' \in {Finished(p), [task EXCEPT ![p] = Idle], [task EXCEPT ![p].stage = "cleared"]},
               task' = [task EXCEPT ![p].stage = "cleared"] => task[p].stage = "mailing",
               SetStatus(p, s) \/ UNCHANGED notice, UNCHANGED alerted,
               \/ losses' = losses + 1
               \/ losses' = losses /\ (SetStatus(p, s) \/ task[p].stage # "taken")
        PROVE  Once(n)' /\ Often(n)'
    <3>1. /\ Rest(p)
          /\ task'[p].mail # {} => /\ task'[p].mail = task[p].mail
                                   /\ task[p].stage = "mailing" /\ task'[p].stage = "cleared"
      <4>1. CASE task' = Finished(p)
        BY <4>1, Finishing
      <4>2. CASE task' = [task EXCEPT ![p].stage = "cleared"]
        <5>1. /\ Rest(p) /\ task'[p].stage = "cleared" /\ task'[p].mail = task[p].mail
          BY <4>2, Staging
        <5>2. task[p].stage = "mailing"
          BY <2>9, <4>2
        <5> QED BY <5>1, <5>2
      <4>3. CASE task' = [task EXCEPT ![p] = Idle]
        BY <4>3, Idling
      <4> QED BY <2>9, <4>1, <4>2, <4>3
    <3>2. alerted'[n] = alerted[n] /\ (n \notin task[p].mail => notice'[n] = notice[n])
      BY <2>9, <2>s
    <3>3. Once(n)'
      BY <2>o, <3>1, <3>2
    <3>4. Unposted(n)' \subseteq Unposted(n)
      BY <3>1 DEF Unposted, Rest
    <3>5. Posted(n) \ {p} \subseteq Posted(n)'
      BY <3>1 DEF Posted, Rest
    <3>6. CASE notice[n] = "none"
      <4>1. notice'[n] = "none"
        BY <2>9, <2>s, <3>6
      <4> QED BY <2>n, <3>2, <3>3, <3>6, <4>1
    <3>7. CASE notice[n] # "none" /\ notice'[n] # notice[n]
      <4>1. notice'[n] = s
        BY <2>9, <2>s, <3>7
      <4> QED BY <2>0, <2>9, <3>2, <3>3, <3>4, <3>7, <4>1, OftenClosed
    <3>8. CASE notice'[n] = notice[n]
      <4>1. CASE losses' = losses + 1
        BY <2>0, <3>2, <3>3, <3>4, <3>5, <3>8, <4>1, OftenKept
      <4>2. CASE losses' = losses /\ p \notin Posted(n)
        <5>1. Posted(n) \subseteq Posted(n)'
          BY <3>5, <4>2
        <5> QED BY <2>0, <3>2, <3>3, <3>4, <3>8, <4>2, <5>1, OftenKept
      <4>3. CASE losses' = losses /\ p \in Posted(n) /\ SetStatus(p, s)
        <5>1. notice[n] = "none" \/ notice'[n] = s
          BY <2>s, <4>3 DEF Posted
        <5>2. CASE notice[n] = "none"
          BY <3>6, <5>2
        <5>3. CASE notice[n] # "none"
          BY <2>0, <3>2, <3>3, <3>4, <4>3, <5>1, <5>3, OftenClosed
        <5> QED BY <5>2, <5>3
      <4> QED BY <2>9, <4>1, <4>2, <4>3 DEF Posted
    <3> QED BY <3>6, <3>7, <3>8
  <2>10. ASSUME NEW p \in Digests, Post(p) PROVE Once(n)' /\ Often(n)'
    <3>1. /\ Rest(p) /\ task[p].stage = "cleared" /\ task'[p].stage = "taken"
          /\ task'[p].list = task[p].list /\ task'[p].mail = task[p].mail
          /\ UNCHANGED <<notice, losses>>
          /\ alerted'[n] = alerted[n] + (IF n \in task[p].mail /\ notice[n] # "none" THEN 1 ELSE 0)
      BY <2>10, Staging DEF Post
    <3>2. CASE n \in task[p].mail /\ notice[n] # "none"
      <4>1. p \in Unposted(n) /\ Unposted(n)' = Unposted(n) \ {p} /\ Posted(n)' = Posted(n) \cup {p}
        BY <3>1, <3>2 DEF Unposted, Posted, Rest
      <4>2. Often(n)'
        BY <2>0, <3>1, <3>2, <4>1, OftenTold
      <4> QED BY <2>o, <3>1, <3>2, <4>2
    <3>3. CASE ~(n \in task[p].mail /\ notice[n] # "none")
      <4>1. alerted'[n] = alerted[n] /\ notice'[n] = notice[n]
        BY <2>0, <3>1, <3>3
      <4>2. Posted(n) \subseteq Posted(n)' /\ Unposted(n)' \subseteq Unposted(n)
        BY <3>1 DEF Unposted, Posted, Rest
      <4>3. Often(n)'
        BY <2>0, <3>1, <4>1, <4>2, OftenKept
      <4> QED BY <2>o, <3>1, <4>1, <4>3
    <3> QED BY <3>2, <3>3
  <2>11. ASSUME NEW p \in Tasks, Clear(p) PROVE Once(n)' /\ Often(n)'
    <3>1. /\ task[p].stage = "mailing" /\ UNCHANGED <<alerted, losses>>
          /\ \/ task' = [task EXCEPT ![p].stage = "cleared"] /\ UNCHANGED notice
             \/ SetStatus(p, "skipped") /\ task' = Finished(p)
      BY <2>11 DEF Clear
    <3> QED BY <2>7, <2>9, <3>1
  <2>12. ASSUME NEW p \in Tasks, PostFails(p) PROVE Once(n)' /\ Often(n)'
    <3>1. /\ UNCHANGED alerted /\ losses' = losses + 1 /\ task' = Finished(p)
          /\ SetStatus(p, "failed") \/ UNCHANGED notice
          /\ task[p].stage # "mailing"
      BY <2>12 DEF PostFails
    <3>2. task' # [task EXCEPT ![p].stage = "cleared"]
      BY <3>1, Finishing, Staging
    <3> QED BY <2>7, <2>9, <3>1, <3>2
  <2>13. ASSUME NEW p \in Tasks, MarkSent(p) PROVE Once(n)' /\ Often(n)'
    <3>1. /\ UNCHANGED <<alerted, losses>> /\ task' = Finished(p) /\ SetStatus(p, "sent")
      BY <2>13 DEF MarkSent
    <3>2. task' # [task EXCEPT ![p].stage = "cleared"]
      BY <3>1, Finishing, Staging
    <3> QED BY <2>7, <2>9, <3>1, <3>2
  <2>14. ASSUME NEW p \in Tasks, EndTask(p) \/ LoseTask(p) PROVE Once(n)' /\ Often(n)'
    <3>1. /\ UNCHANGED <<alerted, notice>> /\ task' = [task EXCEPT ![p] = Idle]
          /\ losses' = losses + 1 \/ (losses' = losses /\ task[p].stage = "listing")
      BY <2>14 DEF EndTask, LoseTask
    <3>2. task' # [task EXCEPT ![p].stage = "cleared"]
      <4> SUFFICES ASSUME task' = [task EXCEPT ![p].stage = "cleared"] PROVE FALSE
        OBVIOUS
      <4>1. task'[p].stage = "cleared"
        BY Staging
      <4>2. task'[p].stage = "idle"
        BY <3>1, Idling
      <4> QED BY <4>1, <4>2
    <3> QED BY <2>7, <2>9, <3>1, <3>2
  <2> QED BY <2>1, <2>2, <2>3, <2>4, <2>5, <2>6, <2>8, <2>10, <2>11, <2>12, <2>13, <2>14
          DEF AlertsNext, alertVars, SetThreshold, ApproveFlag, TurnOff, StopMail, reviewVars
<1>3. AlertsTypeOK /\ Counted => ToldOnce
  <2> SUFFICES ASSUME AlertsTypeOK, Counted, NEW n \in Notices PROVE alerted[n] <= Cardinality(Digests) + losses
    BY DEF ToldOnce
  <2>1. CASE Gravely(n)
    <3>1. alerted[n] \in Nat /\ alerted[n] <= 1 /\ losses \in Nat
      BY <2>1, AlertsConstants DEF AlertsTypeOK, Once
    <3>2. Cardinality(Digests) \in Nat \ {0}
      BY Counting
    <3> QED BY <3>1, <3>2
  <2>2. CASE ~Gravely(n)
    BY <2>2, OftenBounds
  <2> QED BY <2>1, <2>2
<1> QED BY <1>1, <1>2, <1>3, AlertsTypeCorrect, MailsKeepShape, PTL DEF AlertsSpec

-----------------------------------------------------------------------------
\* A handler runs a job of its own, which the queue holds as running.
OwnJobs ==
  /\ \A w \in Workers : ~At(w, "idle") =>
       work[w].job \in 1..Len(jobs) /\ jobs[work[w].job].status = "running"
  /\ \A w \in Workers : At(w, "idle") => work[w] = Unoccupied
  /\ \A u, w \in Workers : ~At(u, "idle") /\ ~At(w, "idle") /\ work[u].job = work[w].job => u = w

\* Every request counts as a job to come, and a job that is due or running has
\* an attempt left; who asks the model has a claim to ask about.
Bounded ==
  /\ Len(jobs) + asks["unread"] + asks["extract"] + asks["govern"] <= MaxJobs
  /\ \A j \in 1..Len(jobs) : jobs[j].status \in {"pending", "running"} => jobs[j].attempts < MaxAttempts
  /\ \A w \in Workers : At(w, "asking") => work[w].todo # {}

\* What every step keeps.
ExtractionSound == ExtractionTypeOK /\ OwnJobs /\ Bounded

\* Replies, and the worker that is unoccupied.
LEMMA ExtractionShapes ==
  /\ NoReply \in Reply
  /\ Unoccupied \in Work /\ Unoccupied.pc = "idle" /\ Unoccupied.job = 0
  /\ \A p \in Replies : p \in Reply
BY ExtractionConstants DEF NoReply, Reply, Unoccupied, Work, Replies

\* One job changes.
LEMMA JobChanged ==
  ASSUME ExtractionTypeOK, NEW i \in 1..Len(jobs), NEW e \in Job, jobs' = [jobs EXCEPT ![i] = e]
  PROVE  /\ jobs' \in Seq(Job) /\ Len(jobs') = Len(jobs) /\ jobs'[i] = e
         /\ \A j \in 1..Len(jobs) : j # i => jobs'[j] = jobs[j]
<1>1. jobs \in Seq(Job)
  BY DEF ExtractionTypeOK
<1> QED BY <1>1, ExceptSeq

\* A handler goes on with its job.
LEMMA HandlerGoesOn ==
  ASSUME ExtractionSound, NEW w \in Workers, ~At(w, "idle"), NEW k \in Work,
         work' = [work EXCEPT ![w] = k], k.job = work[w].job, k.pc # "idle",
         k.pc = "asking" => k.todo # {}, UNCHANGED <<asks, jobs, halts>>,
         runs' \in Seq(Run), claims' \in [MinuteClaims -> Statuses], verdicts' \subseteq Verdict,
         \A v \in verdicts' : claims'[v.claim] # "none"
  PROVE  ExtractionSound'
<1>1. work' \in [Workers -> Work] /\ work'[w] = k /\ \A u \in Workers : u # w => work'[u] = work[u]
  BY DEF ExtractionSound, ExtractionTypeOK
<1>2. ExtractionTypeOK'
  BY <1>1 DEF ExtractionSound, ExtractionTypeOK
<1>3. OwnJobs'
  BY <1>1 DEF ExtractionSound, OwnJobs, At
<1>4. Bounded'
  BY <1>1 DEF ExtractionSound, Bounded, At
<1> QED BY <1>2, <1>3, <1>4 DEF ExtractionSound

\* A handler ends, and its job gets the status and the attempts of e.
LEMMA HandlerEnds ==
  ASSUME ExtractionSound, NEW w \in Workers, ~At(w, "idle"), Leave(w), NEW e \in Job,
         jobs' = [jobs EXCEPT ![work[w].job] = e],
         e.status \in {"pending", "running"} => e.attempts < MaxAttempts,
         asks' = asks, halts' \in 0..MaxHalts,
         runs' \in Seq(Run), claims' = claims, verdicts' = verdicts
  PROVE  ExtractionSound'
<1>1. /\ work' \in [Workers -> Work] /\ work'[w] = Unoccupied
      /\ \A u \in Workers : u # w => work'[u] = work[u]
  BY ExtractionShapes DEF ExtractionSound, ExtractionTypeOK, Leave
<1>2. work[w].job \in 1..Len(jobs)
  BY DEF ExtractionSound, OwnJobs
<1>3. /\ jobs' \in Seq(Job) /\ Len(jobs') = Len(jobs) /\ jobs'[work[w].job] = e
      /\ \A j \in 1..Len(jobs) : j # work[w].job => jobs'[j] = jobs[j]
  BY <1>2, JobChanged DEF ExtractionSound
<1>4. ExtractionTypeOK'
  BY <1>1, <1>3 DEF ExtractionSound, ExtractionTypeOK
<1>5. \A u \in Workers : work'[u].pc # "idle" =>
        u # w /\ work'[u] = work[u] /\ work[u].job \in 1..Len(jobs) /\ work[u].job # work[w].job
  BY <1>1, ExtractionShapes DEF ExtractionSound, OwnJobs, At
<1>6. OwnJobs'
  BY <1>1, <1>3, <1>5 DEF ExtractionSound, OwnJobs, At
<1>7. Bounded'
  BY <1>1, <1>3, <1>5 DEF ExtractionSound, Bounded, At
<1> QED BY <1>4, <1>6, <1>7 DEF ExtractionSound

\* What a job becomes when its handler ends.
LEMMA EndedJob ==
  ASSUME ExtractionSound, NEW w \in Workers, ~At(w, "idle"), Completed(w) \/ Blocked(w) \/ Failed(w)
  PROVE  \E e \in Job : /\ jobs' = [jobs EXCEPT ![work[w].job] = e]
                        /\ e.status \in {"pending", "running"} => e.attempts < MaxAttempts
<1>1. /\ work[w].job \in 1..Len(jobs) /\ MyJob(w) \in Job
      /\ MyJob(w).attempts \in 0..MaxAttempts /\ MyJob(w).attempts < MaxAttempts
  <2>1. work[w].job \in 1..Len(jobs) /\ MyJob(w).status = "running"
    BY DEF ExtractionSound, OwnJobs, MyJob
  <2>2. jobs \in Seq(Job)
    BY DEF ExtractionSound, ExtractionTypeOK
  <2>3. MyJob(w) \in Job
    BY <2>1, <2>2 DEF MyJob
  <2>4. MyJob(w).attempts < MaxAttempts
    BY <2>1 DEF ExtractionSound, Bounded, MyJob
  <2> QED BY <2>1, <2>3, <2>4 DEF Job
<1>2. CASE Completed(w)
  <2>1. PICK e : e = [MyJob(w) EXCEPT !.status = "done"]
    OBVIOUS
  <2>2. e \in Job /\ e.status = "done" /\ jobs' = [jobs EXCEPT ![work[w].job] = e]
    BY <1>1, <1>2, <2>1 DEF Completed, MyJob, Job
  <2> QED BY <2>2
<1>3. CASE Blocked(w)
  <2>1. PICK e : e = [MyJob(w) EXCEPT !.status = "blocked"]
    OBVIOUS
  <2>2. e \in Job /\ e.status = "blocked" /\ jobs' = [jobs EXCEPT ![work[w].job] = e]
    BY <1>1, <1>3, <2>1 DEF Blocked, MyJob, Job
  <2> QED BY <2>2
<1>4. CASE Failed(w)
  <2>1. PICK n : n = MyJob(w).attempts + 1
    OBVIOUS
  <2>2. n \in 0..MaxAttempts
    BY <1>1, <2>1, ExtractionConstants
  <2>3. PICK s \in {"pending", "failed"} : s = IF n < MaxAttempts THEN "pending" ELSE "failed"
    OBVIOUS
  <2>4. PICK e : e = [MyJob(w) EXCEPT !.attempts = n, !.status = s]
    OBVIOUS
  <2>5. e \in Job /\ e.attempts = n /\ e.status = s
    BY <1>1, <2>2, <2>4 DEF Job
  <2>6. jobs' = [jobs EXCEPT ![work[w].job] = e]
    BY <1>4, <2>1, <2>3, <2>4 DEF Failed, MyJob
  <2>7. e.status \in {"pending", "running"} => e.attempts < MaxAttempts
    BY <2>3, <2>5
  <2> QED BY <2>5, <2>6, <2>7
<1> QED BY <1>2, <1>3, <1>4

\* The status of a job that is nobody's changes, or it is claimed.
LEMMA StatusChanges ==
  ASSUME ExtractionSound, NEW j \in 1..Len(jobs), NEW s \in {"pending", "running", "blocked"},
         jobs[j].status \in {"pending", "running"}, jobs' = [jobs EXCEPT ![j].status = s]
  PROVE  /\ jobs' \in Seq(Job) /\ Len(jobs') = Len(jobs) /\ jobs'[j].status = s
         /\ jobs'[j].attempts < MaxAttempts /\ \A i \in 1..Len(jobs) : i # j => jobs'[i] = jobs[i]
<1>1. jobs[j] \in Job
  BY DEF ExtractionSound, ExtractionTypeOK
<1>2. PICK e : e = [jobs[j] EXCEPT !.status = s]
  OBVIOUS
<1>3. e \in Job /\ e.status = s /\ e.attempts = jobs[j].attempts
  BY <1>1, <1>2 DEF Job
<1>4. jobs' = [jobs EXCEPT ![j] = e]
  BY <1>2
<1>5. e.attempts < MaxAttempts
  BY <1>3 DEF ExtractionSound, Bounded
<1> QED BY <1>3, <1>4, <1>5, JobChanged DEF ExtractionSound

\* What a working handler is in.
LEMMA WorkShape ==
  ASSUME ExtractionSound, NEW w \in Workers
  PROVE  /\ work[w] \in Work /\ work[w].pc = work[w].pc
         /\ work[w].job \in 0..MaxJobs /\ work[w].reply \in Reply
         /\ work[w].todo \in SUBSET MinuteClaims /\ work[w].listed \in SUBSET MinuteClaims
         /\ work[w].unreached \in SUBSET MinuteClaims /\ work[w].doomed \in SUBSET MinuteClaims
         /\ runs \in Seq(Run) /\ claims \in [MinuteClaims -> Statuses] /\ verdicts \subseteq Verdict
         /\ \A v \in verdicts : claims[v.claim] # "none"
<1>1. work[w] \in Work
  BY DEF ExtractionSound, ExtractionTypeOK
<1> QED BY <1>1 DEF ExtractionSound, ExtractionTypeOK, Work

\* A run of the sequence changes, if it is there.
LEMMA RunChanged ==
  ASSUME runs \in Seq(Run), NEW i, NEW s \in Run
  PROVE  [runs EXCEPT ![i] = s] \in Seq(Run)
<1>1. CASE i \in 1..Len(runs)
  BY <1>1, ExceptSeq
<1>2. CASE i \notin 1..Len(runs)
  <2>1. [runs EXCEPT ![i] = s] = runs
    BY <1>2
  <2> QED BY <2>1
<1> QED BY <1>1, <1>2

\* What the operator's console does keeps it.
LEMMA ConsoleKeeps ==
  ASSUME ExtractionSound, ConsoleStep
  PROVE  ExtractionSound'
<1>0. /\ asks \in [Looks -> 0..MaxJobs] /\ jobs \in Seq(Job) /\ Len(jobs) \in Nat
      /\ asks["unread"] \in Nat /\ asks["extract"] \in Nat /\ asks["govern"] \in Nat
      /\ Len(jobs) + asks["unread"] + asks["extract"] + asks["govern"] <= MaxJobs
      /\ MaxJobs \in Nat
  BY ExtractionConstants DEF ExtractionSound, ExtractionTypeOK, Bounded, Looks
<1>1. ASSUME BatchLook \/ \E stage \in {"extract", "govern"} : Look(stage) PROVE ExtractionSound'
  <2>1. UNCHANGED <<jobs, runs, claims, verdicts, work, halts>>
    BY <1>1 DEF BatchLook, Look
  <2>2. /\ asks' \in [Looks -> 0..MaxJobs]
        /\ Len(jobs) + asks'["unread"] + asks'["extract"] + asks'["govern"] <= MaxJobs
    <3>1. CASE BatchLook
      BY <1>0, <3>1 DEF BatchLook, Room, Looks
    <3>2. ASSUME NEW stage \in {"extract", "govern"}, Room, asks' = [asks EXCEPT ![stage] = @ + 1]
          PROVE  /\ asks' \in [Looks -> 0..MaxJobs]
                 /\ Len(jobs) + asks'["unread"] + asks'["extract"] + asks'["govern"] <= MaxJobs
      <4>1. CASE stage = "extract"
        BY <1>0, <3>2, <4>1 DEF Room, Looks
      <4>2. CASE stage = "govern"
        BY <1>0, <3>2, <4>2 DEF Room, Looks
      <4> QED BY <4>1, <4>2
    <3>3. ASSUME asks["unread"] > 0, asks' = [asks EXCEPT !["extract"] = @ + 1, !["unread"] = @ - 1]
          PROVE  /\ asks' \in [Looks -> 0..MaxJobs]
                 /\ Len(jobs) + asks'["unread"] + asks'["extract"] + asks'["govern"] <= MaxJobs
      <4>1. asks'["extract"] = asks["extract"] + 1 /\ asks'["unread"] = asks["unread"] - 1
            /\ asks'["govern"] = asks["govern"]
        BY <1>0, <3>3 DEF Looks
      <4>2. asks["extract"] + 1 \in 0..MaxJobs /\ asks["unread"] - 1 \in 0..MaxJobs
        <5>1. \A n, a, b, c, m \in Nat :
                a > 0 /\ n + a + b + c <= m => b + 1 \in 0..m /\ a - 1 \in 0..m
          OBVIOUS
        <5> QED BY <1>0, <3>3, <5>1
      <4>3. Len(jobs) + asks'["unread"] + asks'["extract"] + asks'["govern"] <= MaxJobs
        <5>1. \A n, a, b, c, m \in Nat :
                a > 0 /\ n + a + b + c <= m => n + (a - 1) + (b + 1) + c <= m
          OBVIOUS
        <5> QED BY <1>0, <3>3, <4>1, <5>1
      <4>4. asks' \in [Looks -> 0..MaxJobs]
        BY <1>0, <3>3, <4>2 DEF Looks
      <4> QED BY <4>3, <4>4
    <3> QED BY <1>1, <3>1, <3>2, <3>3 DEF Look
  <2> QED BY <2>1, <2>2 DEF ExtractionSound, ExtractionTypeOK, OwnJobs, Bounded, At
<1>2. ASSUME NEW stage \in {"extract", "govern"}, Enqueue(stage) PROVE ExtractionSound'
  <2>1. UNCHANGED <<runs, claims, verdicts, work, halts>>
    BY <1>2 DEF Enqueue
  <2>2. PICK e : e = [stage |-> stage, attempts |-> 0, status |-> "pending"]
    OBVIOUS
  <2>3. e \in Job /\ e.attempts = 0
    BY <2>2, ExtractionConstants DEF Job
  <2>4. /\ jobs' \in Seq(Job) /\ Len(jobs') = Len(jobs) + 1 /\ jobs'[Len(jobs) + 1] = e
        /\ \A j \in 1..Len(jobs) : jobs'[j] = jobs[j]
    BY <1>0, <1>2, <2>2, <2>3, AppendProperties DEF Enqueue
  <2>5. /\ asks' \in [Looks -> 0..MaxJobs]
        /\ Len(jobs) + 1 + asks'["unread"] + asks'["extract"] + asks'["govern"] <= MaxJobs
    <3>1. asks[stage] > 0 /\ asks' = [asks EXCEPT ![stage] = @ - 1]
      BY <1>2 DEF Enqueue
    <3>2. asks' \in [Looks -> 0..MaxJobs]
      BY <1>0, <1>2, <3>1 DEF Looks
    <3>3. \A n, a, b, c, m \in Nat :
            n + a + b + c <= m => /\ b > 0 => n + 1 + a + (b - 1) + c <= m
                                  /\ c > 0 => n + 1 + a + b + (c - 1) <= m
      OBVIOUS
    <3>4. CASE stage = "extract"
      <4>1. /\ asks'["unread"] = asks["unread"] /\ asks'["extract"] = asks["extract"] - 1
            /\ asks'["govern"] = asks["govern"]
        BY <1>0, <3>1, <3>4 DEF Looks
      <4> QED BY <1>0, <3>1, <3>2, <3>3, <3>4, <4>1
    <3>5. CASE stage = "govern"
      <4>1. /\ asks'["unread"] = asks["unread"] /\ asks'["extract"] = asks["extract"]
            /\ asks'["govern"] = asks["govern"] - 1
        BY <1>0, <3>1, <3>5 DEF Looks
      <4> QED BY <1>0, <3>1, <3>2, <3>3, <3>5, <4>1
    <3> QED BY <1>2, <3>4, <3>5
  <2>6. asks'["unread"] \in Nat /\ asks'["extract"] \in Nat /\ asks'["govern"] \in Nat
    BY <2>5 DEF Looks
  <2>7. \A j \in 1..Len(jobs) + 1 : j \in 1..Len(jobs) \/ j = Len(jobs) + 1
    BY <1>0
  <2>a. Len(jobs') <= MaxJobs
    <3>1. \A n, a, b, c, m \in Nat : n + 1 + a + b + c <= m => n + 1 <= m
      OBVIOUS
    <3>2. Len(jobs) \in Nat /\ MaxJobs \in Nat
      BY <1>0
    <3> QED BY <2>4, <2>5, <2>6, <3>1, <3>2
  <2>8. ExtractionTypeOK'
    BY <2>1, <2>4, <2>5, <2>a DEF ExtractionSound, ExtractionTypeOK
  <2>9. OwnJobs'
    BY <1>0, <2>1, <2>4 DEF ExtractionSound, OwnJobs, At
  <2>10. Bounded'
    <3>1. \A j \in 1..Len(jobs') : jobs'[j].status \in {"pending", "running"} => jobs'[j].attempts < MaxAttempts
      <4> SUFFICES ASSUME NEW j \in 1..Len(jobs'), jobs'[j].status \in {"pending", "running"}
                   PROVE  jobs'[j].attempts < MaxAttempts
        OBVIOUS
      <4>1. CASE j \in 1..Len(jobs)
        BY <2>4, <4>1 DEF ExtractionSound, Bounded
      <4>2. CASE j = Len(jobs) + 1
        BY <2>3, <2>4, <4>2, ExtractionConstants
      <4> QED BY <2>4, <2>7, <4>1, <4>2
    <3> QED BY <2>1, <2>4, <2>5, <3>1 DEF ExtractionSound, Bounded, At
  <2> QED BY <2>8, <2>9, <2>10 DEF ExtractionSound
<1>3. ASSUME NEW c \in MinuteClaims, DecideClaim(c) PROVE ExtractionSound'
  <2>1. UNCHANGED <<asks, jobs, runs, verdicts, work, halts>>
    BY <1>3 DEF DecideClaim
  <2>2. /\ claims' \in [MinuteClaims -> Statuses]
        /\ \A b \in MinuteClaims : claims[b] # "none" => claims'[b] # "none"
    BY <1>3 DEF DecideClaim, ExtractionSound, ExtractionTypeOK, Statuses
  <2>3. \A v \in verdicts' : claims'[v.claim] # "none"
    BY <2>1, <2>2 DEF ExtractionSound, ExtractionTypeOK, Verdict
  <2> QED BY <2>1, <2>2, <2>3 DEF ExtractionSound, ExtractionTypeOK, OwnJobs, Bounded, At
<1> QED BY <1>1, <1>2, <1>3 DEF ConsoleStep

\* What the queue does keeps it: a claim gives a job to one worker, and
\* recovery takes one only from the dead.
LEMMA QueueKeeps ==
  ASSUME ExtractionSound,
         \/ \E w \in Workers : ClaimJob(w) \/ Die(w)
         \/ \E j \in 1..MaxJobs : Recover(j) \/ SweepTakes(j)
  PROVE  ExtractionSound'
<1> USE ExtractionShapes
<1>1. ASSUME NEW w \in Workers, ClaimJob(w) PROVE ExtractionSound'
  <2>1. PICK j \in 1..Len(jobs) :
          /\ jobs[j].status = "pending" /\ jobs' = [jobs EXCEPT ![j].status = "running"]
          /\ work' = [work EXCEPT ![w] = [Unoccupied EXCEPT !.pc = "claimed", !.job = j]]
    BY <1>1 DEF ClaimJob
  <2>2. PICK k : k = [Unoccupied EXCEPT !.pc = "claimed", !.job = j]
    OBVIOUS
  <2>3. k \in Work /\ k.pc = "claimed" /\ k.job = j
    <3>1. j \in 0..MaxJobs
      BY ExtractionConstants DEF ExtractionSound, ExtractionTypeOK
    <3> QED BY <2>2, <3>1 DEF Work, Unoccupied
  <2>4. work' \in [Workers -> Work] /\ work'[w] = k /\ \A u \in Workers : u # w => work'[u] = work[u]
    BY <2>1, <2>2, <2>3 DEF ExtractionSound, ExtractionTypeOK
  <2>5. /\ jobs' \in Seq(Job) /\ Len(jobs') = Len(jobs) /\ jobs'[j].status = "running"
        /\ jobs'[j].attempts < MaxAttempts /\ \A i \in 1..Len(jobs) : i # j => jobs'[i] = jobs[i]
    BY <2>1, StatusChanges
  <2>6. UNCHANGED <<asks, runs, claims, verdicts, halts>>
    BY <1>1 DEF ClaimJob
  <2>7. \A u \in Workers : u # w /\ work[u].pc # "idle" => work[u].job \in 1..Len(jobs) /\ work[u].job # j
    BY <2>1 DEF ExtractionSound, OwnJobs, At
  <2>8. ExtractionTypeOK'
    BY <2>4, <2>5, <2>6 DEF ExtractionSound, ExtractionTypeOK
  <2>9. OwnJobs'
    BY <2>3, <2>4, <2>5, <2>7 DEF ExtractionSound, OwnJobs, At
  <2>10. Bounded'
    BY <2>3, <2>4, <2>5, <2>6 DEF ExtractionSound, Bounded, At
  <2> QED BY <2>8, <2>9, <2>10 DEF ExtractionSound
<1>2. ASSUME NEW w \in Workers, Die(w) PROVE ExtractionSound'
  <2>1. /\ work' \in [Workers -> Work] /\ work'[w] = Unoccupied
        /\ \A u \in Workers : u # w => work'[u] = work[u]
    BY <1>2 DEF Die, Leave, ExtractionSound, ExtractionTypeOK
  <2>2. UNCHANGED <<asks, jobs, runs, claims, verdicts>>
    BY <1>2 DEF Die
  <2>3. halts' \in 0..MaxHalts
    BY <1>2, ExtractionConstants DEF Die, ExtractionSound, ExtractionTypeOK
  <2>4. ExtractionTypeOK'
    BY <2>1, <2>2, <2>3 DEF ExtractionSound, ExtractionTypeOK
  <2>5. OwnJobs'
    BY <2>1, <2>2 DEF ExtractionSound, OwnJobs, At
  <2>6. Bounded'
    BY <2>1, <2>2 DEF ExtractionSound, Bounded, At
  <2> QED BY <2>4, <2>5, <2>6 DEF ExtractionSound
<1>3. ASSUME NEW j \in 1..MaxJobs, Recover(j) \/ SweepTakes(j) PROVE ExtractionSound'
  <2>1. j \in 1..Len(jobs) /\ UNCHANGED <<asks, runs, claims, verdicts, work, halts>>
    BY <1>3 DEF Recover, SweepTakes, ExtractionSound, ExtractionTypeOK
  <2>2. PICK s \in {"pending", "blocked"} :
          jobs[j].status \in {"pending", "running"} /\ jobs' = [jobs EXCEPT ![j].status = s]
    BY <1>3 DEF Recover, SweepTakes
  <2>3. /\ jobs' \in Seq(Job) /\ Len(jobs') = Len(jobs) /\ jobs'[j].status = s
        /\ jobs'[j].attempts < MaxAttempts /\ \A i \in 1..Len(jobs) : i # j => jobs'[i] = jobs[i]
    BY <2>1, <2>2, StatusChanges
  <2>4. \A u \in Workers : work[u].pc # "idle" => work[u].job \in 1..Len(jobs) /\ work[u].job # j
    BY <1>3 DEF Recover, SweepTakes, ExtractionSound, OwnJobs, At
  <2>5. ExtractionTypeOK'
    BY <2>1, <2>3 DEF ExtractionSound, ExtractionTypeOK
  <2>6. OwnJobs'
    BY <2>1, <2>3, <2>4 DEF ExtractionSound, OwnJobs, At
  <2>7. Bounded'
    BY <2>1, <2>3 DEF ExtractionSound, Bounded, At
  <2> QED BY <2>5, <2>6, <2>7 DEF ExtractionSound
<1> QED BY <1>1, <1>2, <1>3

\* A handler that ends, in any of the ways a job ends.
LEMMA HandlerLeaves ==
  ASSUME ExtractionSound, NEW w \in Workers, ~At(w, "idle"), Leave(w),
         Completed(w) \/ Blocked(w) \/ Failed(w),
         asks' = asks, halts' \in 0..MaxHalts,
         runs' \in Seq(Run), claims' = claims, verdicts' = verdicts
  PROVE  ExtractionSound'
<1>1. PICK e \in Job : /\ jobs' = [jobs EXCEPT ![work[w].job] = e]
                       /\ e.status \in {"pending", "running"} => e.attempts < MaxAttempts
  BY EndedJob
<1> QED BY <1>1, HandlerEnds

\* What a handler does keeps it.
LEMMA HandlerKeeps ==
  ASSUME ExtractionSound, NEW w \in Workers, HandlerStep(w)
  PROVE  ExtractionSound'
<1> USE ExtractionShapes, WorkShape
<1>0. halts \in 0..MaxHalts /\ MaxHalts \in Nat
  BY ExtractionConstants DEF ExtractionSound, ExtractionTypeOK
<1>1. CASE StartRun(w)
  <2>1. PICK k : k = [work[w] EXCEPT !.pc = "started", !.run = Len(runs) + 1]
    OBVIOUS
  <2>5. runs \in Seq(Run)
    BY DEF ExtractionSound, ExtractionTypeOK
  <2>6. Len(runs) + 1 \in Nat
    BY <2>5, LenProperties
  <2>2. k \in Work /\ k.pc = "started" /\ k.job = work[w].job
    BY <2>1, <2>6 DEF Work
  <2>3. runs' \in Seq(Run)
    BY <1>1, AppendProperties DEF StartRun, Run
  <2>4. /\ work' = [work EXCEPT ![w] = k] /\ UNCHANGED <<asks, jobs, claims, verdicts, halts>>
        /\ ~At(w, "idle")
    BY <1>1, <2>1 DEF StartRun, At
  <2> QED BY <2>2, <2>3, <2>4, HandlerGoesOn
<1>2. CASE Unavailable(w)
  <2>1. runs' \in Seq(Run)
    BY <1>2, RunChanged DEF Unavailable, FailRun, Run
  <2> QED BY <1>0, <1>2, <2>1, HandlerLeaves DEF Unavailable, At
<1>3. CASE Read(w)
  <2>1. PICK p \in Replies : work' = [work EXCEPT ![w] = [@ EXCEPT !.pc = "read", !.reply = p]]
    BY <1>3 DEF Read
  <2>2. PICK k : k = [work[w] EXCEPT !.pc = "read", !.reply = p]
    OBVIOUS
  <2>3. k \in Work /\ k.pc = "read" /\ k.job = work[w].job
    BY <2>2 DEF Work
  <2>4. /\ work' = [work EXCEPT ![w] = k] /\ UNCHANGED <<asks, jobs, runs, claims, verdicts, halts>>
        /\ ~At(w, "idle")
    BY <1>3, <2>1, <2>2 DEF Read, At
  <2> QED BY <2>3, <2>4, HandlerGoesOn
<1>4. CASE Persist(w)
  <2>1. PICK k : k = [work[w] EXCEPT !.pc = "stored"]
    OBVIOUS
  <2>2. k \in Work /\ k.pc = "stored" /\ k.job = work[w].job
    BY <2>1 DEF Work
  <2>3. /\ work' = [work EXCEPT ![w] = k] /\ UNCHANGED <<asks, jobs, runs, verdicts, halts>>
        /\ ~At(w, "idle")
    BY <1>4, <2>1 DEF Persist, At
  <2>4. /\ claims' \in [MinuteClaims -> Statuses]
        /\ \A c \in MinuteClaims : claims[c] # "none" => claims'[c] # "none"
    BY <1>4 DEF Persist, Merged, Statuses
  <2>5. \A v \in verdicts : claims'[v.claim] # "none"
    BY <2>4 DEF Verdict
  <2> QED BY <2>2, <2>3, <2>4, <2>5, HandlerGoesOn
<1>5. CASE FindDoomed(w)
  <2>1. PICK k : k = [work[w] EXCEPT !.pc = "pruning",
                        !.doomed = {c \in MinuteClaims \ Officials : claims[c] = "held"}]
    OBVIOUS
  <2>2. k \in Work /\ k.pc = "pruning" /\ k.job = work[w].job
    BY <2>1 DEF Work
  <2>3. /\ work' = [work EXCEPT ![w] = k] /\ UNCHANGED <<asks, jobs, runs, claims, verdicts, halts>>
        /\ ~At(w, "idle")
    BY <1>5, <2>1 DEF FindDoomed, At
  <2> QED BY <2>2, <2>3, HandlerGoesOn
<1>6. CASE PruneHeld(w)
  <2>1. PICK k : k = [work[w] EXCEPT !.pc = "finished", !.doomed = {}]
    OBVIOUS
  <2>2. k \in Work /\ k.pc = "finished" /\ k.job = work[w].job
    BY <2>1 DEF Work
  <2>3. /\ work' = [work EXCEPT ![w] = k] /\ UNCHANGED <<asks, jobs, runs, halts>>
        /\ ~At(w, "idle")
    BY <1>6, <2>1 DEF PruneHeld, At
  <2>4. /\ claims' \in [MinuteClaims -> Statuses]
        /\ \A c \in MinuteClaims : c \notin work[w].doomed => claims'[c] = claims[c]
        /\ verdicts' = {v \in verdicts : v.claim \notin work[w].doomed}
    BY <1>6 DEF PruneHeld, Statuses
  <2>5. verdicts' \subseteq Verdict /\ \A v \in verdicts' : claims'[v.claim] # "none"
    BY <2>4 DEF Verdict
  <2> QED BY <2>2, <2>3, <2>4, <2>5, HandlerGoesOn
<1>7. CASE Finish(w)
  <2>1. Classify(work[w].reply) \in Run
    BY DEF Classify, Run
  <2>2. runs' \in Seq(Run)
    BY <1>7, <2>1, RunChanged DEF Finish
  <2>3. Completed(w) \/ Failed(w)
    BY <1>7 DEF Finish
  <2> QED BY <1>0, <1>7, <2>2, <2>3, HandlerLeaves DEF Finish, At
<1>8. CASE ExtractError(w)
  <2>1. runs' \in Seq(Run)
    BY <1>8, RunChanged DEF ExtractError, FailRun, Run
  <2>2. halts' \in 0..MaxHalts
    BY <1>0, <1>8 DEF ExtractError
  <2> QED BY <1>8, <2>1, <2>2, HandlerLeaves DEF ExtractError, At
<1>9. CASE ListHeld(w)
  <2>1. PICK held : held = {c \in MinuteClaims : claims[c] = "held"}
    OBVIOUS
  <2>2. PICK k : k = [work[w] EXCEPT !.pc = "judging", !.listed = held, !.todo = held]
    OBVIOUS
  <2>3. k \in Work /\ k.pc = "judging" /\ k.job = work[w].job
    BY <2>1, <2>2 DEF Work
  <2>4. /\ work' = [work EXCEPT ![w] = k] /\ UNCHANGED <<asks, jobs, runs, claims, verdicts, halts>>
        /\ ~At(w, "idle")
    BY <1>9, <2>1, <2>2 DEF ListHeld, At
  <2> QED BY <2>3, <2>4, HandlerGoesOn
<1>10. CASE CheckVerdict(w)
  <2>1. PICK k : k = IF Judged(NextClaim(w), Requested) THEN [work[w] EXCEPT !.todo = ToJudge(w)]
                     ELSE [work[w] EXCEPT !.pc = "asking"]
    OBVIOUS
  <2>2. work[w].pc = "judging" /\ work[w].todo # {} /\ ToJudge(w) \in SUBSET MinuteClaims
    BY <1>10 DEF CheckVerdict, At, ToJudge
  <2>3. /\ k \in Work /\ k.pc \in {"judging", "asking"} /\ k.job = work[w].job
        /\ k.pc = "asking" => k.todo # {}
    <3>1. CASE Judged(NextClaim(w), Requested)
      BY <2>1, <2>2, <3>1 DEF Work
    <3>2. CASE ~Judged(NextClaim(w), Requested)
      BY <2>1, <2>2, <3>2 DEF Work
    <3> QED BY <3>1, <3>2
  <2>4. /\ work' = [work EXCEPT ![w] = k] /\ UNCHANGED <<asks, jobs, runs, claims, verdicts, halts>>
        /\ ~At(w, "idle")
    BY <1>10, <2>1 DEF CheckVerdict, At
  <2> HIDE <2>1
  <2> QED BY <2>3, <2>4, HandlerGoesOn
<1>11. CASE NoVerdict(w)
  <2>1. work[w].todo # {} /\ NextClaim(w) \in MinuteClaims /\ ToJudge(w) \in SUBSET MinuteClaims
    BY <1>11 DEF NoVerdict, ExtractionSound, Bounded, NextClaim, ToJudge
  <2>2. PICK lost \in SUBSET MinuteClaims :
          work' = [work EXCEPT ![w] = [@ EXCEPT !.pc = "judging", !.todo = ToJudge(w),
                                         !.unreached = work[w].unreached \cup lost]]
    BY <1>11, <2>1 DEF NoVerdict
  <2>3. PICK k : k = [work[w] EXCEPT !.pc = "judging", !.todo = ToJudge(w),
                                     !.unreached = work[w].unreached \cup lost]
    OBVIOUS
  <2>4. work[w].unreached \cup lost \in SUBSET MinuteClaims
    OBVIOUS
  <2>5. k \in Work /\ k.pc = "judging" /\ k.job = work[w].job
    BY <2>1, <2>3, <2>4 DEF Work
  <2>6. /\ work' = [work EXCEPT ![w] = k] /\ UNCHANGED <<asks, jobs, runs, claims, verdicts, halts>>
        /\ ~At(w, "idle")
    BY <1>11, <2>2, <2>3 DEF NoVerdict, At
  <2> QED BY <2>5, <2>6, HandlerGoesOn
<1>12. CASE RecordVerdict(w)
  <2>1. work[w].todo # {} /\ NextClaim(w) \in MinuteClaims /\ ToJudge(w) \in SUBSET MinuteClaims
    BY <1>12 DEF RecordVerdict, ExtractionSound, Bounded, NextClaim, ToJudge
  <2>2. PICK model \in Models, s \in BOOLEAN :
          verdicts' = Recorded([claim |-> NextClaim(w), model |-> model, supported |-> s])
    BY <1>12 DEF RecordVerdict
  <2>3. PICK v : v = [claim |-> NextClaim(w), model |-> model, supported |-> s]
    OBVIOUS
  <2>4. v \in Verdict /\ v.claim = NextClaim(w)
    BY <2>1, <2>3 DEF Verdict
  <2>5. verdicts' \subseteq verdicts \cup {v}
    BY <2>2, <2>3 DEF Recorded
  <2>6. claims[NextClaim(w)] # "none"
    BY <1>12 DEF RecordVerdict
  <2>7. PICK k : k = [work[w] EXCEPT !.pc = "judging", !.todo = ToJudge(w)]
    OBVIOUS
  <2>8. k \in Work /\ k.pc = "judging" /\ k.job = work[w].job
    BY <2>1, <2>7 DEF Work
  <2>9. /\ work' = [work EXCEPT ![w] = k] /\ UNCHANGED <<asks, jobs, runs, claims, halts>>
        /\ ~At(w, "idle")
    BY <1>12, <2>7 DEF RecordVerdict, At
  <2>10. verdicts' \subseteq Verdict /\ \A u \in verdicts' : claims'[u.claim] # "none"
    BY <2>4, <2>5, <2>6, <2>9
  <2> QED BY <2>8, <2>9, <2>10, HandlerGoesOn
<1>13. CASE OrphanVerdict(w)
  BY <1>0, <1>13, HandlerLeaves DEF OrphanVerdict, At
<1>14. CASE GovernDone(w)
  <2>1. Completed(w) \/ Failed(w)
    BY <1>14 DEF GovernDone
  <2> QED BY <1>0, <1>14, <2>1, HandlerLeaves DEF GovernDone, At
<1>15. CASE GovernUnavailable(w)
  BY <1>0, <1>15, HandlerLeaves DEF GovernUnavailable, At
<1> QED BY <1>1, <1>2, <1>3, <1>4, <1>5, <1>6, <1>7, <1>8, <1>9, <1>10, <1>11, <1>12, <1>13,
          <1>14, <1>15 DEF HandlerStep

\* It holds of every behaviour.
LEMMA AlwaysSound == ExtractionSpec => []ExtractionSound
<1>1. ExtractionInit => ExtractionSound
  <2> SUFFICES ASSUME ExtractionInit PROVE ExtractionSound
    OBVIOUS
  <2>1. /\ jobs = <<>> /\ runs = <<>> /\ verdicts = {} /\ halts = 0
        /\ \A p \in Looks : asks[p] = 0
    BY DEF ExtractionInit
  <2>2. ExtractionTypeOK
    BY ExtractionConstants, ExtractionShapes DEF ExtractionInit, ExtractionTypeOK, Statuses
  <2>3. OwnJobs
    BY ExtractionShapes DEF ExtractionInit, OwnJobs, At
  <2>4. Bounded
    BY <2>1, ExtractionConstants, ExtractionShapes DEF ExtractionInit, Bounded, At, Looks
  <2> QED BY <2>2, <2>3, <2>4 DEF ExtractionSound
<1>2. ExtractionSound /\ [ExtractionNext]_extractionVars => ExtractionSound'
  <2>1. ExtractionSound /\ UNCHANGED extractionVars => ExtractionSound'
    BY DEF extractionVars, ExtractionSound, ExtractionTypeOK, OwnJobs, Bounded, At
  <2> QED BY <2>1, ConsoleKeeps, QueueKeeps, HandlerKeeps DEF ExtractionNext
<1> QED BY <1>1, <1>2, PTL DEF ExtractionSpec

\* Runs, claims, verdicts, jobs and workers keep their types, and a verdict is
\* on a claim that is there, after replies that name claims unknown, deaths and
\* takeovers (extractor.ts, stage.ts).
THEOREM ExtractionTypeCorrect == ExtractionSpec => []ExtractionTypeOK
<1>1. ExtractionSound => ExtractionTypeOK
  BY DEF ExtractionSound
<1> QED BY <1>1, AlwaysSound, PTL

\* No extraction, pruning or governing puts a claim an operator decided back
\* among the held ones, though extraction stores the same claim again
\* (extractor.ts: persistClaims).
THEOREM DecisionsAreKept == ExtractionSpec => NotReopened
<1>1. ExtractionSound /\ [ExtractionNext]_extractionVars
      => [\A c \in MinuteClaims : claims[c] = "decided" => claims'[c] # "held"]_extractionVars
  <2> SUFFICES ASSUME ExtractionSound, ExtractionNext, NEW c \in MinuteClaims, claims[c] = "decided"
               PROVE  claims'[c] # "held"
    BY DEF NotReopened
  <2>1. claims \in [MinuteClaims -> Statuses]
    BY DEF ExtractionSound, ExtractionTypeOK
  <2>2. ASSUME claims' = claims PROVE claims'[c] # "held"
    BY <2>2
  <2>3. ASSUME NEW b \in MinuteClaims, DecideClaim(b) PROVE claims'[c] # "held"
    BY <2>1, <2>3 DEF DecideClaim
  <2>4. ASSUME NEW w \in Workers, Persist(w) PROVE claims'[c] # "held"
    BY <2>4 DEF Persist, Merged
  <2>5. ASSUME NEW w \in Workers, PruneHeld(w) PROVE claims'[c] # "held"
    BY <2>5 DEF PruneHeld
  <2>6. \/ claims' = claims
        \/ \E b \in MinuteClaims : DecideClaim(b)
        \/ \E w \in Workers : Persist(w) \/ PruneHeld(w)
    BY DEF ExtractionNext, ConsoleStep, BatchLook, Look, Enqueue, ClaimJob, HandlerStep, Die, Recover,
       SweepTakes, StartRun, Unavailable, Read, FindDoomed, Finish, ExtractError, ListHeld,
       CheckVerdict, NoVerdict, RecordVerdict, OrphanVerdict, GovernDone, GovernUnavailable
  <2> QED BY <2>2, <2>3, <2>4, <2>5, <2>6
<1> QED BY <1>1, AlwaysSound, PTL DEF ExtractionSpec, NotReopened

-----------------------------------------------------------------------------
\* The day of a moment is a day of the model.
LEMMA DayIsADay ==
  ASSUME NEW t \in 0..LastMoment
  PROVE  Day(t) \in Days
<1>1. \A a, b \in Nat, d \in Nat \ {0} : a <= b => a \div d \in Nat /\ a \div d <= b \div d
  OBVIOUS
<1> QED BY <1>1, ArchiveConstants DEF Day, Days

\* The cycle that has not begun, and the first day.
LEMMA ArchiveShapes ==
  /\ NoCycle \in Cycle
  /\ 0 \in Days /\ 0 \in 0..LastMoment
<1>1. Day(0) \in Days /\ Day(0) = 0
  BY DayIsADay, ArchiveConstants DEF Day
<1> QED BY <1>1, ArchiveConstants DEF NoCycle, Cycle

\* Whoever is past the lock has it alone, and there is room for its snapshot.
Locking ==
  \A p \in Scribes :
    /\ In(p, "locked") \/ In(p, "reading") => lock = {p}
    /\ In(p, "reading") => Len(snapshots) < MaxSnapshots

\* The types hold, and what the advisory lock guarantees.
LEMMA ArchiveLocks == ArchiveSpec => [](ArchiveTypeOK /\ Locking)
<1>1. ArchiveInit => ArchiveTypeOK /\ Locking
  BY ArchiveShapes, ArchiveConstants DEF ArchiveInit, ArchiveTypeOK, Locking, In, NoCycle
<1>2. ArchiveTypeOK /\ Locking /\ [ArchiveNext]_archiveVars => ArchiveTypeOK' /\ Locking'
  <2> SUFFICES ASSUME ArchiveTypeOK, Locking, [ArchiveNext]_archiveVars
               PROVE  ArchiveTypeOK' /\ Locking'
    OBVIOUS
  <2>0. ASSUME NEW p \in Scribes
        PROVE  /\ Ended(p) \in [Scribes -> Cycle] /\ Released(p) \subseteq Scribes
               /\ Ended(p)[p].pc = "idle" /\ \A q \in Scribes : q # p => Ended(p)[q] = cycle[q]
    BY ArchiveShapes DEF ArchiveTypeOK, Ended, Released, NoCycle
  \* The end of a cycle that has committed nothing.
  <2>e. ASSUME NEW p \in Scribes, cycle' = Ended(p), lock' = Released(p) \/ lock' = lock,
               UNCHANGED <<exported, moment, snapshots, taken>>, breaks' \in 0..MaxBreaks
        PROVE  ArchiveTypeOK' /\ Locking'
    <3>1. ArchiveTypeOK'
      BY <2>0, <2>e DEF ArchiveTypeOK
    <3>2. Locking'
      BY <2>0, <2>e DEF Locking, In, Released
    <3> QED BY <3>1, <3>2
  \* A step of one cycle that stays on its side of the lock.
  <2>s. ASSUME NEW p \in Scribes, NEW c \in Cycle, cycle' = [cycle EXCEPT ![p] = c],
               c.pc \in {"locked", "reading"} => lock = {p},
               c.pc = "reading" => Len(snapshots) < MaxSnapshots,
               UNCHANGED <<exported, moment, lock, snapshots, taken, breaks>>
        PROVE  ArchiveTypeOK' /\ Locking'
    <3>1. ArchiveTypeOK'
      BY <2>s DEF ArchiveTypeOK
    <3>2. Locking'
      BY <2>s DEF Locking, In, ArchiveTypeOK
    <3> QED BY <3>1, <3>2
  <2>1. CASE Elapse
    BY <2>1, ArchiveConstants DEF Elapse, ArchiveTypeOK, Locking, In
  <2>2. ASSUME NEW r \in Entries, PublishEntry(r) \/ WithdrawEntry(r) PROVE ArchiveTypeOK' /\ Locking'
    BY <2>2 DEF PublishEntry, WithdrawEntry, ArchiveTypeOK, Locking, In
  <2>3. ASSUME NEW p \in Scribes, NEW force \in BOOLEAN, Wake(p, force) PROVE ArchiveTypeOK' /\ Locking'
    <3> DEFINE c == [pc |-> "woken", day |-> Day(moment), at |-> 0, force |-> force, held |-> <<>>]
    <3>1. PICK d : d = c
      OBVIOUS
    <3>2. d \in Cycle /\ d.pc = "woken"
      BY <3>1, ArchiveShapes, DayIsADay DEF ArchiveTypeOK, Cycle
    <3> QED BY <2>3, <2>s, <3>1, <3>2 DEF Wake
  <2>4. ASSUME NEW p \in Scribes, Begin(p) PROVE ArchiveTypeOK' /\ Locking'
    <3>1. PICK d : d = [cycle[p] EXCEPT !.pc = "begun", !.at = moment]
      OBVIOUS
    <3>2. d \in Cycle /\ d.pc = "begun"
      BY <3>1 DEF ArchiveTypeOK, Cycle
    <3> QED BY <2>4, <2>s, <3>1, <3>2 DEF Begin
  <2>5. ASSUME NEW p \in Scribes, TryLock(p) PROVE ArchiveTypeOK' /\ Locking'
    <3>1. CASE LockFree
      <4>1. [cycle[p] EXCEPT !.pc = "locked"] \in Cycle
        BY DEF ArchiveTypeOK, Cycle
      <4>2. /\ lock = {} /\ lock' = {p} /\ cycle' = [cycle EXCEPT ![p].pc = "locked"]
            /\ UNCHANGED <<exported, moment, snapshots, taken, breaks>>
        BY <2>5, <3>1 DEF TryLock, LockFree
      <4>3. ArchiveTypeOK'
        BY <4>1, <4>2 DEF ArchiveTypeOK
      <4>4. Locking'
        BY <4>2 DEF Locking, In, ArchiveTypeOK, Cycle
      <4> QED BY <4>3, <4>4
    <3>2. CASE ~LockFree
      BY <2>5, <2>e, <3>2 DEF TryLock, ArchiveTypeOK
    <3> QED BY <3>1, <3>2
  <2>6. ASSUME NEW p \in Scribes, LookAtDay(p) PROVE ArchiveTypeOK' /\ Locking'
    <3>1. CASE TakenOn(cycle[p].day) # {} /\ ~cycle[p].force
      BY <2>6, <2>e, <3>1 DEF LookAtDay, ArchiveTypeOK
    <3>2. CASE ~(TakenOn(cycle[p].day) # {} /\ ~cycle[p].force)
      <4>1. PICK d : d = [cycle[p] EXCEPT !.pc = "reading"]
        OBVIOUS
      <4>2. d \in Cycle
        BY <4>1 DEF ArchiveTypeOK, Cycle
      <4>3. lock = {p}
        BY <2>6 DEF LookAtDay, Locking
      <4> QED BY <2>6, <2>s, <3>2, <4>1, <4>2, <4>3 DEF LookAtDay
    <3> QED BY <3>1, <3>2
  <2>7. ASSUME NEW p \in Scribes, RecordDataset(p) PROVE ArchiveTypeOK' /\ Locking'
    <3>1. PICK d : d = [cycle[p] EXCEPT !.held = Append(@, exported)]
      OBVIOUS
    <3>2. Append(cycle[p].held, exported) \in Seq(SUBSET Entries)
      BY DEF ArchiveTypeOK, Cycle
    <3>3. d \in Cycle /\ d.pc = "reading"
      BY <2>7, <3>1, <3>2 DEF ArchiveTypeOK, Cycle, RecordDataset, In
    <3>4. lock = {p} /\ Len(snapshots) < MaxSnapshots
      BY <2>7 DEF RecordDataset, Locking
    <3> QED BY <2>7, <2>s, <3>1, <3>3, <3>4 DEF RecordDataset
  <2>8. ASSUME NEW p \in Scribes, CommitSnapshot(p) PROVE ArchiveTypeOK' /\ Locking'
    <3>1. PICK x : x = [day |-> cycle[p].day, at |-> cycle[p].at,
                        force |-> cycle[p].force, whole |-> OfOneMoment(p)]
      OBVIOUS
    <3>2. OfOneMoment(p) \in BOOLEAN
      BY Zenon DEF OfOneMoment
    <3>3. x \in Snapshot
      BY <3>1, <3>2 DEF ArchiveTypeOK, Cycle, Snapshot
    <3>4. /\ snapshots' = Append(snapshots, x)
          /\ taken' = [taken EXCEPT ![cycle[p].day] = Len(snapshots) + 1]
          /\ cycle' = Ended(p) /\ lock' = Released(p)
          /\ UNCHANGED <<exported, moment, breaks>>
      BY <2>8, <3>1 DEF CommitSnapshot, Named
    <3>5. lock = {p} /\ Len(snapshots) < MaxSnapshots
      BY <2>8 DEF CommitSnapshot, Locking
    <3>6. /\ snapshots' \in Seq(Snapshot) /\ Len(snapshots') = Len(snapshots) + 1
          /\ cycle[p].day \in Days /\ Len(snapshots) \in Nat
      BY <3>3, <3>4 DEF ArchiveTypeOK, Cycle
    <3>7. taken' \in [Days -> 0..Len(snapshots')]
      BY <3>4, <3>6 DEF ArchiveTypeOK
    <3>8. ArchiveTypeOK'
      BY <2>0, <3>4, <3>5, <3>6, <3>7, ArchiveConstants DEF ArchiveTypeOK
    <3>9. \A q \in Scribes : cycle'[q].pc \notin {"locked", "reading"}
      <4> SUFFICES ASSUME NEW q \in Scribes PROVE cycle'[q].pc \notin {"locked", "reading"}
        OBVIOUS
      <4>1. CASE q = p
        BY <2>0, <3>4, <4>1
      <4>2. CASE q # p
        <5>1. lock # {q}
          BY <3>5, <4>2
        <5> QED BY <2>0, <3>4, <4>2, <5>1 DEF Locking, In
      <4> QED BY <4>1, <4>2
    <3>10. Locking'
      BY <3>9 DEF Locking, In
    <3> QED BY <3>8, <3>10
  <2>9. ASSUME NEW p \in Scribes, Break(p) PROVE ArchiveTypeOK' /\ Locking'
    <3>1. breaks' \in 0..MaxBreaks
      BY <2>9, ArchiveConstants DEF Break, ArchiveTypeOK
    <3> QED BY <2>9, <2>e, <3>1 DEF Break
  <2>10. CASE UNCHANGED archiveVars
    BY <2>10 DEF archiveVars, ArchiveTypeOK, Locking, In
  <2> QED BY <2>1, <2>2, <2>3, <2>4, <2>5, <2>6, <2>7, <2>8, <2>9, <2>10 DEF ArchiveNext
<1> QED BY <1>1, <1>2, PTL DEF ArchiveSpec

\* Snapshots, ledger, lock and cycles keep their types (snapshot-scheduler.ts,
\* archive.ts).
THEOREM ArchiveTypeCorrect == ArchiveSpec => []ArchiveTypeOK
BY ArchiveLocks, PTL

\* A cycle that was not forced and reads has found no snapshot of its day, and
\* nobody can have taken one since.
FirstOfItsDay ==
  \A p \in Scribes : In(p, "reading") /\ ~cycle[p].force => TakenOn(cycle[p].day) = {}

\* A commit adds the snapshot of the cycle that has the lock; no other step
\* touches the snapshots.
LEMMA CommitAdds ==
  ASSUME ArchiveTypeOK, Locking, FirstOfItsDay, NEW p \in Scribes, CommitSnapshot(p)
  PROVE  \E n \in Nat \ {0} :
         /\ snapshots' \in Seq(Snapshot) /\ Len(snapshots) = n - 1
         /\ DOMAIN snapshots = 1..(n - 1) /\ DOMAIN snapshots' = 1..n
         /\ \A i \in 1..(n - 1) : snapshots'[i] = snapshots[i]
         /\ snapshots'[n].at = cycle[p].at /\ snapshots'[n].day = cycle[p].day
         /\ snapshots'[n].force = cycle[p].force
         /\ cycle[p].day \in Days /\ cycle[p].force \in BOOLEAN
         /\ ~cycle[p].force => TakenOn(cycle[p].day) = {}
         /\ taken' = [taken EXCEPT ![cycle[p].day] = n]
         /\ \A q \in Scribes : ~In(q, "reading")'
<1>1. PICK x : x = [day |-> cycle[p].day, at |-> cycle[p].at,
                    force |-> cycle[p].force, whole |-> OfOneMoment(p)]
  OBVIOUS
<1>2. OfOneMoment(p) \in BOOLEAN
  BY Zenon DEF OfOneMoment
<1>3. x \in Snapshot /\ cycle[p].day \in Days /\ cycle[p].force \in BOOLEAN
  BY <1>1, <1>2 DEF ArchiveTypeOK, Cycle, Snapshot
<1>4. snapshots' = Append(snapshots, x) /\ snapshots \in Seq(Snapshot)
  BY <1>1 DEF CommitSnapshot, ArchiveTypeOK
<1>5. /\ snapshots' \in Seq(Snapshot) /\ Len(snapshots') = Len(snapshots) + 1
      /\ \A i \in 1..Len(snapshots) : snapshots'[i] = snapshots[i]
      /\ snapshots'[Len(snapshots) + 1] = x
  BY <1>3, <1>4
<1>6. ~cycle[p].force => TakenOn(cycle[p].day) = {}
  BY DEF CommitSnapshot, FirstOfItsDay
<1>7. \A q \in Scribes : ~In(q, "reading")'
  <2> SUFFICES ASSUME NEW q \in Scribes PROVE cycle'[q].pc # "reading"
    BY DEF In
  <2>0. lock = {p} /\ cycle' = [cycle EXCEPT ![p] = NoCycle] /\ NoCycle.pc = "idle"
    BY DEF CommitSnapshot, Ended, Locking, NoCycle
  <2>1. CASE q = p
    BY <2>0, <2>1 DEF ArchiveTypeOK
  <2>2. CASE q # p
    <3>1. lock # {q}
      BY <2>0, <2>2
    <3> QED BY <2>0, <2>2, <3>1 DEF Locking, In, ArchiveTypeOK
  <2> QED BY <2>1, <2>2
<1>8. PICK n \in Nat \ {0} : n = Len(snapshots) + 1
  BY <1>4
<1>9. /\ Len(snapshots) = n - 1 /\ DOMAIN snapshots = 1..(n - 1) /\ DOMAIN snapshots' = 1..n
      /\ \A i \in 1..(n - 1) : snapshots'[i] = snapshots[i]
      /\ snapshots'[n] = x
  BY <1>4, <1>5, <1>8
<1>10. taken' = [taken EXCEPT ![cycle[p].day] = n]
  BY <1>8 DEF CommitSnapshot, Named
<1>11. x.at = cycle[p].at /\ x.day = cycle[p].day /\ x.force = cycle[p].force
  BY <1>1
<1> WITNESS n \in Nat \ {0}
<1> QED BY <1>3, <1>5, <1>6, <1>7, <1>9, <1>10, <1>11

\* No step but a commit touches snapshots or ledger.
LEMMA OnlyCommits ==
  ASSUME [ArchiveNext]_archiveVars
  PROVE  (\E p \in Scribes : CommitSnapshot(p)) \/ UNCHANGED <<snapshots, taken>>
BY DEF ArchiveNext, archiveVars, Elapse, PublishEntry, WithdrawEntry, Wake, Begin, TryLock,
       LookAtDay, RecordDataset, Break

\* Every step keeps it.
LEMMA FirstKept ==
  ASSUME ArchiveTypeOK, Locking, FirstOfItsDay, [ArchiveNext]_archiveVars
  PROVE  FirstOfItsDay'
<1>1. ASSUME NEW p \in Scribes, CommitSnapshot(p) PROVE FirstOfItsDay'
  BY <1>1, CommitAdds DEF FirstOfItsDay
<1>2. ASSUME UNCHANGED snapshots, \A p \in Scribes : cycle'[p] = cycle[p] \/ ~In(p, "reading")'
      PROVE  FirstOfItsDay'
  BY <1>2 DEF FirstOfItsDay, TakenOn, In
<1>3. ASSUME NEW p \in Scribes, LookAtDay(p) PROVE FirstOfItsDay'
  <2>1. CASE TakenOn(cycle[p].day) # {} /\ ~cycle[p].force
    BY <1>2, <1>3, <2>1 DEF LookAtDay, Ended, NoCycle, In, ArchiveTypeOK
  <2>2. CASE ~(TakenOn(cycle[p].day) # {} /\ ~cycle[p].force)
    <3>1. /\ \A q \in Scribes : q # p => cycle'[q] = cycle[q]
          /\ cycle'[p].day = cycle[p].day /\ cycle'[p].force = cycle[p].force
          /\ UNCHANGED snapshots
      BY <1>3, <2>2 DEF LookAtDay, ArchiveTypeOK, Cycle
    <3>2. ~cycle[p].force => TakenOn(cycle[p].day) = {}
      BY <2>2
    <3> QED BY <3>1, <3>2 DEF FirstOfItsDay, In, TakenOn
  <2> QED BY <2>1, <2>2
<1>4. ASSUME NEW p \in Scribes, RecordDataset(p) PROVE FirstOfItsDay'
  <2>1. /\ \A q \in Scribes : cycle'[q].pc = cycle[q].pc /\ cycle'[q].day = cycle[q].day
                               /\ cycle'[q].force = cycle[q].force
        /\ UNCHANGED snapshots
    BY <1>4 DEF RecordDataset, ArchiveTypeOK, Cycle
  <2> QED BY <2>1 DEF FirstOfItsDay, TakenOn, In
<1>5. ASSUME NEW p \in Scribes, Break(p) PROVE FirstOfItsDay'
  BY <1>2, <1>5 DEF Break, Ended, NoCycle, In, ArchiveTypeOK
<1>6. ASSUME NEW p \in Scribes, NEW force \in BOOLEAN, Wake(p, force) PROVE FirstOfItsDay'
  BY <1>2, <1>6 DEF Wake, In, ArchiveTypeOK
<1>7. ASSUME NEW p \in Scribes, Begin(p) PROVE FirstOfItsDay'
  BY <1>2, <1>7 DEF Begin, In, ArchiveTypeOK, Cycle
<1>8. ASSUME NEW p \in Scribes, TryLock(p) PROVE FirstOfItsDay'
  BY <1>2, <1>8 DEF TryLock, Ended, NoCycle, In, ArchiveTypeOK, Cycle
<1>9. CASE UNCHANGED <<cycle, snapshots>>
  BY <1>2, <1>9
<1> QED BY <1>1, <1>3, <1>4, <1>5, <1>6, <1>7, <1>8, <1>9
        DEF ArchiveNext, Elapse, PublishEntry, WithdrawEntry, archiveVars

\* Nobody but an operator who forces it takes a second snapshot of a day, with
\* any number of servers and the command awake at once; a cycle that straddles
\* midnight is excepted (snapshot-scheduler.ts: "One snapshot per UTC day").
THEOREM OneSnapshotOfADay == ArchiveSpec => []OnePerDay
<1>1. ArchiveInit => FirstOfItsDay /\ OnePerDay
  BY DEF ArchiveInit, FirstOfItsDay, OnePerDay, In, NoCycle
<1>2. ArchiveTypeOK /\ Locking /\ FirstOfItsDay /\ OnePerDay /\ [ArchiveNext]_archiveVars
      => FirstOfItsDay' /\ OnePerDay'
  <2> SUFFICES ASSUME ArchiveTypeOK, Locking, FirstOfItsDay, OnePerDay, [ArchiveNext]_archiveVars
               PROVE  OnePerDay'
    BY FirstKept
  <2>1. CASE UNCHANGED <<snapshots, taken>>
    BY <2>1 DEF OnePerDay, Straddled
  <2>2. ASSUME NEW p \in Scribes, CommitSnapshot(p) PROVE OnePerDay'
    <3>1. PICK n \in Nat \ {0} :
          /\ DOMAIN snapshots' = 1..n /\ DOMAIN snapshots = 1..(n - 1)
          /\ \A i \in 1..(n - 1) : snapshots'[i] = snapshots[i]
          /\ snapshots'[n].at = cycle[p].at /\ snapshots'[n].day = cycle[p].day
          /\ snapshots'[n].force = cycle[p].force
          /\ ~cycle[p].force => TakenOn(cycle[p].day) = {}
      BY <2>2, CommitAdds
    <3>2. ASSUME NEW i \in 1..(n - 1), Day(snapshots'[i].at) = Day(snapshots'[n].at),
                 ~snapshots'[n].force, ~Straddled(n)'
          PROVE  FALSE
      <4>1. Day(snapshots[i].at) = cycle[p].day
        BY <3>1, <3>2 DEF Straddled
      <4>2. i \in TakenOn(cycle[p].day)
        BY <3>1, <4>1 DEF TakenOn
      <4> QED BY <3>1, <3>2, <4>2
    <3>3. \A i \in 1..(n - 1) : Straddled(i)' <=> Straddled(i)
      BY <3>1 DEF Straddled
    <3>4. ASSUME NEW i \in 1..n, NEW j \in 1..n, i # j, Day(snapshots'[i].at) = Day(snapshots'[j].at)
          PROVE  \E k \in {i, j} : snapshots'[k].force \/ Straddled(k)'
      <4>1. CASE i = n \/ j = n
        BY <3>2, <3>4, <4>1
      <4>2. CASE i # n /\ j # n
        <5>1. i \in 1..(n - 1) /\ j \in 1..(n - 1)
          BY <4>2
        <5>2. PICK k \in {i, j} : snapshots[k].force \/ Straddled(k)
          BY <3>1, <3>4, <5>1 DEF OnePerDay
        <5> QED BY <3>1, <3>3, <5>1, <5>2
      <4> QED BY <4>1, <4>2
    <3> QED BY <3>1, <3>4 DEF OnePerDay
  <2> QED BY <2>1, <2>2, OnlyCommits
<1> QED BY <1>1, <1>2, ArchiveLocks, PTL DEF ArchiveSpec

\* Of a day's snapshots, one was taken last.
LEMMA OneIsLast ==
  ASSUME NEW s \in Seq(Snapshot), NEW S \in SUBSET DOMAIN s, S # {}
  PROVE  \E i \in S : \A j \in S : s[j].at <= s[i].at
<1>1. \A i \in S : s[i].at \in 0..LastMoment
  <2>1. \A i \in DOMAIN s : s[i] \in Snapshot
    OBVIOUS
  <2> QED BY <2>1 DEF Snapshot
<1> DEFINE D == {LastMoment - s[i].at : i \in S}
<1>2. PICK T : T = D
  OBVIOUS
<1>3. T \in SUBSET Nat /\ T # {}
  <2>1. \A i \in S : LastMoment - s[i].at \in Nat
    BY <1>1, ArchiveConstants
  <2> QED BY <1>2, <2>1
<1>4. PICK x \in T : \A y \in T : x <= y
  BY <1>3, LeastOf
<1>5. PICK i \in S : x = LastMoment - s[i].at
  BY <1>2, <1>4
<1>6. ASSUME NEW j \in S PROVE s[j].at <= s[i].at
  <2>1. LastMoment - s[i].at <= LastMoment - s[j].at
    BY <1>2, <1>4, <1>5
  <2> QED BY <1>1, <2>1, ArchiveConstants
<1> QED BY <1>6

\* The ledger after a commit: the row of the day names the new snapshot, and
\* the other rows are as they were, unless the new one is of another day than
\* its cycle began on.
LEMMA LedgerAfterCommit ==
  ASSUME ArchiveTypeOK, Locking, FirstOfItsDay, LedgerNamesAnswer,
         NEW p \in Scribes, CommitSnapshot(p)
  PROVE  LedgerNamesAnswer'
<1>1. PICK n \in Nat \ {0} :
        /\ snapshots' \in Seq(Snapshot)
        /\ DOMAIN snapshots' = 1..n /\ DOMAIN snapshots = 1..(n - 1) /\ Len(snapshots) = n - 1
        /\ \A i \in 1..(n - 1) : snapshots'[i] = snapshots[i]
        /\ snapshots'[n].at = cycle[p].at /\ snapshots'[n].day = cycle[p].day
        /\ snapshots'[n].force = cycle[p].force /\ cycle[p].force \in BOOLEAN
        /\ cycle[p].day \in Days
        /\ ~cycle[p].force => TakenOn(cycle[p].day) = {}
        /\ taken' = [taken EXCEPT ![cycle[p].day] = n]
  BY CommitAdds
<1>2. ASSUME NEW d \in Days
      PROVE  \A i \in 1..(n - 1) : i \in TakenOn(d)' <=> i \in TakenOn(d)
  BY <1>1 DEF TakenOn
<1>3. \A i \in 1..(n - 1) : Straddled(i)' <=> Straddled(i)
  BY <1>1 DEF Straddled
<1>4. \A d \in Days : n \in TakenOn(d)' <=> Day(snapshots'[n].at) = d
  BY <1>1 DEF TakenOn
<1>5. ASSUME NEW d \in Days, taken'[d] # 0
      PROVE  \/ taken'[d] \in Answers(d)'
             \/ \E i \in TakenOn(d)' \cup {taken'[d]} : Straddled(i)'
             \/ snapshots'[taken'[d]].force /\ \E i \in 1..taken'[d] - 1 : i \in Answers(d)'
  <2>1. CASE d = cycle[p].day
    <3>1. taken'[d] = n
      BY <1>1, <2>1 DEF ArchiveTypeOK
    <3>2. CASE Straddled(n)'
      BY <3>1, <3>2
    <3>3. CASE ~Straddled(n)'
      <4>1. n \in TakenOn(d)'
        BY <1>1, <1>4, <2>1, <3>3 DEF Straddled
      <4>2. CASE ~cycle[p].force
        <5>1. \A i \in TakenOn(d)' : i = n
          BY <1>1, <1>2, <2>1, <4>2 DEF TakenOn
        <5>2. snapshots'[n].at <= snapshots'[n].at
          <6>1. snapshots'[n].at \in Nat
            BY <1>1 DEF ArchiveTypeOK, Cycle
          <6> QED BY <6>1
        <5>3. n \in Answers(d)'
          BY <4>1, <5>1, <5>2 DEF Answers
        <5> QED BY <3>1, <5>3
      <4>3. CASE cycle[p].force
        <5>1. TakenOn(d)' \in SUBSET DOMAIN snapshots' /\ TakenOn(d)' # {}
          BY <4>1 DEF TakenOn
        <5>2. PICK i \in TakenOn(d)' : \A j \in TakenOn(d)' : snapshots'[j].at <= snapshots'[i].at
          BY <1>1, <5>1, OneIsLast
        <5>3. i \in Answers(d)' /\ i \in 1..n
          BY <1>1, <5>2 DEF Answers, TakenOn
        <5>4. CASE i = n
          BY <3>1, <5>3, <5>4
        <5>5. CASE i # n
          <6>1. i \in 1..taken'[d] - 1
            BY <3>1, <5>3, <5>5
          <6>2. snapshots'[taken'[d]].force
            BY <1>1, <3>1, <4>3
          <6> QED BY <5>3, <6>1, <6>2
        <5> QED BY <5>4, <5>5
      <4> QED BY <1>1, <4>2, <4>3
    <3> QED BY <3>2, <3>3
  <2>2. CASE d # cycle[p].day
    <3>1. taken'[d] = taken[d] /\ taken[d] \in 1..(n - 1)
      BY <1>1, <1>5, <2>2 DEF ArchiveTypeOK
    <3>2. CASE Day(snapshots'[n].at) = d
      BY <1>1, <1>4, <2>2, <3>2 DEF Straddled
    <3>3. CASE Day(snapshots'[n].at) # d
      <4>1. TakenOn(d)' = TakenOn(d) /\ TakenOn(d) \subseteq 1..(n - 1)
        <5>1. TakenOn(d)' \subseteq 1..(n - 1)
          BY <1>1, <1>4, <3>3 DEF TakenOn
        <5>2. TakenOn(d) \subseteq 1..(n - 1)
          BY <1>1 DEF TakenOn
        <5> QED BY <1>2, <5>1, <5>2
      <4>2. Answers(d)' = Answers(d)
        BY <1>1, <4>1 DEF Answers
      <4> QED BY <1>1, <1>3, <3>1, <4>1, <4>2 DEF LedgerNamesAnswer
    <3> QED BY <3>2, <3>3
  <2> QED BY <2>1, <2>2
<1> QED BY <1>5 DEF LedgerNamesAnswer

\* The ledger names for a day what the archive serves for it, unless a cycle
\* straddled midnight, or a forced one began before the one it displaced
\* (snapshot-scheduler.ts: recordSnapshotRun).
THEOREM LedgerNamesWhatIsServed == ArchiveSpec => []LedgerNamesAnswer
<1>1. ArchiveInit => FirstOfItsDay /\ LedgerNamesAnswer
  BY DEF ArchiveInit, FirstOfItsDay, LedgerNamesAnswer, In, NoCycle
<1>2. ArchiveTypeOK /\ Locking /\ FirstOfItsDay /\ LedgerNamesAnswer /\ [ArchiveNext]_archiveVars
      => FirstOfItsDay' /\ LedgerNamesAnswer'
  <2> SUFFICES ASSUME ArchiveTypeOK, Locking, FirstOfItsDay, LedgerNamesAnswer,
                      [ArchiveNext]_archiveVars
               PROVE  LedgerNamesAnswer'
    BY FirstKept
  <2>1. CASE UNCHANGED <<snapshots, taken>>
    BY <2>1 DEF LedgerNamesAnswer, Answers, TakenOn, Straddled
  <2> QED BY <2>1, LedgerAfterCommit, OnlyCommits
<1> QED BY <1>1, <1>2, ArchiveLocks, PTL DEF ArchiveSpec
=============================================================================
