--------------------------- MODULE DocumentsProofs ---------------------------
(***************************************************************************)
(* The stage handlers and the versions of a document: numbers without a    *)
(* gap, a recorded state for what was fetched, and agenda items that reach *)
(* the version they were parsed for. The inductive invariant is Handled,   *)
(* which says what a handler knows at each of its awaits, and what the row *)
(* lock makes of the version number.                                       *)
(***************************************************************************)
EXTENDS Documents, FiniteSetTheorems, TLAPS

\* Where a handler has stored what it fetched.
FetchPcs == {"stored", "locked", "versioned", "observed"}
\* Where a handler is at a parse.
ParsePcs == {"parsing", "indexed", "listed"}

\* A handler knows its document, from the answer on its content, and once that
\* is stored, that it is; a parse job is of stored bytes.
WorkKnows ==
  /\ \A w \in Workers :
       /\ work[w].pc # "idle" => Doc(w) \in Docs
       /\ work[w].pc \notin {"idle", "asked"} => Content(w) \in Contents
       /\ work[w].pc \in FetchPcs \cup ParsePcs => Content(w) \in artifacts
  /\ \A c \in Contents : parses[c].at # "none" => parses[c].doc \in Docs /\ c \in artifacts

\* The idle handler, and the meeting of a document.
LEMMA DocumentShapes ==
  /\ Idle \in Work /\ Idle.pc = "idle" /\ Idle.doc = Nothing /\ Idle.content = Nothing
  /\ Idle.new = FALSE /\ Idle.no = 0 /\ Idle.carried = FALSE
  /\ \A d \in Docs : Meeting[d] \in Meetings
BY DEF Idle, Work, Meetings

\* A step of w's handler that changes no table but, perhaps, the status of a
\* document.
LEMMA WorkTyped ==
  ASSUME TypeOK, WorkKnows, NEW w \in Workers, NEW k \in Work, work' = [work EXCEPT ![w] = k],
         k.pc # "idle" => k.doc \in Docs,
         k.pc \notin {"idle", "asked"} => k.content \in Contents,
         k.pc \in FetchPcs \cup ParsePcs => k.content \in artifacts'
  PROVE  /\ work' \in [Workers -> Work]
         /\ artifacts \subseteq artifacts' =>
              \A u \in Workers :
                /\ work'[u].pc # "idle" => work'[u].doc \in Docs
                /\ work'[u].pc \notin {"idle", "asked"} => work'[u].content \in Contents
                /\ work'[u].pc \in FetchPcs \cup ParsePcs => work'[u].content \in artifacts'
<1>1. /\ work'[w] = k /\ \A u \in Workers : u # w => work'[u] = work[u]
      /\ work' \in [Workers -> Work]
  BY DEF TypeOK
<1> QED BY <1>1 DEF WorkKnows, Doc, Content

\* A handler ends.
LEMMA EndKnows ==
  ASSUME TypeOK, WorkKnows, NEW w \in Workers, work' = [work EXCEPT ![w] = Idle], artifacts' = artifacts,
         \A c \in Contents : parses'[c].at # "none" => parses'[c].doc \in Docs /\ c \in artifacts'
  PROVE  WorkKnows'
<1>1. work'[w] = Idle /\ \A u \in Workers : u # w => work'[u] = work[u]
  BY DEF TypeOK
<1>2. \A u \in Workers :
        /\ work'[u].pc # "idle" => work'[u].doc \in Docs
        /\ work'[u].pc \notin {"idle", "asked"} => work'[u].content \in Contents
        /\ work'[u].pc \in FetchPcs \cup ParsePcs => work'[u].content \in artifacts'
  BY <1>1, DocumentShapes DEF WorkKnows, Doc, Content, FetchPcs, ParsePcs
<1> QED BY <1>2 DEF WorkKnows, Doc, Content

\* S has k members, numbered 1 to k.
Numbers1To(S, k) ==
  /\ {v.no : v \in S} = 1..k
  /\ \A u, v \in S : u.no = v.no => u = v

\* The versions of a document are numbered from 1, each number once; who holds
\* the lock of its row has the number that comes next, and nobody else holds it.
Numbering ==
  /\ \A d \in Docs : \E k \in Nat : Numbers1To(versions[d], k)
  /\ \A w \in Workers : At(w, "locked") =>
       \E k \in Nat : work[w].no = k + 1 /\ Numbers1To(versions[Doc(w)], k)
  /\ \A u, w \in Workers : At(u, "locked") /\ At(w, "locked") /\ Doc(u) = Doc(w) => u = w

\* A worker that parses runs the job of its bytes, and nobody else does; a fetch
\* that found its bytes new is the only one, and they have no job yet.
Jobs ==
  /\ \A w \in Workers : work[w].pc \in ParsePcs =>
       parses[Content(w)].at = "running" /\ parses[Content(w)].doc = Doc(w)
  /\ \A u, w \in Workers :
       work[u].pc \in ParsePcs /\ work[w].pc \in ParsePcs /\ Content(u) = Content(w) => u = w
  /\ \A w \in Workers : work[w].pc \in FetchPcs /\ work[w].new => parses[Content(w)].at = "none"
  /\ \A u, w \in Workers :
       /\ work[u].pc \in FetchPcs /\ work[u].new
       /\ work[w].pc \in FetchPcs /\ work[w].new
       /\ Content(u) = Content(w)
       => u = w

\* As many versions as numbers.
LEMMA NumberedCount ==
  ASSUME NEW S, NEW k \in Nat, Numbers1To(S, k)
  PROVE  Cardinality(S) = k
<1> DEFINE f == [v \in S |-> v.no]
<1>1. f \in [S -> 1..k]
  BY DEF Numbers1To
<1>2. f \in Injection(S, 1..k)
  BY <1>1 DEF Numbers1To, Injection, IsInjective
<1>3. f \in Surjection(S, 1..k)
  BY <1>1 DEF Numbers1To, Surjection
<1>4. IsFiniteSet(1..k) /\ Cardinality(1..k) = k
  BY FS_Interval
<1> HIDE DEF f
<1>5. Cardinality(S) = Cardinality(1..k)
  BY <1>2, <1>3, <1>4, FS_Injection
<1> QED BY <1>4, <1>5

\* The number that comes next.
LEMMA NextIsNext ==
  ASSUME NEW d \in Docs, NEW k \in Nat, Numbers1To(versions[d], k)
  PROVE  NextNo(d) = k + 1
<1>1. Cardinality(versions[d]) = k
  BY NumberedCount
<1>2. \A v \in versions[d] : v.no \in 1..k
  BY DEF Numbers1To
<1>3. k > 0 => \E v \in versions[d] : v.no = k
  BY DEF Numbers1To
<1>4. k + 1 \in 1..k + 1 /\ \A v \in versions[d] : v.no < k + 1
  BY <1>2
<1>5. \A n \in 1..k + 1 : (\A v \in versions[d] : v.no < n) => n = k + 1
  BY <1>3
<1> QED BY <1>1, <1>4, <1>5 DEF NextNo

\* What unblocking changes: fetch jobs move from held to pending, and some
\* blocked parse jobs are pending again.
LEMMA BackAgain ==
  ASSUME TypeOK, Unblock
  PROVE  /\ UNCHANGED <<begun, artifacts, versions, status, texts, items, work, mishaps>>
         /\ fetches' \in [Docs -> Nat] /\ held' \in [Docs -> Nat]
         /\ \A d \in Docs : fetches'[d] + held'[d] = fetches[d] + held[d]
         /\ parses' \in [Contents -> [doc : Docs \cup {Nothing},
                                at : {"none", "pending", "running", "done", "blocked"}]]
         /\ \A c \in Contents : parses'[c] # parses[c] =>
              /\ parses[c].at = "blocked" /\ parses'[c].at = "pending"
              /\ parses'[c].doc = parses[c].doc
<1>1. PICK n \in [Docs -> 0..MaxFetches], C \in SUBSET {c \in Contents : parses[c].at = "blocked"} :
        /\ \A d \in Docs : n[d] <= held[d]
        /\ held' = [d \in Docs |-> held[d] - n[d]]
        /\ fetches' = [d \in Docs |-> fetches[d] + n[d]]
        /\ parses' = [c \in Contents |->
             IF c \in C THEN [parses[c] EXCEPT !.at = "pending"] ELSE parses[c]]
  BY DEF Unblock
<1>2. \A d \in Docs : fetches[d] \in Nat /\ held[d] \in Nat /\ n[d] \in Nat
  BY <1>1, DocumentConstants DEF TypeOK
<1>3. /\ fetches' \in [Docs -> Nat] /\ held' \in [Docs -> Nat]
      /\ \A d \in Docs : fetches'[d] + held'[d] = fetches[d] + held[d]
  BY <1>1, <1>2
<1>4. ASSUME NEW c \in Contents
      PROVE  /\ parses'[c] \in [doc : Docs \cup {Nothing},
                                at : {"none", "pending", "running", "done", "blocked"}]
             /\ parses'[c] # parses[c] =>
                  /\ parses[c].at = "blocked" /\ parses'[c].at = "pending"
                  /\ parses'[c].doc = parses[c].doc
  <2>1. PICK k : k = [parses[c] EXCEPT !.at = "pending"]
    OBVIOUS
  <2>2. /\ parses[c] \in [doc : Docs \cup {Nothing},
                          at : {"none", "pending", "running", "done", "blocked"}]
    BY DEF TypeOK
  <2>3. /\ k.at = "pending" /\ k.doc = parses[c].doc
        /\ k \in [doc : Docs \cup {Nothing},
                  at : {"none", "pending", "running", "done", "blocked"}]
    BY <2>1, <2>2
  <2>4. parses'[c] = parses[c] \/ (parses'[c] = k /\ parses[c].at = "blocked")
    BY <1>1, <2>1
  <2> QED BY <2>2, <2>3, <2>4
<1>5. parses' = [c \in Contents |-> parses'[c]]
  BY <1>1
<1>6. UNCHANGED <<begun, artifacts, versions, status, texts, items, work, mishaps>>
  BY DEF Unblock
<1>7. parses' \in [Contents -> [doc : Docs \cup {Nothing},
                                at : {"none", "pending", "running", "done", "blocked"}]]
  BY <1>4, <1>5
<1> QED BY <1>3, <1>4, <1>6, <1>7

\* Every step keeps the types and what a handler knows.
LEMMA TypesKept ==
  ASSUME TypeOK, WorkKnows, Numbering, Jobs, [Next]_vars
  PROVE  TypeOK' /\ WorkKnows'
<1> USE DocumentConstants, DocumentShapes
<1>2. TypeOK' /\ WorkKnows'
  <2>0. /\ \A w \in Workers : work[w] \in Work
        /\ mishaps \in 0..MaxMishaps /\ begun \in 0..MaxFetches
        /\ \A d \in Docs : fetches[d] \in Nat /\ held[d] \in Nat
    BY DEF TypeOK
  <2>1. ASSUME NEW d \in Docs, Discover(d) PROVE TypeOK' /\ WorkKnows'
    BY <2>1 DEF Discover, TypeOK, WorkKnows, Doc, Content
  <2>2. ASSUME NEW w \in Workers, NEW d \in Docs, ClaimFetch(w, d) PROVE TypeOK' /\ WorkKnows'
    <3>1. PICK k : k = [Idle EXCEPT !.pc = "asked", !.doc = d]
      OBVIOUS
    <3>2. k \in Work /\ k.pc = "asked" /\ k.doc = d
      BY <3>1 DEF Work, Idle
    <3>3. work' = [work EXCEPT ![w] = k]
      BY <2>2, <3>1 DEF ClaimFetch
    <3>4. fetches' \in [Docs -> Nat]
      BY <2>0, <2>2 DEF ClaimFetch, TypeOK
    <3>5. TypeOK'
      BY <2>2, <3>2, <3>3, <3>4 DEF ClaimFetch, TypeOK
    <3>6. WorkKnows'
      BY <2>2, <3>2, <3>3, WorkTyped DEF ClaimFetch, WorkKnows, Doc, Content, FetchPcs, ParsePcs
    <3> QED BY <3>5, <3>6
  <2>3. ASSUME NEW w \in Workers, Fetch(w) PROVE TypeOK' /\ WorkKnows'
    <3>1. PICK c \in MayServe[Doc(w)] : work' = [work EXCEPT ![w] = [@ EXCEPT !.pc = "got", !.content = c]]
      BY <2>3 DEF Fetch
    <3>2. Doc(w) \in Docs /\ c \in Contents
      BY <2>3, <3>1 DEF Fetch, WorkKnows, At
    <3>3. PICK k : k = [work[w] EXCEPT !.pc = "got", !.content = c]
      OBVIOUS
    <3>4. k \in Work /\ k.pc = "got" /\ k.doc = Doc(w) /\ k.content = c
      BY <2>0, <3>2, <3>3 DEF Work, Doc
    <3>5. work' = [work EXCEPT ![w] = k]
      BY <3>1, <3>3
    <3>6. TypeOK'
      BY <2>3, <3>4, <3>5 DEF Fetch, TypeOK
    <3>7. WorkKnows'
      BY <2>3, <3>2, <3>4, <3>5, WorkTyped DEF Fetch, WorkKnows, Doc, Content, FetchPcs, ParsePcs
    <3> QED BY <3>6, <3>7
  <2>4. ASSUME NEW w \in Workers, FetchUnavailable(w) PROVE TypeOK' /\ WorkKnows'
    <3>1. Doc(w) \in Docs /\ Kind[Doc(w)] = "transcript"
      BY <2>4 DEF FetchUnavailable, WorkKnows, At
    <3>2. TypeOK'
      BY <2>4, <3>1 DEF FetchUnavailable, TypeOK, Observed
    <3>3. WorkKnows'
      BY <2>4, WorkTyped DEF FetchUnavailable, WorkKnows, Doc, Content, FetchPcs, ParsePcs
    <3> QED BY <3>2, <3>3
  <2>5. ASSUME NEW w \in Workers, Store(w) PROVE TypeOK' /\ WorkKnows'
    <3>1. PICK k : k = [work[w] EXCEPT !.pc = "stored", !.new = IsNew(w)]
      OBVIOUS
    <3>2. Doc(w) \in Docs /\ Content(w) \in Contents /\ IsNew(w) \in BOOLEAN
      BY <2>5 DEF Store, WorkKnows, At, IsNew
    <3>3. k \in Work /\ k.pc = "stored" /\ k.doc = Doc(w) /\ k.content = Content(w)
      BY <2>0, <3>1, <3>2 DEF Work, Doc, Content
    <3>4. work' = [work EXCEPT ![w] = k] /\ artifacts' = artifacts \cup {Content(w)}
      BY <2>5, <3>1 DEF Store
    <3>5. TypeOK'
      BY <2>5, <3>2, <3>3, <3>4 DEF Store, TypeOK
    <3>6. WorkKnows'
      BY <2>5, <3>2, <3>3, <3>4, WorkTyped DEF Store, WorkKnows, Doc, Content, FetchPcs, ParsePcs
    <3> QED BY <3>5, <3>6
  <2>6. ASSUME NEW w \in Workers, LockDocument(w) PROVE TypeOK' /\ WorkKnows'
    <3>1. Doc(w) \in Docs /\ Content(w) \in Contents /\ Content(w) \in artifacts
      BY <2>6 DEF LockDocument, WorkKnows, At, FetchPcs
    <3>2. NextNo(Doc(w)) \in Nat /\ Snapshotted(Content(w)) \in BOOLEAN
      BY <3>1, NextIsNext DEF Numbering, Snapshotted
    <3>3. PICK k : k = IF Known(Doc(w), Content(w)) THEN [work[w] EXCEPT !.pc = "versioned"]
                       ELSE [work[w] EXCEPT !.pc = "locked", !.no = NextNo(Doc(w)),
                                            !.carried = Snapshotted(Content(w))]
      OBVIOUS
    <3>4. k \in Work /\ k.pc \in {"versioned", "locked"} /\ k.doc = Doc(w) /\ k.content = Content(w)
      <4>1. CASE Known(Doc(w), Content(w))
        BY <2>0, <3>3, <4>1 DEF Work, Doc, Content
      <4>2. CASE ~Known(Doc(w), Content(w))
        BY <2>0, <3>2, <3>3, <4>2 DEF Work, Doc, Content
      <4> QED BY <4>1, <4>2
    <3>5. work' = [work EXCEPT ![w] = k]
      BY <2>6, <3>3 DEF LockDocument
    <3>6. TypeOK'
      <4>1. work' \in [Workers -> Work]
        BY <3>4, <3>5 DEF TypeOK
      <4> HIDE <3>3
      <4> QED BY <2>6, <4>1 DEF LockDocument, TypeOK
    <3>7. WorkKnows'
      BY <2>6, <3>1, <3>4, <3>5, WorkTyped DEF LockDocument, WorkKnows, Doc, Content, FetchPcs, ParsePcs
    <3> QED BY <3>6, <3>7
  <2>7. ASSUME NEW w \in Workers, InsertVersion(w) PROVE TypeOK' /\ WorkKnows'
    <3>1. Doc(w) \in Docs /\ Content(w) \in Contents /\ Content(w) \in artifacts
      BY <2>7 DEF InsertVersion, WorkKnows, At, FetchPcs
    <3>2. PICK k : k = [work[w] EXCEPT !.pc = "versioned", !.no = 0, !.carried = FALSE]
      OBVIOUS
    <3>3. k \in Work /\ k.pc = "versioned" /\ k.doc = Doc(w) /\ k.content = Content(w)
      BY <2>0, <3>2 DEF Work, Doc, Content
    <3>4. work' = [work EXCEPT ![w] = k]
      BY <2>7, <3>2 DEF InsertVersion
    <3>5. PICK v : v = [artifact |-> Content(w), no |-> work[w].no, snapshot |-> work[w].carried]
      OBVIOUS
    <3>6. work[w].no \in Nat \ {0}
      BY <2>7 DEF InsertVersion, Numbering
    <3>7. v \in Version
      BY <2>0, <3>1, <3>5, <3>6 DEF Version, Work
    <3>8. versions' = [versions EXCEPT ![Doc(w)] = @ \cup {v}]
      BY <2>7, <3>5 DEF InsertVersion
    <3>9. versions' \in [Docs -> SUBSET Version]
      BY <3>1, <3>7, <3>8 DEF TypeOK
    <3>10. TypeOK'
      BY <2>7, <3>3, <3>4, <3>9 DEF InsertVersion, TypeOK
    <3>11. WorkKnows'
      BY <2>7, <3>1, <3>3, <3>4, WorkTyped DEF InsertVersion, WorkKnows, Doc, Content, FetchPcs, ParsePcs
    <3> QED BY <3>10, <3>11
  <2>8. ASSUME NEW w \in Workers, Observe(w) PROVE TypeOK' /\ WorkKnows'
    <3>1. Doc(w) \in Docs /\ Content(w) \in Contents /\ Content(w) \in artifacts
      BY <2>8 DEF Observe, WorkKnows, At, FetchPcs
    <3>2. PICK k : k = [work[w] EXCEPT !.pc = "observed"]
      OBVIOUS
    <3>3. k \in Work /\ k.pc = "observed" /\ k.doc = Doc(w) /\ k.content = Content(w)
      BY <2>0, <3>2 DEF Work, Doc, Content
    <3>4. work' = [work EXCEPT ![w] = k]
      BY <2>8, <3>2 DEF Observe
    <3>5. /\ status' \in [Docs -> Observed \cup {"none"}]
          /\ \A d \in Docs : Kind[d] \in {"agenda", "minutes"} => status'[d] = "none"
      BY <2>8, <3>1 DEF Observe, Records, Watched, TypeOK
    <3>6. TypeOK'
      <4>1. work' \in [Workers -> Work]
        BY <3>3, <3>4 DEF TypeOK
      <4>2. UNCHANGED <<fetches, held, begun, artifacts, versions, parses, texts, items, mishaps>>
        BY <2>8 DEF Observe
      <4> QED BY <3>5, <4>1, <4>2 DEF TypeOK
    <3>7. WorkKnows'
      BY <2>8, <3>1, <3>3, <3>4, WorkTyped DEF Observe, WorkKnows, Doc, Content, FetchPcs, ParsePcs
    <3> QED BY <3>6, <3>7
  <2>9. ASSUME NEW w \in Workers, EnqueueParse(w) PROVE TypeOK' /\ WorkKnows'
    <3>1. Doc(w) \in Docs /\ Content(w) \in Contents /\ Content(w) \in artifacts
      BY <2>9 DEF EnqueueParse, ParseDue, WorkKnows, At, FetchPcs
    <3>2. \/ parses' = parses
          \/ parses' = [parses EXCEPT ![Content(w)] = [doc |-> Doc(w), at |-> "pending"]]
      BY <2>9 DEF EnqueueParse
    <3>3. TypeOK'
      BY <2>9, <3>1, <3>2 DEF EnqueueParse, TypeOK
    <3>4. \A c \in Contents : parses'[c].at # "none" => parses'[c].doc \in Docs /\ c \in artifacts'
      BY <2>9, <3>1, <3>2 DEF EnqueueParse, TypeOK, WorkKnows
    <3>5. work' = [work EXCEPT ![w] = Idle] /\ artifacts' = artifacts
      BY <2>9 DEF EnqueueParse
    <3>6. WorkKnows'
      BY <3>4, <3>5, EndKnows
    <3> QED BY <3>3, <3>6
  <2>10. ASSUME NEW w \in Workers, NEW c \in Contents, ClaimParse(w, c) PROVE TypeOK' /\ WorkKnows'
    <3>1. parses[c].doc \in Docs /\ c \in artifacts
      BY <2>10 DEF ClaimParse, WorkKnows
    <3>2. PICK k : k = [Idle EXCEPT !.pc = "parsing", !.doc = parses[c].doc, !.content = c]
      OBVIOUS
    <3>3. k \in Work /\ k.pc = "parsing" /\ k.doc = parses[c].doc /\ k.content = c
      BY <3>1, <3>2 DEF Work, Idle
    <3>4. work' = [work EXCEPT ![w] = k] /\ parses' = [parses EXCEPT ![c].at = "running"]
      BY <2>10, <3>2 DEF ClaimParse
    <3>5. TypeOK'
      BY <2>10, <3>3, <3>4 DEF ClaimParse, TypeOK
    <3>6. \A b \in Contents : parses'[b].at # "none" => parses'[b].doc \in Docs /\ b \in artifacts'
      BY <2>10, <3>1, <3>4 DEF ClaimParse, TypeOK, WorkKnows
    <3>7. WorkKnows'
      BY <2>10, <3>1, <3>3, <3>4, <3>6, WorkTyped DEF ClaimParse, WorkKnows, Doc, Content, FetchPcs, ParsePcs
    <3> QED BY <3>5, <3>7
  \* A parse job of stored bytes changes its state.
  <2>p. ASSUME NEW w \in Workers, work[w].pc \in ParsePcs,
               NEW s \in {"none", "pending", "running", "done", "blocked"},
               parses' = [parses EXCEPT ![Content(w)].at = s] \/ parses' = parses,
               artifacts' = artifacts
        PROVE  /\ parses' \in [Contents -> [doc : Docs \cup {Nothing},
                                at : {"none", "pending", "running", "done", "blocked"}]]
               /\ \A b \in Contents : parses'[b].at # "none" => parses'[b].doc \in Docs /\ b \in artifacts'
    <3>1. /\ Content(w) \in Contents /\ Content(w) \in artifacts
          /\ parses[Content(w)].at = "running" /\ parses[Content(w)].doc = Doc(w)
      BY <2>p DEF Jobs, WorkKnows, ParsePcs
    <3>2. CASE parses' = parses
      BY <2>p, <3>2 DEF TypeOK, WorkKnows
    <3>3. CASE parses' = [parses EXCEPT ![Content(w)].at = s]
      <4>1. parses'[Content(w)] = [parses[Content(w)] EXCEPT !.at = s]
        BY <3>1, <3>3 DEF TypeOK
      <4>2. \A b \in Contents : b # Content(w) => parses'[b] = parses[b]
        BY <3>3 DEF TypeOK
      <4>3. \A b \in Contents : parses'[b].doc = parses[b].doc
        BY <4>1, <4>2 DEF TypeOK
      <4>4. parses[Content(w)].doc \in Docs
        BY <3>1 DEF WorkKnows
      <4>5. \A b \in Contents : parses'[b].at # "none" => parses'[b].doc \in Docs /\ b \in artifacts'
        BY <2>p, <3>1, <4>2, <4>3, <4>4 DEF WorkKnows
      <4>6. \A b \in Contents : parses'[b] \in [doc : Docs \cup {Nothing},
                                at : {"none", "pending", "running", "done", "blocked"}]
        BY <3>1, <4>1, <4>2 DEF TypeOK
      <4> QED BY <3>3, <4>5, <4>6 DEF TypeOK
    <3> QED BY <2>p, <3>2, <3>3
  <2>11. ASSUME NEW w \in Workers, IndexText(w) PROVE TypeOK' /\ WorkKnows'
    <3>1. /\ Doc(w) \in Docs /\ Content(w) \in Contents /\ Content(w) \in artifacts
          /\ work[w].pc \in ParsePcs
      BY <2>11 DEF IndexText, WorkKnows, At, ParsePcs
    <3>2. PICK s \in {"none", "pending", "running", "done", "blocked"} :
            parses' = [parses EXCEPT ![Content(w)].at = s] \/ parses' = parses
      BY <2>11 DEF IndexText
    <3>3. /\ parses' \in [Contents -> [doc : Docs \cup {Nothing},
                             at : {"none", "pending", "running", "done", "blocked"}]]
          /\ \A b \in Contents : parses'[b].at # "none" => parses'[b].doc \in Docs /\ b \in artifacts'
      BY <2>11, <2>p, <3>1, <3>2 DEF IndexText
    <3>4. PICK k \in {[work[w] EXCEPT !.pc = "indexed"], Idle} : work' = [work EXCEPT ![w] = k]
      BY <2>11 DEF IndexText
    <3>5. k \in Work /\ (k.pc # "idle" => k.doc = Doc(w) /\ k.content = Content(w))
      BY <2>0, <3>4 DEF Work, Doc, Content
    <3>6. texts' \subseteq artifacts' /\ artifacts' = artifacts
      BY <2>11, <3>1 DEF IndexText, TypeOK
    <3>7. /\ work' \in [Workers -> Work]
          /\ UNCHANGED <<fetches, held, begun, artifacts, versions, status, items, mishaps>>
      BY <2>11, <3>4, <3>5 DEF TypeOK, IndexText
    <3>8. TypeOK'
      BY <3>3, <3>6, <3>7 DEF TypeOK
    <3>9. WorkKnows'
      <4> HIDE <3>2
      <4>1. \A u \in Workers :
              /\ work'[u].pc # "idle" => work'[u].doc \in Docs
              /\ work'[u].pc \notin {"idle", "asked"} => work'[u].content \in Contents
              /\ work'[u].pc \in FetchPcs \cup ParsePcs => work'[u].content \in artifacts'
        BY <3>1, <3>4, <3>5, <3>6, WorkTyped DEF FetchPcs, ParsePcs
      <4> QED BY <3>3, <4>1 DEF WorkKnows, Doc, Content
    <3> QED BY <3>8, <3>9
  <2>12. ASSUME NEW w \in Workers, WriteItems(w) PROVE TypeOK' /\ WorkKnows'
    <3>1. Doc(w) \in Docs /\ Content(w) \in Contents /\ Content(w) \in artifacts
      BY <2>12 DEF WriteItems, WorkKnows, At, ParsePcs
    <3>2. PICK k : k = [work[w] EXCEPT !.pc = "listed"]
      OBVIOUS
    <3>3. k \in Work /\ k.pc = "listed" /\ k.doc = Doc(w) /\ k.content = Content(w)
      BY <2>0, <3>2 DEF Work, Doc, Content
    <3>4. work' = [work EXCEPT ![w] = k]
      BY <2>12, <3>2 DEF WriteItems
    <3>5. items' \in [Meetings -> [Numbers -> Contents \cup {Nothing}]]
      BY <2>12, <3>1 DEF WriteItems, TypeOK
    <3>6. work' \in [Workers -> Work]
      BY <3>3, <3>4 DEF TypeOK
    <3>7. UNCHANGED <<fetches, held, begun, artifacts, versions, status, parses, texts, mishaps>>
      BY <2>12 DEF WriteItems
    <3>8. TypeOK'
      BY <3>5, <3>6, <3>7 DEF TypeOK
    <3>9. WorkKnows'
      BY <2>12, <3>1, <3>3, <3>4, WorkTyped DEF WriteItems, WorkKnows, Doc, Content, FetchPcs, ParsePcs
    <3> QED BY <3>8, <3>9
  <2>13. ASSUME NEW w \in Workers, RecordSnapshot(w) PROVE TypeOK' /\ WorkKnows'
    <3>1. /\ Content(w) \in Contents /\ work[w].pc \in ParsePcs
      BY <2>13 DEF RecordSnapshot, WorkKnows, At, ParsePcs
    <3>2. /\ parses' = [parses EXCEPT ![Content(w)].at = "done"]
          /\ work' = [work EXCEPT ![w] = Idle]
          /\ UNCHANGED <<fetches, held, begun, artifacts, status, texts, items, mishaps>>
      BY <2>13 DEF RecordSnapshot
    <3>3. /\ parses' \in [Contents -> [doc : Docs \cup {Nothing},
                             at : {"none", "pending", "running", "done", "blocked"}]]
          /\ \A b \in Contents : parses'[b].at # "none" => parses'[b].doc \in Docs /\ b \in artifacts'
      BY <2>p, <3>1, <3>2
    <3>4. versions' \in [Docs -> SUBSET Version]
      <4>1. \A v \in Version : [v EXCEPT !.snapshot = TRUE] \in Version
        BY DEF Version
      <4> QED BY <2>13, <4>1 DEF RecordSnapshot, TypeOK
    <3>5. TypeOK'
      BY <3>2, <3>3, <3>4 DEF TypeOK
    <3>6. WorkKnows'
      BY <3>2, <3>3, EndKnows
    <3> QED BY <3>5, <3>6
  <2>14. ASSUME NEW w \in Workers, StopHalfway(w) PROVE TypeOK' /\ WorkKnows'
    <3>1. Doc(w) \in Docs
      BY <2>14 DEF StopHalfway, WorkKnows, At
    <3>2. mishaps' \in 0..MaxMishaps
      BY <2>0, <2>14 DEF StopHalfway
    <3>3. /\ work' = [work EXCEPT ![w] = Idle]
          /\ UNCHANGED <<begun, artifacts, versions, status, texts, items>>
      BY <2>14 DEF StopHalfway
    <3>4. fetches' \in [Docs -> Nat] /\ held' \in [Docs -> Nat]
      BY <2>0, <2>14, <3>1 DEF StopHalfway, Retry, TypeOK
    <3>5. /\ parses' \in [Contents -> [doc : Docs \cup {Nothing},
                             at : {"none", "pending", "running", "done", "blocked"}]]
          /\ \A b \in Contents : parses'[b].at # "none" => parses'[b].doc \in Docs /\ b \in artifacts'
      <4>1. CASE work[w].pc \in ParsePcs
        <5>1. PICK at \in {"pending", "blocked"} : parses' = [parses EXCEPT ![Content(w)].at = at]
          BY <2>14, <4>1 DEF StopHalfway, Retry, At, ParsePcs
        <5> QED BY <2>p, <3>3, <4>1, <5>1
      <4>2. CASE work[w].pc \notin ParsePcs
        <5>1. parses' = parses
          BY <2>14, <4>2 DEF StopHalfway, Retry, At, ParsePcs
        <5> QED BY <3>3, <5>1 DEF TypeOK, WorkKnows
      <4> QED BY <4>1, <4>2
    <3>6. TypeOK'
      BY <3>2, <3>3, <3>4, <3>5 DEF TypeOK
    <3>7. WorkKnows'
      BY <3>3, <3>5, EndKnows
    <3> QED BY <3>6, <3>7
  <2>15. ASSUME Unblock PROVE TypeOK' /\ WorkKnows'
    <3>1. /\ fetches' \in [Docs -> Nat] /\ held' \in [Docs -> Nat]
          /\ UNCHANGED <<begun, artifacts, versions, status, texts, items, work, mishaps>>
      BY <2>15, BackAgain
    <3>2. parses' \in [Contents -> [doc : Docs \cup {Nothing},
                              at : {"none", "pending", "running", "done", "blocked"}]]
      BY <2>15, BackAgain
    <3>3. \A c \in Contents : parses'[c].at # "none" => parses'[c].doc \in Docs /\ c \in artifacts'
      <4> SUFFICES ASSUME NEW c \in Contents, parses'[c].at # "none"
                   PROVE  parses'[c].doc \in Docs /\ c \in artifacts'
        OBVIOUS
      <4>1. parses[c].at # "none" /\ parses'[c].doc = parses[c].doc
        BY <2>15, BackAgain
      <4> QED BY <3>1, <4>1 DEF WorkKnows
    <3>4. TypeOK'
      BY <3>1, <3>2 DEF TypeOK
    <3>5. WorkKnows'
      BY <3>1, <3>3 DEF WorkKnows, Doc, Content
    <3> QED BY <3>4, <3>5
  <2>20. CASE UNCHANGED vars
    BY <2>20 DEF vars, TypeOK, WorkKnows, Doc, Content
  <2> QED BY <2>1, <2>2, <2>3, <2>4, <2>5, <2>6, <2>7, <2>8, <2>9, <2>10, <2>11, <2>12,
            <2>13, <2>14, <2>15, <2>20 DEF Next, ClaimSome, FetchStep, ParseStep
<1> QED BY <1>2

-----------------------------------------------------------------------------
(* The numbers of the versions.                                            *)

\* The next number continues the numbers 1..k.
LEMMA NumbersAdd ==
  ASSUME NEW S, NEW k \in Nat, Numbers1To(S, k), NEW v, v.no = k + 1
  PROVE  Numbers1To(S \cup {v}, k + 1)
<1>1. 1..k + 1 = (1..k) \cup {k + 1}
  OBVIOUS
<1>2. {u.no : u \in S \cup {v}} = {u.no : u \in S} \cup {k + 1}
  OBVIOUS
<1>3. \A u \in S : u.no \in 1..k
  BY DEF Numbers1To
<1>4. \A u \in S : u.no # k + 1
  BY <1>3
<1> QED BY <1>1, <1>2, <1>4 DEF Numbers1To

\* Filling a snapshot in leaves the numbers alone.
LEMMA NumbersMark ==
  ASSUME NEW S \in SUBSET Version, NEW k \in Nat, Numbers1To(S, k), NEW c,
         NEW T, T = {IF v.artifact = c THEN [v EXCEPT !.snapshot = TRUE] ELSE v : v \in S}
  PROVE  Numbers1To(T, k)
<1>1. \A v \in S : [v EXCEPT !.snapshot = TRUE].no = v.no
  BY DEF Version
<1>2. \A t \in T : \E v \in S :
        t = (IF v.artifact = c THEN [v EXCEPT !.snapshot = TRUE] ELSE v) /\ t.no = v.no
  BY <1>1
<1>3. \A v \in S : \E t \in T : t.no = v.no
  BY <1>1
<1>4. {t.no : t \in T} = {v.no : v \in S}
  <2>1. ASSUME NEW t \in T PROVE t.no \in {v.no : v \in S}
    <3>1. PICK v \in S : t.no = v.no
      BY <1>2
    <3> QED BY <3>1
  <2>2. ASSUME NEW v \in S PROVE v.no \in {t.no : t \in T}
    <3>1. PICK t \in T : t.no = v.no
      BY <1>3
    <3> QED BY <3>1
  <2> QED BY <2>1, <2>2
<1>5. ASSUME NEW t \in T, NEW u \in T, t.no = u.no PROVE t = u
  <2>1. PICK v \in S : t = (IF v.artifact = c THEN [v EXCEPT !.snapshot = TRUE] ELSE v) /\ t.no = v.no
    BY <1>2
  <2>2. PICK y \in S : u = (IF y.artifact = c THEN [y EXCEPT !.snapshot = TRUE] ELSE y) /\ u.no = y.no
    BY <1>2
  <2>3. v = y
    BY <1>5, <2>1, <2>2 DEF Numbers1To
  <2> QED BY <2>1, <2>2, <2>3
<1> QED BY <1>4, <1>5 DEF Numbers1To

\* A step that gives nobody a lock and leaves the versions.
LEMMA NumbersStay ==
  ASSUME Numbering, versions' = versions,
         \A u \in Workers : work'[u].pc = "locked" => work'[u] = work[u]
  PROVE  Numbering'
BY DEF Numbering, At, Doc

\* Every step keeps the numbering: only the holder of the document's lock
\* inserts a version, under the number it read.
LEMMA NumberingKept ==
  ASSUME TypeOK, WorkKnows, Numbering, [Next]_vars
  PROVE  Numbering'
<1> USE DocumentShapes
<1>0. work \in [Workers -> Work]
  BY DEF TypeOK
<1>1. ASSUME NEW d \in Docs, Discover(d) PROVE Numbering'
  BY <1>1, NumbersStay DEF Discover
<1>2. ASSUME NEW w \in Workers, NEW d \in Docs, ClaimFetch(w, d) PROVE Numbering'
  BY <1>0, <1>2, NumbersStay DEF ClaimFetch, Idle
<1>3. ASSUME NEW w \in Workers, Fetch(w) PROVE Numbering'
  <2>1. \A u \in Workers : work'[u].pc = "locked" => work'[u] = work[u]
    BY <1>0, <1>3 DEF Fetch, Work
  <2> QED BY <1>3, <2>1, NumbersStay DEF Fetch
<1>4. ASSUME NEW w \in Workers, FetchUnavailable(w) PROVE Numbering'
  BY <1>0, <1>4, NumbersStay DEF FetchUnavailable
<1>5. ASSUME NEW w \in Workers, Store(w) PROVE Numbering'
  <2>1. \A u \in Workers : work'[u].pc = "locked" => work'[u] = work[u]
    BY <1>0, <1>5 DEF Store, Work
  <2> QED BY <1>5, <2>1, NumbersStay DEF Store
<1>6. ASSUME NEW w \in Workers, LockDocument(w) PROVE Numbering'
  <2>1. Doc(w) \in Docs /\ versions' = versions
    BY <1>6 DEF LockDocument, WorkKnows, At
  <2>2. /\ \A u \in Workers : u # w => work'[u] = work[u]
        /\ work'[w] = IF Known(Doc(w), Content(w)) THEN [work[w] EXCEPT !.pc = "versioned"]
                      ELSE [work[w] EXCEPT !.pc = "locked", !.no = NextNo(Doc(w)),
                                           !.carried = Snapshotted(Content(w))]
    BY <1>0, <1>6 DEF LockDocument
  <2>3. CASE Known(Doc(w), Content(w))
    <3>1. work'[w].pc = "versioned"
      BY <1>0, <2>2, <2>3 DEF Work
    <3> QED BY <2>1, <2>2, <3>1, NumbersStay
  <2>4. CASE ~Known(Doc(w), Content(w))
    <3>1. work'[w].no = NextNo(Doc(w)) /\ work'[w].doc = Doc(w)
      BY <1>0, <2>2, <2>4 DEF Work, Doc
    <3>2. PICK k \in Nat : Numbers1To(versions[Doc(w)], k)
      BY <2>1 DEF Numbering
    <3>3. NextNo(Doc(w)) = k + 1
      BY <2>1, <3>2, NextIsNext
    <3>4. \A u \in Workers : ~(At(u, "locked") /\ Doc(u) = Doc(w))
      BY <1>6 DEF LockDocument, RowFree
    <3>5. \A u \in Workers : u # w => (At(u, "locked"))' = At(u, "locked") /\ work'[u] = work[u]
      BY <2>2 DEF At
    <3>6. (\A d \in Docs : \E n \in Nat : Numbers1To(versions[d], n))'
      BY <2>1 DEF Numbering
    <3>7. (\A u \in Workers : At(u, "locked") =>
            \E n \in Nat : work[u].no = n + 1 /\ Numbers1To(versions[Doc(u)], n))'
      BY <2>1, <2>2, <3>1, <3>2, <3>3 DEF Numbering, At, Doc
    <3>8. (\A u, v \in Workers : At(u, "locked") /\ At(v, "locked") /\ Doc(u) = Doc(v) => u = v)'
      <4>1. \A u \in Workers : u # w /\ work'[u].pc = "locked" =>
              work'[u] = work[u] /\ work'[u].doc # Doc(w)
        BY <2>2, <3>4 DEF At, Doc
      <4>2. \A u, v \in Workers : u # w /\ v # w /\ work'[u].pc = "locked" /\ work'[v].pc = "locked"
                                 /\ work'[u].doc = work'[v].doc => u = v
        BY <4>1 DEF Numbering, At, Doc
      <4>3. work'[w].doc = Doc(w)
        BY <3>1
      <4> HIDE <2>2
      <4> QED BY <4>1, <4>2, <4>3 DEF At, Doc
    <3> QED BY <3>6, <3>7, <3>8 DEF Numbering
  <2> QED BY <2>3, <2>4
<1>7. ASSUME NEW w \in Workers, InsertVersion(w) PROVE Numbering'
  <2>1. Doc(w) \in Docs /\ At(w, "locked")
    BY <1>7 DEF InsertVersion, WorkKnows, At
  <2>2. PICK k \in Nat : work[w].no = k + 1 /\ Numbers1To(versions[Doc(w)], k)
    BY <2>1 DEF Numbering
  <2>3. PICK v : v = [artifact |-> Content(w), no |-> work[w].no, snapshot |-> work[w].carried]
    OBVIOUS
  <2>4. versions' = [versions EXCEPT ![Doc(w)] = @ \cup {v}] /\ v.no = k + 1
    BY <1>7, <2>2, <2>3 DEF InsertVersion
  <2>5. Numbers1To(versions[Doc(w)] \cup {v}, k + 1)
    BY <2>2, <2>4, NumbersAdd
  <2>6. /\ versions'[Doc(w)] = versions[Doc(w)] \cup {v}
        /\ \A d \in Docs : d # Doc(w) => versions'[d] = versions[d]
    BY <2>1, <2>4 DEF TypeOK
  <2>7. (\A d \in Docs : \E n \in Nat : Numbers1To(versions[d], n))'
    <3> SUFFICES ASSUME NEW d \in Docs PROVE \E n \in Nat : Numbers1To(versions'[d], n)
      OBVIOUS
    <3>1. CASE d = Doc(w)
      <4>1. versions'[d] = versions[Doc(w)] \cup {v} /\ k + 1 \in Nat
        BY <2>6, <3>1
      <4> QED BY <2>5, <4>1
    <3>2. CASE d # Doc(w)
      BY <2>6, <3>2 DEF Numbering
    <3> QED BY <3>1, <3>2
  <2>8. /\ \A u \in Workers : u # w => work'[u] = work[u]
        /\ work'[w].pc = "versioned"
    BY <1>0, <1>7 DEF InsertVersion, Work
  <2>9. \A u \in Workers : work'[u].pc = "locked" =>
          work'[u] = work[u] /\ work[u].doc \in Docs /\ work[u].doc # Doc(w)
    BY <2>1, <2>8 DEF Numbering, WorkKnows, At, Doc
  <2>10. (\A u \in Workers : At(u, "locked") =>
            \E n \in Nat : work[u].no = n + 1 /\ Numbers1To(versions[Doc(u)], n))'
    BY <2>6, <2>9 DEF Numbering, At, Doc
  <2>11. (\A u, y \in Workers : At(u, "locked") /\ At(y, "locked") /\ Doc(u) = Doc(y) => u = y)'
    BY <2>9 DEF Numbering, At, Doc
  <2> QED BY <2>7, <2>10, <2>11 DEF Numbering
<1>8. ASSUME NEW w \in Workers, Observe(w) PROVE Numbering'
  <2>1. \A u \in Workers : work'[u].pc = "locked" => work'[u] = work[u]
    BY <1>0, <1>8 DEF Observe, Work
  <2> QED BY <1>8, <2>1, NumbersStay DEF Observe
<1>9. ASSUME NEW w \in Workers, EnqueueParse(w) PROVE Numbering'
  BY <1>0, <1>9, NumbersStay DEF EnqueueParse
<1>10. ASSUME NEW w \in Workers, NEW c \in Contents, ClaimParse(w, c) PROVE Numbering'
  <2>1. \A u \in Workers : work'[u].pc = "locked" => work'[u] = work[u]
    BY <1>0, <1>10 DEF ClaimParse, Idle
  <2> QED BY <1>10, <2>1, NumbersStay DEF ClaimParse
<1>11. ASSUME NEW w \in Workers, IndexText(w) PROVE Numbering'
  <2>1. \A u \in Workers : work'[u].pc = "locked" => work'[u] = work[u]
    BY <1>0, <1>11 DEF IndexText, Work
  <2> QED BY <1>11, <2>1, NumbersStay DEF IndexText
<1>12. ASSUME NEW w \in Workers, WriteItems(w) PROVE Numbering'
  <2>1. \A u \in Workers : work'[u].pc = "locked" => work'[u] = work[u]
    BY <1>0, <1>12 DEF WriteItems, Work
  <2> QED BY <1>12, <2>1, NumbersStay DEF WriteItems
<1>13. ASSUME NEW w \in Workers, RecordSnapshot(w) PROVE Numbering'
  <2>1. \A d \in Docs : versions'[d] =
          {IF v.artifact = Content(w) THEN [v EXCEPT !.snapshot = TRUE] ELSE v : v \in versions[d]}
    BY <1>13 DEF RecordSnapshot, SnapshotReaches
  <2>2. \A d \in Docs : versions[d] \in SUBSET Version
    BY DEF TypeOK
  <2>3. \A d \in Docs, k \in Nat : Numbers1To(versions[d], k) => Numbers1To(versions'[d], k)
    <3> SUFFICES ASSUME NEW d \in Docs, NEW k \in Nat, Numbers1To(versions[d], k)
                 PROVE  Numbers1To(versions'[d], k)
      OBVIOUS
    <3>1. PICK S : S = versions[d]
      OBVIOUS
    <3>2. PICK T : T = versions'[d]
      OBVIOUS
    <3>3. PICK c : c = Content(w)
      OBVIOUS
    <3>4. T = {IF v.artifact = c THEN [v EXCEPT !.snapshot = TRUE] ELSE v : v \in S}
      BY <2>1, <3>1, <3>2, <3>3
    <3>5. S \in SUBSET Version /\ Numbers1To(S, k)
      BY <2>2, <3>1
    <3>6. Numbers1To(T, k)
      BY <3>4, <3>5, NumbersMark
    <3> QED BY <3>2, <3>6
  <2>4. \A u \in Workers : work'[u].pc = "locked" => work'[u] = work[u] /\ work[u].doc \in Docs
    BY <1>0, <1>13 DEF RecordSnapshot, WorkKnows, Doc
  <2>5. (\A d \in Docs : \E n \in Nat : Numbers1To(versions[d], n))'
    BY <2>3 DEF Numbering
  <2>6. (\A u \in Workers : At(u, "locked") =>
            \E n \in Nat : work[u].no = n + 1 /\ Numbers1To(versions[Doc(u)], n))'
    BY <2>3, <2>4 DEF Numbering, At, Doc
  <2>7. (\A u, y \in Workers : At(u, "locked") /\ At(y, "locked") /\ Doc(u) = Doc(y) => u = y)'
    BY <2>4 DEF Numbering, At, Doc
  <2> QED BY <2>5, <2>6, <2>7 DEF Numbering
<1>14. ASSUME NEW w \in Workers, StopHalfway(w) PROVE Numbering'
  <2>1. \A u \in Workers : work'[u].pc = "locked" => work'[u] = work[u]
    BY <1>0, <1>14 DEF StopHalfway
  <2> QED BY <1>14, <2>1, NumbersStay DEF StopHalfway
<1>15. ASSUME Unblock PROVE Numbering'
  BY <1>15, BackAgain, NumbersStay
<1>20. CASE UNCHANGED vars
  BY <1>20, NumbersStay DEF vars
<1> QED BY <1>1, <1>2, <1>3, <1>4, <1>5, <1>6, <1>7, <1>8, <1>9, <1>10, <1>11, <1>12,
          <1>13, <1>14, <1>15, <1>20 DEF Next, ClaimSome, FetchStep, ParseStep

-----------------------------------------------------------------------------
(* The parse jobs.                                                         *)

\* A handler goes on and its job does not change.
LEMMA JobsStay ==
  ASSUME TypeOK, Jobs, NEW w \in Workers, NEW k \in Work, work' = [work EXCEPT ![w] = k],
         parses' = parses,
         k.pc \in ParsePcs =>
           work[w].pc \in ParsePcs /\ k.content = Content(w) /\ k.doc = Doc(w),
         k.pc \in FetchPcs /\ k.new =>
           work[w].pc \in FetchPcs /\ work[w].new /\ k.content = Content(w)
  PROVE  Jobs'
<1>1. work'[w] = k /\ \A u \in Workers : u # w => work'[u] = work[u]
  BY DEF TypeOK
<1>2. \A u \in Workers : work'[u].pc \in ParsePcs =>
        work[u].pc \in ParsePcs /\ work'[u].content = work[u].content /\ work'[u].doc = work[u].doc
  BY <1>1 DEF Content, Doc
<1>3. \A u \in Workers : work'[u].pc \in FetchPcs /\ work'[u].new =>
        work[u].pc \in FetchPcs /\ work[u].new /\ work'[u].content = work[u].content
  BY <1>1 DEF Content, Doc
<1> QED BY <1>2, <1>3 DEF Jobs, Content, Doc

\* A handler of a parse job leaves it.
LEMMA JobsLeave ==
  ASSUME TypeOK, WorkKnows, Jobs, NEW w \in Workers, work[w].pc \in ParsePcs,
         work' = [work EXCEPT ![w] = Idle], NEW s, parses' = [parses EXCEPT ![Content(w)].at = s]
  PROVE  Jobs'
<1>1. work'[w] = Idle /\ \A u \in Workers : u # w => work'[u] = work[u]
  BY DEF TypeOK
<1>2. \A u \in Workers : work'[u].pc # "idle" => u # w /\ work'[u] = work[u]
  BY <1>1, DocumentShapes
<1>3. /\ \A c \in Contents : c # Content(w) => parses'[c] = parses[c]
      /\ \A u \in Workers : work[u].pc \in FetchPcs \cup ParsePcs => Content(u) \in Contents
  BY DEF TypeOK, WorkKnows, FetchPcs, ParsePcs
<1>4. \A u \in Workers : work'[u].pc \in ParsePcs =>
        u # w /\ work'[u] = work[u] /\ Content(u) # Content(w) /\ Content(u) \in Contents
  BY <1>2, <1>3 DEF Jobs, ParsePcs
<1>5. \A u \in Workers : work'[u].pc \in FetchPcs /\ work'[u].new =>
        work'[u] = work[u] /\ Content(u) # Content(w) /\ Content(u) \in Contents
  BY <1>2, <1>3 DEF Jobs, FetchPcs
<1> QED BY <1>3, <1>4, <1>5 DEF Jobs, Content, Doc

\* Every step keeps what a parse job knows of its document.
LEMMA JobsKept ==
  ASSUME TypeOK, WorkKnows, Jobs, [Next]_vars
  PROVE  Jobs'
<1> USE DocumentConstants, DocumentShapes
<1>0. work \in [Workers -> Work] /\ \A w \in Workers : work[w] \in Work
  BY DEF TypeOK
<1>1. ASSUME NEW d \in Docs, Discover(d) PROVE Jobs'
  BY <1>1 DEF Discover, Jobs, Content, Doc
<1>2. ASSUME NEW w \in Workers, NEW d \in Docs, ClaimFetch(w, d) PROVE Jobs'
  <2>1. PICK k : k = [Idle EXCEPT !.pc = "asked", !.doc = d]
    OBVIOUS
  <2>2. k \in Work /\ k.pc = "asked"
    BY <2>1 DEF Work, Idle
  <2>3. work' = [work EXCEPT ![w] = k] /\ parses' = parses
    BY <1>2, <2>1 DEF ClaimFetch
  <2> QED BY <2>2, <2>3, JobsStay DEF FetchPcs, ParsePcs
<1>3. ASSUME NEW w \in Workers, Fetch(w) PROVE Jobs'
  <2>1. PICK c \in MayServe[Doc(w)] : work' = [work EXCEPT ![w] = [@ EXCEPT !.pc = "got", !.content = c]]
    BY <1>3 DEF Fetch
  <2>2. c \in Contents
    BY <1>3, <2>1 DEF Fetch, WorkKnows, At
  <2>3. PICK k : k = [work[w] EXCEPT !.pc = "got", !.content = c]
    OBVIOUS
  <2>4. k \in Work /\ k.pc = "got"
    BY <1>0, <2>2, <2>3 DEF Work
  <2>5. work' = [work EXCEPT ![w] = k] /\ parses' = parses
    BY <1>3, <2>1, <2>3 DEF Fetch
  <2> QED BY <2>4, <2>5, JobsStay DEF FetchPcs, ParsePcs
<1>4. ASSUME NEW w \in Workers, FetchUnavailable(w) PROVE Jobs'
  BY <1>4, JobsStay DEF FetchUnavailable, FetchPcs, ParsePcs
<1>5. ASSUME NEW w \in Workers, Store(w) PROVE Jobs'
  <2>1. PICK k : k = [work[w] EXCEPT !.pc = "stored", !.new = IsNew(w)]
    OBVIOUS
  <2>2. k.pc = "stored" /\ k.content = Content(w) /\ k.new = IsNew(w)
    BY <1>0, <2>1 DEF Work, Content
  <2>3. work'[w] = k /\ \A u \in Workers : u # w => work'[u] = work[u]
    BY <1>0, <1>5, <2>1 DEF Store
  <2>4. Content(w) \in Contents /\ parses' = parses
    BY <1>5 DEF Store, WorkKnows, At
  <2>5. IsNew(w) => /\ parses[Content(w)].at = "none"
                    /\ \A u \in Workers : work[u].pc \in FetchPcs => Content(u) # Content(w)
    BY <2>4 DEF IsNew, WorkKnows
  <2>6. \A u \in Workers : work'[u].pc \in ParsePcs => work'[u] = work[u]
    BY <2>2, <2>3 DEF ParsePcs
  <2>7. \A u \in Workers : work'[u].pc \in FetchPcs /\ work'[u].new =>
          \/ u = w /\ IsNew(w) /\ work'[u].content = Content(w)
          \/ u # w /\ work'[u] = work[u] /\ (IsNew(w) => work'[u].content # Content(w))
    BY <2>2, <2>3, <2>5 DEF Content
  <2>8. (\A u, y \in Workers :
          /\ work[u].pc \in FetchPcs /\ work[u].new
          /\ work[y].pc \in FetchPcs /\ work[y].new
          /\ Content(u) = Content(y)
          => u = y)'
    BY <2>7 DEF Jobs, Content
  <2>9. (\A u \in Workers : work[u].pc \in FetchPcs /\ work[u].new => parses[Content(u)].at = "none")'
    BY <2>4, <2>5, <2>7 DEF Jobs, Content
  <2> QED BY <2>4, <2>6, <2>8, <2>9 DEF Jobs, Content, Doc
<1>6. ASSUME NEW w \in Workers, LockDocument(w) PROVE Jobs'
  <2>1. PICK k : k = work'[w]
    OBVIOUS
  <2>2. /\ work' = [work EXCEPT ![w] = k] /\ parses' = parses
        /\ k = IF Known(Doc(w), Content(w)) THEN [work[w] EXCEPT !.pc = "versioned"]
               ELSE [work[w] EXCEPT !.pc = "locked", !.no = NextNo(Doc(w)),
                                    !.carried = Snapshotted(Content(w))]
    BY <1>0, <1>6, <2>1 DEF LockDocument
  <2>3. k.pc \in {"versioned", "locked"} /\ k.content = Content(w) /\ k.new = work[w].new
    <3>1. CASE Known(Doc(w), Content(w))
      BY <1>0, <2>2, <3>1 DEF Work, Content
    <3>2. CASE ~Known(Doc(w), Content(w))
      BY <1>0, <2>2, <3>2 DEF Work, Content
    <3> QED BY <3>1, <3>2
  <2>4. work[w].pc = "stored"
    BY <1>6 DEF LockDocument, At
  <2>5. work'[w] = k /\ \A u \in Workers : u # w => work'[u] = work[u]
    BY <1>0, <2>2
  <2>6. \A u \in Workers : work'[u].pc \in ParsePcs => work'[u] = work[u]
    BY <2>3, <2>5 DEF ParsePcs
  <2>7. \A u \in Workers : work'[u].pc \in FetchPcs /\ work'[u].new =>
          work[u].pc \in FetchPcs /\ work[u].new /\ work'[u].content = work[u].content
    BY <2>3, <2>4, <2>5 DEF FetchPcs, Content
  <2>8. parses' = parses
    BY <2>2
  <2> QED BY <2>6, <2>7, <2>8 DEF Jobs, Content, Doc
<1>7. ASSUME NEW w \in Workers, InsertVersion(w) PROVE Jobs'
  <2>1. PICK k : k = [work[w] EXCEPT !.pc = "versioned", !.no = 0, !.carried = FALSE]
    OBVIOUS
  <2>2. k \in Work /\ k.pc = "versioned" /\ k.content = Content(w) /\ k.new = work[w].new
    BY <1>0, <2>1 DEF Work, Content
  <2>3. work' = [work EXCEPT ![w] = k] /\ parses' = parses /\ work[w].pc = "locked"
    BY <1>7, <2>1 DEF InsertVersion, At
  <2> QED BY <2>2, <2>3, JobsStay DEF FetchPcs, ParsePcs
<1>8. ASSUME NEW w \in Workers, Observe(w) PROVE Jobs'
  <2>1. PICK k : k = [work[w] EXCEPT !.pc = "observed"]
    OBVIOUS
  <2>2. k \in Work /\ k.pc = "observed" /\ k.content = Content(w) /\ k.new = work[w].new
    BY <1>0, <2>1 DEF Work, Content
  <2>3. work' = [work EXCEPT ![w] = k] /\ parses' = parses /\ work[w].pc = "versioned"
    BY <1>8, <2>1 DEF Observe, At
  <2> QED BY <2>2, <2>3, JobsStay DEF FetchPcs, ParsePcs
<1>9. ASSUME NEW w \in Workers, EnqueueParse(w) PROVE Jobs'
  <2>1. CASE work[w].new
    <3>1. /\ work[w].pc \in FetchPcs /\ Content(w) \in Contents
          /\ parses[Content(w)].at = "none"
      BY <1>9, <2>1 DEF EnqueueParse, ParseDue, At, FetchPcs, WorkKnows, Jobs
    <3>2. /\ work'[w] = Idle /\ \A u \in Workers : u # w => work'[u] = work[u]
          /\ \A c \in Contents : c # Content(w) => parses'[c] = parses[c]
      BY <1>9, <2>1 DEF EnqueueParse, TypeOK
    <3>3. \A u \in Workers : work[u].pc \in FetchPcs \cup ParsePcs => Content(u) \in Contents
      BY DEF WorkKnows, FetchPcs, ParsePcs
    <3>4. \A u \in Workers : work'[u].pc \in ParsePcs =>
            work'[u] = work[u] /\ Content(u) # Content(w) /\ Content(u) \in Contents
      BY <3>1, <3>2, <3>3 DEF Jobs, ParsePcs
    <3>5. \A u \in Workers : work'[u].pc \in FetchPcs /\ work'[u].new =>
            work'[u] = work[u] /\ Content(u) # Content(w) /\ Content(u) \in Contents
      BY <2>1, <3>1, <3>2, <3>3 DEF Jobs, FetchPcs
    <3> QED BY <3>2, <3>4, <3>5 DEF Jobs, Content, Doc
  <2>2. CASE ~work[w].new
    BY <1>9, <2>2, JobsStay DEF EnqueueParse, FetchPcs, ParsePcs
  <2> QED BY <2>1, <2>2
<1>10. ASSUME NEW w \in Workers, NEW c \in Contents, ClaimParse(w, c) PROVE Jobs'
  <2>1. PICK k : k = [Idle EXCEPT !.pc = "parsing", !.doc = parses[c].doc, !.content = c]
    OBVIOUS
  <2>2. k.pc = "parsing" /\ k.doc = parses[c].doc /\ k.content = c
    BY <2>1 DEF Idle
  <2>3. /\ work'[w] = k /\ \A u \in Workers : u # w => work'[u] = work[u]
        /\ parses[c].at = "pending" /\ parses'[c].at = "running" /\ parses'[c].doc = parses[c].doc
        /\ \A b \in Contents : b # c => parses'[b] = parses[b]
    BY <1>10, <2>1 DEF ClaimParse, TypeOK
  <2>4. \A u \in Workers : work[u].pc \in FetchPcs \cup ParsePcs => Content(u) \in Contents
    BY DEF WorkKnows, FetchPcs, ParsePcs
  <2>5. \A u \in Workers : work'[u].pc \in ParsePcs =>
          \/ u = w
          \/ work'[u] = work[u] /\ Content(u) # c /\ Content(u) \in Contents
    BY <2>3, <2>4 DEF Jobs
  <2>6. \A u \in Workers : work'[u].pc \in FetchPcs /\ work'[u].new =>
          work'[u] = work[u] /\ Content(u) # c /\ Content(u) \in Contents
    BY <2>2, <2>3, <2>4 DEF Jobs, FetchPcs
  <2> QED BY <2>2, <2>3, <2>5, <2>6 DEF Jobs, Content, Doc
<1>11. ASSUME NEW w \in Workers, IndexText(w) PROVE Jobs'
  <2>1. work[w].pc = "parsing"
    BY <1>11 DEF IndexText, At
  <2>2. CASE Kind[Doc(w)] = "agenda" /\ Indexed(Doc(w), Content(w))
    <3>1. PICK k : k = [work[w] EXCEPT !.pc = "indexed"]
      OBVIOUS
    <3>2. k \in Work /\ k.pc = "indexed" /\ k.content = Content(w) /\ k.doc = Doc(w)
      BY <1>0, <3>1 DEF Work, Content, Doc
    <3>3. work' = [work EXCEPT ![w] = k] /\ parses' = parses
      BY <1>11, <2>2, <3>1 DEF IndexText
    <3> QED BY <2>1, <3>2, <3>3, JobsStay DEF FetchPcs, ParsePcs
  <2>3. CASE ~(Kind[Doc(w)] = "agenda" /\ Indexed(Doc(w), Content(w)))
    <3>1. PICK s \in {"blocked", "done"} : parses' = [parses EXCEPT ![Content(w)].at = s]
      BY <1>11, <2>3 DEF IndexText
    <3>2. work' = [work EXCEPT ![w] = Idle]
      BY <1>11, <2>3 DEF IndexText
    <3> QED BY <2>1, <3>1, <3>2, JobsLeave DEF ParsePcs
  <2> QED BY <2>2, <2>3
<1>12. ASSUME NEW w \in Workers, WriteItems(w) PROVE Jobs'
  <2>1. PICK k : k = [work[w] EXCEPT !.pc = "listed"]
    OBVIOUS
  <2>2. k \in Work /\ k.pc = "listed" /\ k.content = Content(w) /\ k.doc = Doc(w)
    BY <1>0, <2>1 DEF Work, Content, Doc
  <2>3. work' = [work EXCEPT ![w] = k] /\ parses' = parses /\ work[w].pc = "indexed"
    BY <1>12, <2>1 DEF WriteItems, At
  <2> QED BY <2>2, <2>3, JobsStay DEF FetchPcs, ParsePcs
<1>13. ASSUME NEW w \in Workers, RecordSnapshot(w) PROVE Jobs'
  <2>1. work[w].pc = "listed" /\ work' = [work EXCEPT ![w] = Idle]
        /\ parses' = [parses EXCEPT ![Content(w)].at = "done"]
    BY <1>13 DEF RecordSnapshot, At
  <2> QED BY <2>1, JobsLeave DEF ParsePcs
<1>14. ASSUME NEW w \in Workers, StopHalfway(w) PROVE Jobs'
  <2>1. work' = [work EXCEPT ![w] = Idle]
    BY <1>14 DEF StopHalfway
  <2>2. CASE work[w].pc \in ParsePcs
    <3>1. PICK at \in {"pending", "blocked"} : parses' = [parses EXCEPT ![Content(w)].at = at]
      BY <1>14, <2>2 DEF StopHalfway, Retry, At, ParsePcs
    <3> QED BY <2>1, <2>2, <3>1, JobsLeave
  <2>3. CASE work[w].pc \notin ParsePcs
    <3>1. parses' = parses
      BY <1>14, <2>3 DEF StopHalfway, Retry, At, ParsePcs
    <3> QED BY <2>1, <3>1, JobsStay DEF FetchPcs, ParsePcs
  <2> QED BY <2>2, <2>3
<1>15. ASSUME Unblock PROVE Jobs'
  <2>1. /\ work' = work
        /\ \A c \in Contents :
             parses'[c] = parses[c] \/ parses[c].at = "blocked"
    BY <1>15, BackAgain
  <2>2. \A w \in Workers : work[w].pc \in FetchPcs \cup ParsePcs => Content(w) \in Contents
    BY DEF WorkKnows, FetchPcs, ParsePcs
  <2> QED BY <2>1, <2>2 DEF Jobs, Content, Doc
<1>20. CASE UNCHANGED vars
  BY <1>20 DEF vars, Jobs, Content, Doc
<1> QED BY <1>1, <1>2, <1>3, <1>4, <1>5, <1>6, <1>7, <1>8, <1>9, <1>10, <1>11, <1>12,
          <1>13, <1>14, <1>15, <1>20 DEF Next, ClaimSome, FetchStep, ParseStep

-----------------------------------------------------------------------------
(* The theorems.                                                           *)

\* What every step keeps, and the properties rest on.
Handled == TypeOK /\ WorkKnows /\ Numbering /\ Jobs

\* It holds of every behaviour.
LEMMA AlwaysHandled == Spec => []Handled
<1>1. Init => Handled
  <2> SUFFICES ASSUME Init PROVE Handled
    OBVIOUS
  <2>1. TypeOK
    BY DocumentConstants, DocumentShapes DEF Init, TypeOK
  <2>2. \A w \in Workers : work[w].pc = "idle"
    BY DocumentShapes DEF Init
  <2>3. WorkKnows
    BY <2>2 DEF Init, WorkKnows, FetchPcs, ParsePcs
  <2>4. Jobs
    BY <2>2 DEF Jobs, FetchPcs, ParsePcs
  <2>5. \A d \in Docs : Numbers1To(versions[d], 0)
    BY DEF Init, Numbers1To
  <2>6. Numbering
    BY <2>2, <2>5 DEF Numbering, At
  <2> QED BY <2>1, <2>3, <2>4, <2>6 DEF Handled
<1>2. Handled /\ [Next]_vars => Handled'
  BY TypesKept, NumberingKept, JobsKept DEF Handled
<1> QED BY <1>1, <1>2, PTL DEF Spec

\* Artifacts, versions, observations, parses and handlers keep their types,
\* while fetches overlap and handlers stop half-way (handlers.ts).
THEOREM DocumentsTypeCorrect == Spec => []TypeOK
<1>1. Handled => TypeOK
  BY DEF Handled
<1> QED BY <1>1, AlwaysHandled, PTL

\* The versions of a document are numbered without a gap or a repetition
\* although two fetches of it overlap: the number is read under the lock of the
\* document's row (handlers.ts: recordDocumentVersion).
THEOREM NumbersAreDense == Spec => []VersionsAreNumbered
<1>1. Handled => VersionsAreNumbered
  <2> SUFFICES ASSUME Handled, NEW d \in Docs
               PROVE  {v.no : v \in versions[d]} = 1..Cardinality(versions[d])
    BY DEF VersionsAreNumbered
  <2>1. PICK k \in Nat : Numbers1To(versions[d], k)
    BY DEF Handled, Numbering
  <2>2. Cardinality(versions[d]) = k
    BY <2>1, NumberedCount
  <2> QED BY <2>1, <2>2 DEF Numbers1To
<1> QED BY <1>1, AlwaysHandled, PTL

-----------------------------------------------------------------------------
(* What was seen is recorded.                                              *)

\* A fetch of d is queued or held.
Due(d) == fetches[d] > 0 \/ held[d] > 0

\* Its state is recorded, or a fetch that will record it is queued, held or
\* under way.
Attended(d) == status[d] # "none" \/ Due(d) \/ \E w \in Workers : Fetching(w, d)

\* A handler that fetches d and goes on as k.
LEMMA FetchingOn ==
  ASSUME TypeOK, NEW d \in Docs, Attended(d), NEW w \in Workers, NEW k,
         work' = [work EXCEPT ![w] = k], fetches' = fetches, held' = held, status' = status,
         Fetching(w, d) =>
           k.doc = d /\ k.pc \in {"asked", "got", "stored", "locked", "versioned"}
  PROVE  Attended(d)'
<1>1. work'[w] = k /\ \A u \in Workers : u # w => work'[u] = work[u]
  BY DEF TypeOK
<1>2. CASE status[d] # "none" \/ Due(d)
  BY <1>2 DEF Attended, Due
<1>3. ASSUME NEW u \in Workers, Fetching(u, d) PROVE Attended(d)'
  <2>1. Fetching(u, d)'
    BY <1>1, <1>3 DEF Fetching, Doc, At
  <2> QED BY <2>1 DEF Attended
<1> QED BY <1>2, <1>3 DEF Attended

\* A handler that does not fetch d ends.
LEMMA OthersFetch ==
  ASSUME TypeOK, NEW d \in Docs, Attended(d), NEW w \in Workers, ~Fetching(w, d),
         NEW k, work' = [work EXCEPT ![w] = k], Due(d) => Due(d)',
         status'[d] = status[d]
  PROVE  Attended(d)'
<1>1. \A u \in Workers : u # w => work'[u] = work[u]
  BY DEF TypeOK
<1>2. CASE status[d] # "none" \/ Due(d)
  BY <1>2 DEF Attended, Due
<1>3. ASSUME NEW u \in Workers, Fetching(u, d) PROVE Attended(d)'
  <2>1. Fetching(u, d)'
    BY <1>1, <1>3 DEF Fetching, Doc, At
  <2> QED BY <2>1 DEF Attended
<1> QED BY <1>2, <1>3 DEF Attended

\* A watched document that has versions keeps its state, or a handler or a
\* fetch still to come will record it.
LEMMA AttendedStays ==
  ASSUME TypeOK, WorkKnows, [Next]_vars, NEW d \in Docs, Watched(d), Attended(d)
  PROVE  Attended(d)'
<1> USE DocumentConstants, DocumentShapes
<1>0. /\ work \in [Workers -> Work] /\ \A w \in Workers : work[w] \in Work
      /\ \A e \in Docs : fetches[e] \in Nat /\ held[e] \in Nat
  BY DEF TypeOK
<1>1. ASSUME NEW e \in Docs, Discover(e) PROVE Attended(d)'
  <2>1. Due(d) => Due(d)'
    BY <1>0, <1>1 DEF Discover, TypeOK, Due
  <2> QED BY <1>1, <2>1 DEF Discover, Attended, Fetching, Doc, At
<1>2. ASSUME NEW w \in Workers, NEW e \in Docs, ClaimFetch(w, e) PROVE Attended(d)'
  <2>1. work'[w] = [Idle EXCEPT !.pc = "asked", !.doc = e]
    BY <1>0, <1>2 DEF ClaimFetch
  <2>2. work'[w].pc = "asked" /\ work'[w].doc = e
    BY <2>1 DEF Idle
  <2>3. CASE e = d
    <3>1. Fetching(w, d)'
      BY <2>2, <2>3 DEF Fetching, Doc, At
    <3> QED BY <3>1 DEF Attended
  <2>4. CASE e # d
    <3>1. ~Fetching(w, d)
      BY <1>2 DEF ClaimFetch, Fetching, At
    <3>2. (Due(d) => Due(d)') /\ status' = status
      BY <1>2, <2>4 DEF ClaimFetch, TypeOK, Due
    <3>3. PICK k : work' = [work EXCEPT ![w] = k]
      BY <1>2 DEF ClaimFetch
    <3> QED BY <1>0, <3>1, <3>2, <3>3, OthersFetch
  <2> QED BY <2>3, <2>4
<1>3. ASSUME NEW w \in Workers, Fetch(w) PROVE Attended(d)'
  <2>1. PICK c \in MayServe[Doc(w)] : work' = [work EXCEPT ![w] = [@ EXCEPT !.pc = "got", !.content = c]]
    BY <1>3 DEF Fetch
  <2>2. PICK k : k = [work[w] EXCEPT !.pc = "got", !.content = c]
    OBVIOUS
  <2>3. k.pc = "got" /\ k.doc = Doc(w)
    BY <1>0, <2>2 DEF Work, Doc
  <2>4. work' = [work EXCEPT ![w] = k] /\ UNCHANGED <<fetches, held, status>>
    BY <1>3, <2>1, <2>2 DEF Fetch
  <2> QED BY <2>3, <2>4, FetchingOn DEF Fetching
<1>4. ASSUME NEW w \in Workers, FetchUnavailable(w) PROVE Attended(d)'
  <2>1. CASE Doc(w) = d
    BY <1>4, <2>1 DEF FetchUnavailable, TypeOK, Attended
  <2>2. CASE Doc(w) # d
    <3>1. ~Fetching(w, d) /\ work' = [work EXCEPT ![w] = Idle]
      BY <1>4, <2>2 DEF FetchUnavailable, Fetching
    <3>2. (Due(d) => Due(d)') /\ status'[d] = status[d]
      BY <1>4, <2>2 DEF FetchUnavailable, TypeOK, Due
    <3> QED BY <1>0, <3>1, <3>2, OthersFetch
  <2> QED BY <2>1, <2>2
<1>5. ASSUME NEW w \in Workers, Store(w) PROVE Attended(d)'
  <2>1. PICK k : k = [work[w] EXCEPT !.pc = "stored", !.new = IsNew(w)]
    OBVIOUS
  <2>2. k.pc = "stored" /\ k.doc = Doc(w)
    BY <1>0, <2>1 DEF Work, Doc
  <2>3. work' = [work EXCEPT ![w] = k] /\ UNCHANGED <<fetches, held, status>>
    BY <1>5, <2>1 DEF Store
  <2> QED BY <2>2, <2>3, FetchingOn DEF Fetching
<1>6. ASSUME NEW w \in Workers, LockDocument(w) PROVE Attended(d)'
  <2>1. PICK k : k = IF Known(Doc(w), Content(w)) THEN [work[w] EXCEPT !.pc = "versioned"]
                     ELSE [work[w] EXCEPT !.pc = "locked", !.no = NextNo(Doc(w)),
                                          !.carried = Snapshotted(Content(w))]
    OBVIOUS
  <2>2. work' = [work EXCEPT ![w] = k] /\ UNCHANGED <<fetches, held, status>>
    BY <1>6, <2>1 DEF LockDocument
  <2>3. k.pc \in {"versioned", "locked"} /\ k.doc = Doc(w)
    <3>1. CASE Known(Doc(w), Content(w))
      BY <1>0, <2>1, <3>1 DEF Work, Doc
    <3>2. CASE ~Known(Doc(w), Content(w))
      BY <1>0, <2>1, <3>2 DEF Work, Doc
    <3> QED BY <3>1, <3>2
  <2> HIDE <2>1
  <2> QED BY <2>2, <2>3, FetchingOn DEF Fetching
<1>7. ASSUME NEW w \in Workers, InsertVersion(w) PROVE Attended(d)'
  <2>1. PICK k : k = [work[w] EXCEPT !.pc = "versioned", !.no = 0, !.carried = FALSE]
    OBVIOUS
  <2>2. k.pc = "versioned" /\ k.doc = Doc(w)
    BY <1>0, <2>1 DEF Work, Doc
  <2>3. work' = [work EXCEPT ![w] = k] /\ UNCHANGED <<fetches, held, status>>
    BY <1>7, <2>1 DEF InsertVersion
  <2> QED BY <2>2, <2>3, FetchingOn DEF Fetching
<1>8. ASSUME NEW w \in Workers, Observe(w) PROVE Attended(d)'
  <2>1. Content(w) \in Contents /\ Reading[Content(w)] # "none"
    BY <1>8 DEF Observe, WorkKnows, At, Observed
  <2>2. CASE Doc(w) = d
    <3>1. status' = [status EXCEPT ![d] = Reading[Content(w)]]
      BY <1>8, <2>2 DEF Observe, Records
    <3>2. status'[d] # "none"
      BY <2>1, <3>1 DEF TypeOK
    <3> QED BY <3>2 DEF Attended
  <2>3. CASE Doc(w) # d
    <3>1. ~Fetching(w, d)
      BY <2>3 DEF Fetching
    <3>2. PICK k : work' = [work EXCEPT ![w] = k]
      BY <1>8 DEF Observe
    <3>3. (Due(d) => Due(d)') /\ status'[d] = status[d]
      BY <1>8, <2>3 DEF Observe, TypeOK, Due
    <3> QED BY <1>0, <3>1, <3>2, <3>3, OthersFetch
  <2> QED BY <2>2, <2>3
<1>9. ASSUME NEW w \in Workers, EnqueueParse(w) PROVE Attended(d)'
  <2>1. ~Fetching(w, d) /\ work' = [work EXCEPT ![w] = Idle] /\ UNCHANGED <<fetches, held, status>>
    BY <1>9 DEF EnqueueParse, ParseDue, Fetching, At
  <2> QED BY <1>0, <2>1, OthersFetch DEF Due
<1>10. ASSUME NEW w \in Workers, NEW c \in Contents, ClaimParse(w, c) PROVE Attended(d)'
  <2>1. ~Fetching(w, d) /\ UNCHANGED <<fetches, held, status>>
    BY <1>10 DEF ClaimParse, Fetching, At
  <2>2. PICK k : work' = [work EXCEPT ![w] = k]
    BY <1>10 DEF ClaimParse
  <2> QED BY <1>0, <2>1, <2>2, OthersFetch DEF Due
<1>11. ASSUME NEW w \in Workers, ParseStep(w) PROVE Attended(d)'
  <2>1. ~Fetching(w, d) /\ UNCHANGED <<fetches, held, status>>
    BY <1>11 DEF ParseStep, IndexText, WriteItems, RecordSnapshot, Fetching, At
  <2>2. PICK k : work' = [work EXCEPT ![w] = k]
    BY <1>11 DEF ParseStep, IndexText, WriteItems, RecordSnapshot
  <2> QED BY <1>0, <2>1, <2>2, OthersFetch DEF Due
<1>12. ASSUME NEW w \in Workers, StopHalfway(w) PROVE Attended(d)'
  <2>1. work' = [work EXCEPT ![w] = Idle] /\ status' = status
    BY <1>12 DEF StopHalfway
  <2>2. CASE Fetching(w, d)
    <3>1. \/ fetches' = [fetches EXCEPT ![d] = @ + 1]
          \/ held' = [held EXCEPT ![d] = @ + 1]
      BY <1>12, <2>2 DEF StopHalfway, Retry, Fetching, At
    <3>2. Due(d)'
      BY <1>0, <3>1 DEF TypeOK, Due
    <3> QED BY <3>2 DEF Attended
  <2>3. CASE ~Fetching(w, d)
    <3>1. /\ fetches' = fetches \/ fetches' = [fetches EXCEPT ![Doc(w)] = @ + 1]
          /\ held' = held \/ held' = [held EXCEPT ![Doc(w)] = @ + 1]
      BY <1>12 DEF StopHalfway, Retry
    <3>2. fetches'[d] \in {fetches[d], fetches[d] + 1} /\ held'[d] \in {held[d], held[d] + 1}
      BY <1>0, <3>1 DEF TypeOK
    <3>3. Due(d) => Due(d)'
      BY <1>0, <3>2 DEF Due
    <3> QED BY <1>0, <2>1, <2>3, <3>3, OthersFetch
  <2> QED BY <2>2, <2>3
<1>13. ASSUME Unblock PROVE Attended(d)'
  <2>1. /\ status' = status /\ work' = work
        /\ fetches'[d] \in Nat /\ held'[d] \in Nat
        /\ fetches'[d] + held'[d] = fetches[d] + held[d]
    BY <1>13, BackAgain
  <2>2. Due(d) => Due(d)'
    BY <1>0, <2>1 DEF Due
  <2> QED BY <2>1, <2>2 DEF Attended, Fetching, Doc, At
<1>20. CASE UNCHANGED vars
  BY <1>20 DEF vars, Attended, Due, Fetching, Doc, At
<1> QED BY <1>1, <1>2, <1>3, <1>4, <1>5, <1>6, <1>7, <1>8, <1>9, <1>10, <1>11, <1>12,
          <1>13, <1>20 DEF Next, ClaimSome, FetchStep

\* Only a fetch that is under way gives a document its first version.
LEMMA FirstVersion ==
  ASSUME TypeOK, [Next]_vars, NEW d \in Docs, versions[d] = {}, versions'[d] # {}
  PROVE  Attended(d)
<1>1. ASSUME NEW w \in Workers, RecordSnapshot(w) PROVE FALSE
  BY <1>1 DEF RecordSnapshot
<1>2. ASSUME NEW w \in Workers, InsertVersion(w) PROVE Attended(d)
  <2>1. Doc(w) = d
    BY <1>2 DEF InsertVersion, TypeOK
  <2>2. Fetching(w, d)
    BY <1>2, <2>1 DEF InsertVersion, Fetching
  <2> QED BY <2>2 DEF Attended
<1>3. versions' # versions
  OBVIOUS
<1>4. \E w \in Workers : RecordSnapshot(w) \/ InsertVersion(w)
  BY <1>3 DEF Next, vars, ClaimSome, FetchStep, ParseStep, Discover, ClaimFetch, ClaimParse,
     Fetch, FetchUnavailable, Store, LockDocument, Observe, EnqueueParse, IndexText,
     WriteItems, StopHalfway, Unblock
<1> QED BY <1>1, <1>2, <1>4

\* A transcript or recording that was fetched has a recorded state unless a
\* fetch of it is under way, queued or held for a person, also when its bytes
\* were stored by the fetch of another meeting or a handler stopped half-way or
\* for good (handlers.ts: "outside the isNew branch").
THEOREM WhatWasSeenIsRecorded == Spec => []ObservationsRecorded
<1> DEFINE Inv == Handled /\ \A d \in Docs : Watched(d) /\ versions[d] # {} => Attended(d)
<1>1. Init => \A d \in Docs : versions[d] = {}
  BY DEF Init
<1>2. Handled /\ Inv /\ [Next]_vars /\ Handled' => Inv'
  <2> SUFFICES ASSUME Handled, Inv, [Next]_vars, Handled', NEW d \in Docs, Watched(d), versions'[d] # {}
               PROVE  Attended(d)'
    BY DEF Watched
  <2>1. Attended(d)
    BY FirstVersion DEF Handled
  <2> QED BY <2>1, AttendedStays DEF Handled
<1>3. Inv => ObservationsRecorded
  BY DEF ObservationsRecorded, Attended, Due, Handled, TypeOK
<1>4. Spec => []Inv
  <2>1. Handled /\ Init => Inv
    BY <1>1
  <2> HIDE DEF Inv
  <2> QED BY <1>2, <2>1, AlwaysHandled, PTL DEF Spec
<1> QED BY <1>3, <1>4, PTL

-----------------------------------------------------------------------------
(* A parsed agenda has a version with its items.                           *)

\* A version of d has the bytes c.
Has(d, c) == \E v \in versions[d] : v.artifact = c
\* One of them holds the items they were parsed to.
Filled(d, c) == \E v \in versions[d] : v.artifact = c /\ v.snapshot

\* A fetch that is past its version, and whoever enqueued a parse job, left one.
Left ==
  /\ \A c \in Contents : parses[c].at # "none" => Has(parses[c].doc, c)
  /\ \A w \in Workers : work[w].pc \in {"versioned", "observed"} => Has(Doc(w), Content(w))

\* No step takes a version away, or its items.
LEMMA VersionsStay ==
  ASSUME TypeOK, WorkKnows, [Next]_vars, NEW d \in Docs, NEW c
  PROVE  /\ Has(d, c) => Has(d, c)'
         /\ Filled(d, c) => Filled(d, c)'
<1>1. CASE versions' = versions
  BY <1>1 DEF Has, Filled
<1>2. ASSUME NEW w \in Workers, InsertVersion(w)
      PROVE  (Has(d, c) => Has(d, c)') /\ (Filled(d, c) => Filled(d, c)')
  <2>1. versions[d] \subseteq versions'[d]
    BY <1>2 DEF InsertVersion, TypeOK
  <2> QED BY <2>1 DEF Has, Filled
<1>3. ASSUME NEW w \in Workers, RecordSnapshot(w)
      PROVE  (Has(d, c) => Has(d, c)') /\ (Filled(d, c) => Filled(d, c)')
  <2>1. \A v \in versions[d] : \E y \in versions'[d] :
          y.artifact = v.artifact /\ (v.snapshot => y.snapshot)
    <3> SUFFICES ASSUME NEW v \in versions[d]
                 PROVE  \E y \in versions'[d] : y.artifact = v.artifact /\ (v.snapshot => y.snapshot)
      OBVIOUS
    <3>1. v \in Version
      BY DEF TypeOK
    <3>2. PICK y : y = IF v.artifact = Content(w) THEN [v EXCEPT !.snapshot = TRUE] ELSE v
      OBVIOUS
    <3>3. y \in versions'[d]
      BY <1>3, <3>2 DEF RecordSnapshot, SnapshotReaches
    <3>4. y.artifact = v.artifact /\ (v.snapshot => y.snapshot)
      BY <3>1, <3>2 DEF Version
    <3> QED BY <3>3, <3>4
  <2> QED BY <2>1 DEF Has, Filled
<1>4. versions' = versions \/ \E w \in Workers : RecordSnapshot(w) \/ InsertVersion(w)
  BY DEF Next, vars, ClaimSome, FetchStep, ParseStep, Discover, ClaimFetch, ClaimParse,
     Fetch, FetchUnavailable, Store, LockDocument, Observe, EnqueueParse, IndexText,
     WriteItems, StopHalfway, Unblock
<1> QED BY <1>1, <1>2, <1>3, <1>4

\* What each step leaves to be shown.
LEMMA FollowsStay ==
  ASSUME Handled, Left, SnapshotFollows, [Next]_vars,
         \A c \in Contents :
           \/ parses'[c] = parses[c]
           \/ /\ Has(parses[c].doc, c)'
              /\ ParsedAgenda(c)' => Filled(parses[c].doc, c)',
         \A w \in Workers : work'[w].pc \in {"versioned", "observed"} =>
           \/ Has(Doc(w), Content(w))'
           \/ work'[w] = work[w]
  PROVE  Left' /\ SnapshotFollows'
<1>0. TypeOK /\ WorkKnows
  BY DEF Handled
<1>1. ASSUME NEW c \in Contents
      PROVE  /\ parses'[c].at # "none" => Has(parses[c].doc, c)'
             /\ ParsedAgenda(c)' => Filled(parses[c].doc, c)'
  <2>1. CASE parses'[c] = parses[c] /\ parses[c].at # "none"
    <3>1. PICK d \in Docs : d = parses[c].doc /\ d = parses'[c].doc
      BY <1>0, <2>1 DEF WorkKnows
    <3>2. Has(d, c) /\ (ParsedAgenda(c) => Filled(d, c))
      BY <2>1, <3>1 DEF Left, SnapshotFollows, Filled
    <3>3. Has(d, c)' /\ (ParsedAgenda(c) => Filled(d, c)')
      BY <1>0, <3>2, VersionsStay
    <3>4. ParsedAgenda(c)' = ParsedAgenda(c)
      BY <2>1 DEF ParsedAgenda
    <3> QED BY <3>1, <3>3, <3>4 DEF Has, Filled
  <2>2. CASE parses'[c] = parses[c] /\ parses[c].at = "none"
    BY <2>2 DEF ParsedAgenda
  <2> QED BY <2>1, <2>2
<1>2. ASSUME NEW w \in Workers, work'[w].pc \in {"versioned", "observed"}
      PROVE  Has(Doc(w), Content(w))'
  <2>1. CASE work'[w] = work[w]
    <3>1. PICK d \in Docs : d = Doc(w) /\ d = work'[w].doc
      BY <1>0, <1>2, <2>1 DEF WorkKnows, Doc
    <3>2. PICK c : c = Content(w) /\ c = work'[w].content
      BY <2>1 DEF Content
    <3>3. Has(d, c)
      BY <1>2, <2>1, <3>1, <3>2 DEF Left
    <3>4. Has(d, c)'
      BY <1>0, <3>3, VersionsStay
    <3> QED BY <3>1, <3>2, <3>4 DEF Has, Doc, Content
  <2> QED BY <1>2, <2>1
<1>3. Left'
  BY <1>1, <1>2 DEF Left
<1> QED BY <1>1, <1>3 DEF SnapshotFollows, Filled

\* Every step keeps a filled version for each parsed agenda, and one to fill
\* for each that is being parsed.
LEMMA FollowsKept ==
  ASSUME Handled, Handled', Left, SnapshotFollows, [Next]_vars
  PROVE  Left' /\ SnapshotFollows'
<1> USE DocumentShapes
<1>0. /\ TypeOK /\ WorkKnows /\ Jobs
      /\ work \in [Workers -> Work] /\ \A w \in Workers : work[w] \in Work
  BY DEF Handled, TypeOK
<1>1. ASSUME NEW d \in Docs, Discover(d) PROVE Left' /\ SnapshotFollows'
  BY <1>1, FollowsStay DEF Discover
<1>2. ASSUME NEW w \in Workers, NEW d \in Docs, ClaimFetch(w, d) PROVE Left' /\ SnapshotFollows'
  <2>1. \A u \in Workers : work'[u].pc \in {"versioned", "observed"} => work'[u] = work[u]
    BY <1>0, <1>2 DEF ClaimFetch, Idle
  <2> QED BY <1>2, <2>1, FollowsStay DEF ClaimFetch
<1>3. ASSUME NEW w \in Workers, Fetch(w) \/ FetchUnavailable(w) \/ Store(w)
      PROVE  Left' /\ SnapshotFollows'
  <2>1. \A u \in Workers : work'[u].pc \in {"versioned", "observed"} => work'[u] = work[u]
    <3>1. CASE Fetch(w)
      BY <1>0, <3>1 DEF Fetch, Work
    <3>2. CASE FetchUnavailable(w)
      BY <1>0, <3>2 DEF FetchUnavailable
    <3>3. CASE Store(w)
      BY <1>0, <3>3 DEF Store, Work
    <3> QED BY <1>3, <3>1, <3>2, <3>3
  <2>2. parses' = parses
    BY <1>3 DEF Fetch, FetchUnavailable, Store
  <2> QED BY <2>1, <2>2, FollowsStay
<1>4. ASSUME NEW w \in Workers, LockDocument(w) PROVE Left' /\ SnapshotFollows'
  <2>1. /\ \A u \in Workers : u # w => work'[u] = work[u]
        /\ parses' = parses /\ versions' = versions
    BY <1>0, <1>4 DEF LockDocument
  <2>2. CASE Known(Doc(w), Content(w))
    <3>1. work'[w].doc = Doc(w) /\ work'[w].content = Content(w)
      BY <1>0, <1>4, <2>2 DEF LockDocument, Work, Doc, Content
    <3>2. Has(Doc(w), Content(w))'
      BY <2>1, <2>2, <3>1 DEF Has, Known, Doc, Content
    <3> QED BY <2>1, <3>2, FollowsStay
  <2>3. CASE ~Known(Doc(w), Content(w))
    <3>1. work'[w].pc = "locked"
      BY <1>0, <1>4, <2>3 DEF LockDocument, Work
    <3> QED BY <2>1, <3>1, FollowsStay
  <2> QED BY <2>2, <2>3
<1>5. ASSUME NEW w \in Workers, InsertVersion(w) PROVE Left' /\ SnapshotFollows'
  <2>1. /\ \A u \in Workers : u # w => work'[u] = work[u]
        /\ work'[w].doc = Doc(w) /\ work'[w].content = Content(w) /\ parses' = parses
    BY <1>0, <1>5 DEF InsertVersion, Work, Doc, Content
  <2>2. PICK v : v = [artifact |-> Content(w), no |-> work[w].no, snapshot |-> work[w].carried]
    OBVIOUS
  <2>3. v \in versions'[Doc(w)] /\ v.artifact = Content(w)
    BY <1>0, <1>5, <2>2 DEF InsertVersion, TypeOK, WorkKnows, At
  <2>4. Has(Doc(w), Content(w))'
    BY <2>1, <2>3 DEF Has, Doc, Content
  <2> QED BY <2>1, <2>4, FollowsStay
<1>6. ASSUME NEW w \in Workers, Observe(w) PROVE Left' /\ SnapshotFollows'
  <2>1. /\ \A u \in Workers : u # w => work'[u] = work[u]
        /\ work'[w].doc = Doc(w) /\ work'[w].content = Content(w)
        /\ parses' = parses /\ versions' = versions
    BY <1>0, <1>6 DEF Observe, Work, Doc, Content
  <2>2. Has(Doc(w), Content(w))
    BY <1>6 DEF Observe, Left, At
  <2>3. Has(Doc(w), Content(w))'
    BY <2>1, <2>2 DEF Has, Doc, Content
  <2> QED BY <2>1, <2>3, FollowsStay
<1>7. ASSUME NEW w \in Workers, EnqueueParse(w) PROVE Left' /\ SnapshotFollows'
  <2>1. /\ \A u \in Workers : work'[u].pc # "idle" => work'[u] = work[u]
        /\ versions' = versions
    BY <1>0, <1>7 DEF EnqueueParse
  <2>2. Has(Doc(w), Content(w)) /\ Content(w) \in Contents
    BY <1>0, <1>7 DEF EnqueueParse, ParseDue, Left, At, WorkKnows
  <2>3. \A c \in Contents :
          \/ parses'[c] = parses[c]
          \/ c = Content(w) /\ parses'[c].doc = Doc(w) /\ parses'[c].at = "pending"
    BY <1>0, <1>7, <2>2 DEF EnqueueParse, TypeOK
  <2>4. \A c \in Contents :
          \/ parses'[c] = parses[c]
          \/ /\ Has(parses[c].doc, c)'
             /\ ParsedAgenda(c)' => Filled(parses[c].doc, c)'
    BY <2>1, <2>2, <2>3 DEF Has, ParsedAgenda
  <2> QED BY <2>1, <2>4, FollowsStay
\* A job that is claimed, or claimed again, keeps its version.
<1>p. ASSUME NEW c \in Contents, parses[c].at # "none", parses'[c].doc = parses[c].doc
      PROVE  Has(parses[c].doc, c)'
  <2>1. PICK d \in Docs : d = parses[c].doc /\ d = parses'[c].doc
    BY <1>0, <1>p DEF WorkKnows
  <2>2. Has(d, c)
    BY <1>p, <2>1 DEF Left
  <2>3. Has(d, c)'
    BY <1>0, <2>2, VersionsStay
  <2> QED BY <2>1, <2>3 DEF Has
<1>8. ASSUME NEW w \in Workers, NEW c \in Contents, ClaimParse(w, c) PROVE Left' /\ SnapshotFollows'
  <2>1. \A u \in Workers : work'[u].pc \in {"versioned", "observed"} => work'[u] = work[u]
    BY <1>0, <1>8 DEF ClaimParse, Idle
  <2>2. /\ \A b \in Contents : b # c => parses'[b] = parses[b]
        /\ parses[c].at = "pending" /\ parses'[c].at = "running" /\ parses'[c].doc = parses[c].doc
    BY <1>0, <1>8 DEF ClaimParse, TypeOK
  <2>3. Has(parses[c].doc, c)' /\ ~ParsedAgenda(c)'
    BY <1>p, <2>2 DEF ParsedAgenda
  <2> QED BY <2>1, <2>2, <2>3, FollowsStay
<1>9. ASSUME NEW w \in Workers, IndexText(w) PROVE Left' /\ SnapshotFollows'
  <2>1. /\ work[w].pc \in ParsePcs /\ Content(w) \in Contents
        /\ parses[Content(w)].at = "running" /\ parses[Content(w)].doc = Doc(w)
    BY <1>0, <1>9 DEF IndexText, At, Jobs, WorkKnows, ParsePcs
  <2>2. \A u \in Workers : work'[u].pc \in {"versioned", "observed"} => work'[u] = work[u]
    BY <1>0, <1>9 DEF IndexText, Work
  <2>3. CASE Kind[Doc(w)] = "agenda" /\ Indexed(Doc(w), Content(w))
    BY <1>9, <2>2, <2>3, FollowsStay DEF IndexText
  <2>4. CASE ~(Kind[Doc(w)] = "agenda" /\ Indexed(Doc(w), Content(w)))
    <3>1. /\ \A b \in Contents : b # Content(w) => parses'[b] = parses[b]
          /\ parses'[Content(w)].doc = parses[Content(w)].doc
      BY <1>0, <1>9, <2>1, <2>4 DEF IndexText, TypeOK
    <3>2. PICK c \in Contents, d \in Docs : c = Content(w) /\ d = Doc(w)
      BY <1>0, <2>1 DEF WorkKnows, ParsePcs
    <3>3. ~ParsedAgenda(c)'
      BY <2>1, <2>4, <3>1, <3>2 DEF ParsedAgenda, Indexed
    <3>4. Has(parses[c].doc, c)'
      BY <1>p, <2>1, <3>1, <3>2
    <3>5. \A b \in Contents :
            \/ parses'[b] = parses[b]
            \/ /\ Has(parses[b].doc, b)'
               /\ ParsedAgenda(b)' => Filled(parses[b].doc, b)'
      BY <3>1, <3>2, <3>3, <3>4
    <3> QED BY <2>2, <3>5, FollowsStay
  <2> QED BY <2>3, <2>4
<1>10. ASSUME NEW w \in Workers, WriteItems(w) PROVE Left' /\ SnapshotFollows'
  <2>1. \A u \in Workers : work'[u].pc \in {"versioned", "observed"} => work'[u] = work[u]
    BY <1>0, <1>10 DEF WriteItems, Work
  <2> QED BY <1>10, <2>1, FollowsStay DEF WriteItems
<1>11. ASSUME NEW w \in Workers, RecordSnapshot(w) PROVE Left' /\ SnapshotFollows'
  <2>1. /\ work[w].pc \in ParsePcs /\ Content(w) \in Contents
        /\ parses[Content(w)].at = "running" /\ parses[Content(w)].doc = Doc(w)
    BY <1>0, <1>11 DEF RecordSnapshot, At, Jobs, WorkKnows, ParsePcs
  <2>2. \A u \in Workers : work'[u].pc \in {"versioned", "observed"} => work'[u] = work[u]
    BY <1>0, <1>11 DEF RecordSnapshot
  <2>3. /\ \A b \in Contents : b # Content(w) => parses'[b] = parses[b]
        /\ parses'[Content(w)].doc = parses[Content(w)].doc
    BY <1>0, <1>11, <2>1 DEF RecordSnapshot, TypeOK
  <2>4. PICK c \in Contents, d \in Docs : c = Content(w) /\ d = Doc(w)
    BY <1>0, <2>1 DEF WorkKnows, ParsePcs
  <2>5. PICK v \in versions[d] : v.artifact = c
    BY <2>1, <2>4 DEF Left, Has
  <2>6. PICK y : y = [v EXCEPT !.snapshot = TRUE]
    OBVIOUS
  <2>7. v \in Version
    BY <1>0 DEF TypeOK
  <2>8. y.artifact = c /\ y.snapshot
    BY <2>5, <2>6, <2>7 DEF Version
  <2>9. y \in versions'[d]
    BY <1>11, <2>4, <2>5, <2>6 DEF RecordSnapshot, SnapshotReaches
  <2>10. parses'[c].doc = d
    BY <2>1, <2>3, <2>4
  <2>11. Has(parses[c].doc, c)' /\ Filled(parses[c].doc, c)'
    BY <2>8, <2>9, <2>10 DEF Has, Filled
  <2>12. \A b \in Contents :
           \/ parses'[b] = parses[b]
           \/ /\ Has(parses[b].doc, b)'
              /\ ParsedAgenda(b)' => Filled(parses[b].doc, b)'
    BY <2>3, <2>4, <2>11
  <2> QED BY <2>2, <2>12, FollowsStay
<1>12. ASSUME NEW w \in Workers, StopHalfway(w) PROVE Left' /\ SnapshotFollows'
  <2>1. \A u \in Workers : work'[u].pc \in {"versioned", "observed"} => work'[u] = work[u]
    BY <1>0, <1>12 DEF StopHalfway
  <2>2. CASE work[w].pc \in ParsePcs
    <3>1. /\ Content(w) \in Contents /\ parses[Content(w)].at = "running"
      BY <1>0, <2>2 DEF Jobs, WorkKnows, ParsePcs
    <3>2. PICK at \in {"pending", "blocked"} : parses' = [parses EXCEPT ![Content(w)].at = at]
      BY <1>12, <2>2 DEF StopHalfway, Retry, At, ParsePcs
    <3>3. /\ \A b \in Contents : b # Content(w) => parses'[b] = parses[b]
          /\ parses'[Content(w)].doc = parses[Content(w)].doc /\ parses'[Content(w)].at = at
      BY <1>0, <3>1, <3>2 DEF TypeOK
    <3>4. PICK c \in Contents : c = Content(w)
      BY <3>1
    <3>5. Has(parses[c].doc, c)' /\ ~ParsedAgenda(c)'
      BY <1>p, <3>1, <3>3, <3>4 DEF ParsedAgenda
    <3>6. \A b \in Contents :
            \/ parses'[b] = parses[b]
            \/ /\ Has(parses[b].doc, b)'
               /\ ParsedAgenda(b)' => Filled(parses[b].doc, b)'
      BY <3>3, <3>4, <3>5
    <3> QED BY <2>1, <3>6, FollowsStay
  <2>3. CASE work[w].pc \notin ParsePcs
    <3>1. parses' = parses
      BY <1>12, <2>3 DEF StopHalfway, Retry, At, ParsePcs
    <3> QED BY <2>1, <3>1, FollowsStay
  <2> QED BY <2>2, <2>3
<1>13. ASSUME Unblock PROVE Left' /\ SnapshotFollows'
  <2>1. /\ work' = work
        /\ \A c \in Contents :
             \/ parses'[c] = parses[c]
             \/ /\ parses[c].at = "blocked" /\ parses'[c].at = "pending"
                /\ parses'[c].doc = parses[c].doc
    BY <1>0, <1>13, BackAgain
  <2>2. \A c \in Contents :
          \/ parses'[c] = parses[c]
          \/ /\ Has(parses[c].doc, c)'
             /\ ParsedAgenda(c)' => Filled(parses[c].doc, c)'
    BY <1>p, <2>1 DEF ParsedAgenda
  <2> QED BY <2>1, <2>2, FollowsStay
<1>20. CASE UNCHANGED vars
  BY <1>20, FollowsStay DEF vars
<1> QED BY <1>1, <1>2, <1>3, <1>4, <1>5, <1>6, <1>7, <1>8, <1>9, <1>10, <1>11, <1>12,
          <1>13, <1>20 DEF Next, ClaimSome, FetchStep, ParseStep

\* Once an agenda is parsed, the version it was parsed for holds its items,
\* because the version row is written before the parse job (handlers.ts:
\* fetch).
THEOREM ItemsReachTheVersion == Spec => []SnapshotFollows
<1>1. Init => Left /\ SnapshotFollows
  BY DocumentShapes DEF Init, Left, SnapshotFollows, ParsedAgenda
<1>2. Left /\ SnapshotFollows /\ Handled /\ Handled' /\ [Next]_vars => (Left /\ SnapshotFollows)'
  BY FollowsKept
<1> QED BY <1>1, <1>2, AlwaysHandled, PTL DEF Spec
=============================================================================
