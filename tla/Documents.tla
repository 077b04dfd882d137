------------------------------ MODULE Documents ------------------------------
(***************************************************************************)
(* What the fetch and parse handlers (backend/src/services/ingestion/      *)
(* handlers.ts, with transcripts.ts, recordings.ts and artifact-text.ts)   *)
(* make of a document.  Bytes are an artifact, one row per content,        *)
(* whichever document they came from; a document has a version per         *)
(* artifact it was seen with; an artifact is parsed once, by the job the   *)
(* fetch that inserted its row enqueues.  Transcripts and recordings also  *)
(* have a row of their own, written on every fetch.                        *)
(*                                                                         *)
(* A handler is a sequence of statements on the pool: it may stop between  *)
(* any two of them, and its job then starts over or, with its last attempt *)
(* gone, is blocked until a person unblocks it.  Several workers fetch and *)
(* parse at once, possibly the same document.  The queue's own rules, the  *)
(* count of the attempts among them, are in IngestionQueue.                *)
(***************************************************************************)
EXTENDS Naturals, FiniteSets

CONSTANTS
  Docs,        \* rows of meeting_documents
  Kind,        \* Kind[d]: "agenda", "minutes", "transcript" or "recording"
  Meeting,     \* Meeting[d]: its meeting_id
  Contents,    \* byte strings, by their sha256
  MayServe,    \* MayServe[d]: what the source ever answers for d
  Reading,     \* Reading[c]: what readTranscript, readRecording or, for an
               \* agenda that is no PDF or HTML, extractDocumentText makes of c
  Past,        \* meetings further back than the settling window
  Items,       \* Items[c]: the item numbers extractAgendaItems finds in c
  Workers,     \* worker loops that run these handlers
  Nothing,     \* no document, no content
  MaxFetches,  \* bound: fetch jobs enqueued
  MaxMishaps   \* bound: handlers that stop half-way

Observed == {"published", "absent", "unavailable", "available", "unreadable"}

ASSUME DocumentConstants ==
  /\ Kind \in [Docs -> {"agenda", "minutes", "transcript", "recording"}]
  /\ MayServe \in [Docs -> SUBSET Contents]
  /\ Reading \in [Contents -> Observed]
  /\ Nothing \notin Docs \cup Contents
  /\ MaxFetches \in Nat
  /\ MaxMishaps \in Nat

VARIABLES
  fetches,    \* fetches[d]: pending fetch jobs
  held,       \* held[d]: blocked fetch jobs
  begun,      \* fetch jobs enqueued so far
  artifacts,  \* contents with a row
  versions,   \* versions[d]: set of [artifact, no, snapshot]
  status,     \* status[d]: state of its transcript_status or meeting_recordings row
  parses,     \* parses[c]: the parse job of c: its document and where it stands
  texts,      \* artifacts with a row in artifact_texts
  items,      \* items[m][n]: the content agenda item n of m was last read from
  work,       \* work[w]: the handler a worker is in
  mishaps     \* handlers stopped half-way so far

vars == <<fetches, held, begun, artifacts, versions, status, parses, texts,
          items, work, mishaps>>

Meetings == {Meeting[d] : d \in Docs}
Numbers == UNION {Items[c] : c \in Contents}
Version == [artifact : Contents, no : Nat \ {0}, snapshot : BOOLEAN]
Work == [pc : {"idle", "asked", "got", "stored", "locked", "versioned", "observed",
               "parsing", "indexed", "listed"},
         doc : Docs \cup {Nothing}, content : Contents \cup {Nothing},
         new : BOOLEAN, no : Nat, carried : BOOLEAN]
Idle == [pc |-> "idle", doc |-> Nothing, content |-> Nothing, new |-> FALSE,
         no |-> 0, carried |-> FALSE]

TypeOK ==
  /\ fetches \in [Docs -> Nat] /\ held \in [Docs -> Nat]
  /\ begun \in 0..MaxFetches
  /\ artifacts \subseteq Contents
  /\ versions \in [Docs -> SUBSET Version]
  /\ status \in [Docs -> Observed \cup {"none"}]
  /\ \A d \in Docs : Kind[d] \in {"agenda", "minutes"} => status[d] = "none"
  /\ parses \in [Contents -> [doc : Docs \cup {Nothing},
                              at : {"none", "pending", "running", "done", "blocked"}]]
  /\ texts \subseteq artifacts
  /\ items \in [Meetings -> [Numbers -> Contents \cup {Nothing}]]
  /\ work \in [Workers -> Work]
  /\ mishaps \in 0..MaxMishaps

Init ==
  /\ fetches = [d \in Docs |-> 0] /\ held = [d \in Docs |-> 0] /\ begun = 0
  /\ artifacts = {}
  /\ versions = [d \in Docs |-> {}]
  /\ status = [d \in Docs |-> "none"]
  /\ parses = [c \in Contents |-> [doc |-> Nothing, at |-> "none"]]
  /\ texts = {}
  /\ items = [m \in Meetings |-> [n \in Numbers |-> Nothing]]
  /\ work = [w \in Workers |-> Idle]
  /\ mishaps = 0

At(w, pc) == work[w].pc = pc
Doc(w) == work[w].doc
Content(w) == work[w].content

-----------------------------------------------------------------------------
(* The discover handler.                                                   *)

\* transcriptFetchSettled and recordingFetchSettled
Settled(d) ==
  \/ status[d] = "published"
  \/ status[d] \in {"absent", "available"} /\ Meeting[d] \in Past

\* discover, for one document: a fetch is enqueued unless there is nothing
\* more to learn from one.
Discover(d) ==
  /\ ~Settled(d)
  /\ begun < MaxFetches
  /\ begun' = begun + 1
  /\ fetches' = [fetches EXCEPT ![d] = @ + 1]
  /\ UNCHANGED <<held, artifacts, versions, status, parses, texts, items, work, mishaps>>

-----------------------------------------------------------------------------
(* The fetch handler.                                                      *)

ClaimFetch(w, d) ==
  /\ At(w, "idle") /\ fetches[d] > 0
  /\ fetches' = [fetches EXCEPT ![d] = @ - 1]
  /\ work' = [work EXCEPT ![w] = [Idle EXCEPT !.pc = "asked", !.doc = d]]
  /\ UNCHANGED <<held, begun, artifacts, versions, status, parses, texts, items, mishaps>>

\* fetchDocument: whatever the source serves at that moment.
Fetch(w) ==
  /\ At(w, "asked")
  /\ \E c \in MayServe[Doc(w)] : work' = [work EXCEPT ![w] = [@ EXCEPT !.pc = "got", !.content = c]]
  /\ UNCHANGED <<fetches, held, begun, artifacts, versions, status, parses, texts,
                 items, mishaps>>

\* An error status for a transcript is recorded and the job is done.
FetchUnavailable(w) ==
  /\ At(w, "asked") /\ Kind[Doc(w)] = "transcript"
  /\ status' = [status EXCEPT ![Doc(w)] = "unavailable"]
  /\ work' = [work EXCEPT ![w] = Idle]
  /\ UNCHANGED <<fetches, held, begun, artifacts, versions, parses, texts, items, mishaps>>

\* Mutant: what counts is whether the document had a version.
IsNewToDocument(w) == versions[Doc(w)] = {}

\* RETURNING id gives a row only to the insert that made it.
IsNew(w) == Content(w) \notin artifacts

\* INSERT ... ON CONFLICT (sha256) DO NOTHING: one fetch finds its bytes new.
Store(w) ==
  /\ At(w, "got")
  /\ artifacts' = artifacts \cup {Content(w)}
  /\ work' = [work EXCEPT ![w] = [@ EXCEPT !.pc = "stored", !.new = IsNew(w)]]
  /\ UNCHANGED <<fetches, held, begun, versions, status, parses, texts, items, mishaps>>

\* Mutant: the document row is not locked.
RowFreeAlways(d) == TRUE

\* SELECT ... FOR UPDATE on the meeting_documents row.
RowFree(d) == \A w \in Workers : ~(At(w, "locked") /\ Doc(w) = d)

Known(d, c) == \E v \in versions[d] : v.artifact = c

Snapshotted(c) == \E d \in Docs : \E v \in versions[d] : v.artifact = c /\ v.snapshot

NextNo(d) == CHOOSE n \in 1..Cardinality(versions[d]) + 1 : \A v \in versions[d] : v.no < n

\* recordDocumentVersion takes the lock, leaves a known version alone, and for
\* a new one reads the next number and looks for a snapshot of the same
\* artifact to carry over.
LockDocument(w) ==
  /\ At(w, "stored") /\ RowFree(Doc(w))
  /\ work' = [work EXCEPT ![w] =
       IF Known(Doc(w), Content(w)) THEN [@ EXCEPT !.pc = "versioned"]
       ELSE [@ EXCEPT !.pc = "locked", !.no = NextNo(Doc(w)), !.carried = Snapshotted(Content(w))]]
  /\ UNCHANGED <<fetches, held, begun, artifacts, versions, status, parses, texts,
                 items, mishaps>>

\* The insert, with which the transaction commits.
InsertVersion(w) ==
  /\ At(w, "locked")
  /\ versions' = [versions EXCEPT ![Doc(w)] = @ \cup
       {[artifact |-> Content(w), no |-> work[w].no, snapshot |-> work[w].carried]}]
  /\ work' = [work EXCEPT ![w] = [@ EXCEPT !.pc = "versioned", !.no = 0, !.carried = FALSE]]
  /\ UNCHANGED <<fetches, held, begun, artifacts, status, parses, texts, items, mishaps>>

Watched(d) == Kind[d] \in {"transcript", "recording"}

\* Mutant: what was seen is recorded by the fetch that found the bytes new.
RecordsNew(w) == Watched(Doc(w)) /\ work[w].new

\* recordTranscriptStatus, recordMeetingRecording: outside the isNew branch.
Records(w) == Watched(Doc(w))

Observe(w) ==
  /\ At(w, "versioned")
  /\ status' = IF Records(w) THEN [status EXCEPT ![Doc(w)] = Reading[Content(w)]] ELSE status
  /\ work' = [work EXCEPT ![w].pc = "observed"]
  /\ UNCHANGED <<fetches, held, begun, artifacts, versions, parses, texts, items, mishaps>>

\* Mutant: the job is enqueued as soon as the bytes are known to be new.
ParseDueEarly(w) == At(w, "stored")

ParseDue(w) == At(w, "observed")

\* The parse job, for new bytes only; the fetch is done.
EnqueueParse(w) ==
  /\ ParseDue(w)
  /\ parses' = IF work[w].new
       THEN [parses EXCEPT ![Content(w)] = [doc |-> Doc(w), at |-> "pending"]] ELSE parses
  /\ work' = [work EXCEPT ![w] = Idle]
  /\ UNCHANGED <<fetches, held, begun, artifacts, versions, status, texts, items, mishaps>>

-----------------------------------------------------------------------------
(* The parse handler.                                                      *)

ClaimParse(w, c) ==
  /\ At(w, "idle") /\ parses[c].at = "pending"
  /\ parses' = [parses EXCEPT ![c].at = "running"]
  /\ work' = [work EXCEPT ![w] =
       [Idle EXCEPT !.pc = "parsing", !.doc = parses[c].doc, !.content = c]]
  /\ UNCHANGED <<fetches, held, begun, artifacts, versions, status, texts, items, mishaps>>

\* A document without words, or that is neither PDF nor HTML, has no text.
Indexed(d, c) ==
  CASE Kind[d] = "recording" -> FALSE
    [] Kind[d] = "transcript" -> Reading[c] = "published"
    [] OTHER -> Reading[c] # "unreadable"

\* The text, of a transcript with its cues in one transaction.  Only an agenda
\* goes on; bytes that are no captions make the parse of a transcript throw, at
\* each attempt.
IndexText(w) ==
  /\ At(w, "parsing")
  /\ texts' = IF Indexed(Doc(w), Content(w)) THEN texts \cup {Content(w)} ELSE texts
  /\ IF Kind[Doc(w)] = "agenda" /\ Indexed(Doc(w), Content(w))
     THEN /\ work' = [work EXCEPT ![w].pc = "indexed"]
          /\ UNCHANGED parses
     ELSE /\ work' = [work EXCEPT ![w] = Idle]
          /\ parses' = [parses EXCEPT ![Content(w)].at =
               IF Kind[Doc(w)] = "transcript" /\ Reading[Content(w)] = "unavailable"
               THEN "blocked" ELSE "done"]
  /\ UNCHANGED <<fetches, held, begun, artifacts, versions, status, items, mishaps>>

\* upsertAgendaItems: merged on (meeting, number); others stay.
WriteItems(w) ==
  /\ At(w, "indexed")
  /\ items' = [items EXCEPT ![Meeting[Doc(w)]] =
       [n \in Numbers |-> IF n \in Items[Content(w)] THEN Content(w) ELSE @[n]]]
  /\ work' = [work EXCEPT ![w].pc = "listed"]
  /\ UNCHANGED <<fetches, held, begun, artifacts, versions, status, parses, texts, mishaps>>

\* Mutant: only the versions of the document that was parsed.
SnapshotReachesOwn(w, e) == e = Doc(w)

\* recordVersionSnapshot is keyed on the artifact, not on the document.
SnapshotReaches(w, e) == TRUE

RecordSnapshot(w) ==
  /\ At(w, "listed")
  /\ versions' = [e \in Docs |->
       {IF v.artifact = Content(w) /\ SnapshotReaches(w, e)
        THEN [v EXCEPT !.snapshot = TRUE] ELSE v : v \in versions[e]}]
  /\ parses' = [parses EXCEPT ![Content(w)].at = "done"]
  /\ work' = [work EXCEPT ![w] = Idle]
  /\ UNCHANGED <<fetches, held, begun, artifacts, status, texts, items, mishaps>>

-----------------------------------------------------------------------------
\* A statement fails, the source answers with an error, or the process dies:
\* the job is pending again, or blocked when that was its last attempt.
Retry(w) ==
  IF \E pc \in {"parsing", "indexed", "listed"} : At(w, pc)
  THEN /\ \E at \in {"pending", "blocked"} : parses' = [parses EXCEPT ![Content(w)].at = at]
       /\ UNCHANGED <<fetches, held>>
  ELSE /\ \/ fetches' = [fetches EXCEPT ![Doc(w)] = @ + 1] /\ UNCHANGED held
          \/ held' = [held EXCEPT ![Doc(w)] = @ + 1] /\ UNCHANGED fetches
       /\ UNCHANGED parses

StopHalfway(w) ==
  /\ ~At(w, "idle")
  /\ \/ At(w, "asked") /\ UNCHANGED mishaps
     \/ mishaps < MaxMishaps /\ mishaps' = mishaps + 1
  /\ Retry(w)
  /\ work' = [work EXCEPT ![w] = Idle]
  /\ UNCHANGED <<begun, artifacts, versions, status, texts, items>>

\* An operator unblocks some of the blocked jobs: n[d] fetches of each d, and
\* the parses of C.
Unblock ==
  /\ \E n \in [Docs -> 0..MaxFetches], C \in SUBSET {c \in Contents : parses[c].at = "blocked"} :
       /\ \A d \in Docs : n[d] <= held[d]
       /\ held' = [d \in Docs |-> held[d] - n[d]]
       /\ fetches' = [d \in Docs |-> fetches[d] + n[d]]
       /\ parses' = [c \in Contents |->
            IF c \in C THEN [parses[c] EXCEPT !.at = "pending"] ELSE parses[c]]
  /\ UNCHANGED <<begun, artifacts, versions, status, texts, items, work, mishaps>>

FetchStep(w) ==
  \/ Fetch(w) \/ FetchUnavailable(w) \/ Store(w) \/ LockDocument(w)
  \/ InsertVersion(w) \/ Observe(w) \/ EnqueueParse(w)

ParseStep(w) == IndexText(w) \/ WriteItems(w) \/ RecordSnapshot(w)

ClaimSome(w) ==
  \/ \E d \in Docs : ClaimFetch(w, d)
  \/ \E c \in Contents : ClaimParse(w, c)

Next ==
  \/ \E d \in Docs : Discover(d)
  \/ Unblock
  \/ \E w \in Workers : ClaimSome(w) \/ FetchStep(w) \/ ParseStep(w) \/ StopHalfway(w)

Spec == Init /\ [][Next]_vars

\* A worker goes on with its handler, and comes round to every job: claims are
\* made oldest first, and a job that failed waits behind those that did not.
Fairness ==
  /\ \A w \in Workers : WF_vars(FetchStep(w) \/ ParseStep(w))
  /\ \A d \in Docs : SF_vars(\E w \in Workers : ClaimFetch(w, d))
  /\ \A c \in Contents : SF_vars(\E w \in Workers : ClaimParse(w, c))

FairSpec == Spec /\ Fairness

-----------------------------------------------------------------------------
(* Properties.                                                             *)

\* The versions of a document are numbered without a gap or a repetition,
\* although two fetches of it overlap: the number is read under the lock of
\* the document's row (handlers.ts: recordDocumentVersion).
VersionsAreNumbered ==
  \A d \in Docs : {v.no : v \in versions[d]} = 1..Cardinality(versions[d])

Fetching(w, d) ==
  Doc(w) = d /\ \E pc \in {"asked", "got", "stored", "locked", "versioned"} : At(w, pc)

\* A transcript or recording that was fetched has a recorded state, also when
\* its bytes were stored by the fetch of another meeting and when a handler
\* stopped half-way, unless a fetch that will record it is under way, queued or
\* held for a person (handlers.ts: "outside the isNew branch").
ObservationsRecorded ==
  \A d \in Docs : Watched(d) /\ versions[d] # {} /\ fetches[d] = 0 /\ held[d] = 0
                  /\ (\A w \in Workers : ~Fetching(w, d)) => status[d] # "none"

ParsedAgenda(c) ==
  LET d == parses[c].doc IN
  parses[c].at = "done" /\ Kind[d] = "agenda" /\ Indexed(d, c)

\* Once an agenda is parsed, the version it was parsed for holds its items:
\* the version row is written before the parse job (handlers.ts: fetch).
SnapshotFollows ==
  \A c \in Contents : ParsedAgenda(c) =>
    \E v \in versions[parses[c].doc] : v.artifact = c /\ v.snapshot

\* Every version of a parsed agenda holds its items, also one whose insert
\* overlaps the parse ("carried across rather than left NULL").  It does not
\* hold: the insert of a version that found no snapshot to carry may come after
\* the update that fills the versions of the same bytes.
SnapshotsAgree ==
  \A c \in Contents : ParsedAgenda(c) =>
    \A d \in Docs : \A v \in versions[d] : v.artifact = c => v.snapshot

\* Bytes that are stored are parsed in the end, unless a handler stopped
\* half-way: the retry of a fetch finds its own artifact and takes it for old.
ParsedUnlessStopped ==
  \A c \in Contents :
    c \in artifacts ~> (parses[c].at \in {"done", "blocked"} \/ mishaps > 0)
=============================================================================
