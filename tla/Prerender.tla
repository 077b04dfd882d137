------------------------------ MODULE Prerender ------------------------------
(***************************************************************************)
(* The consumer that keeps a static page of everything public              *)
(* (backend/src/services/prerender/consumer.ts).  It walks the event log   *)
(* by updated_at, with a cursor in a file; an event only says which page   *)
(* to look at, and what the page becomes is read from the database when it *)
(* is built.  Findings, sources and officials follow their meeting's page, *)
(* so a meeting stands for its pages.                                      *)
(*                                                                         *)
(* updated_at is the start of the transaction that wrote the row, to the   *)
(* microsecond; the cursor keeps it to the millisecond.  The drain of      *)
(* EventLog, which is off by default, moves updated_at only further.       *)
(***************************************************************************)
EXTENDS Naturals, FiniteSets

CONSTANTS
  Records,    \* meetings
  Quotes,     \* claims
  RecordOf,   \* RecordOf[q]: the claim's meeting
  EventId,    \* EventId[s]: the id of the event that announces s
  Renderers,  \* processes with a consumer, and the rebuild script
  PageBatch,  \* batchSize
  Grain,      \* microseconds to a millisecond
  MaxTime     \* bound: the clock

ASSUME PrerenderConstants ==
  /\ RecordOf \in [Quotes -> Records]
  /\ EventId \in [Records \cup Quotes -> Nat] /\ IsFiniteSet(Records \cup Quotes)
  /\ PageBatch \in Nat \ {0} /\ Grain \in Nat \ {0} /\ MaxTime \in Nat \ {0}

VARIABLES
  onsite,    \* meetings with a published_at
  standing,  \* standing[q]: held, approved or retracted
  stamp,     \* stamp[s]: updated_at of the event that announces s; 0: no event
  live,      \* the events that are not revoked
  time,      \* the clock, in microseconds
  pages,     \* pages[m]: what the file shows; {}: no file
  cursor,    \* the cursor file; Zero: missing or unreadable
  pass,      \* pass[r]: the pass a renderer is in
  unread,    \* history: events that changed since a pass that read them ended
  astray     \* history: pages that nothing in the log leads back to

prerenderVars == <<onsite, standing, stamp, live, time, pages, cursor, pass, unread, astray>>
recordVars == <<onsite, standing, stamp, live>>

Told == Records \cup Quotes
PageOf(s) == IF s \in Quotes THEN RecordOf[s] ELSE s
Mark == [at : Nat, id : Nat]
Zero == [at |-> 0, id |-> 0]
Pass == [busy : BOOLEAN, read : SUBSET (Told \X Nat), todo : SUBSET Records,
         built : SUBSET (Records \X SUBSET Told), upto : Mark]
Asleep == [busy |-> FALSE, read |-> {}, todo |-> {}, built |-> {}, upto |-> Zero]

PrerenderTypeOK ==
  /\ onsite \subseteq Records
  /\ standing \in [Quotes -> {"held", "approved", "retracted"}]
  /\ stamp \in [Told -> 0..MaxTime]
  /\ live \subseteq {s \in Told : stamp[s] # 0}
  /\ time \in 1..MaxTime
  /\ pages \in [Records -> SUBSET Told]
  /\ cursor \in Mark
  /\ pass \in [Renderers -> Pass] /\ \A r \in Renderers : ~pass[r].busy => pass[r] = Asleep
  /\ unread \subseteq {s \in Told : stamp[s] # 0} /\ astray \subseteq Records

PrerenderInit ==
  /\ onsite = {} /\ standing = [q \in Quotes |-> "held"]
  /\ stamp = [s \in Told |-> 0] /\ live = {} /\ time = 1
  /\ pages = [m \in Records |-> {}]
  /\ cursor = Zero
  /\ pass = [r \in Renderers |-> Asleep]
  /\ unread = {} /\ astray = {}

-----------------------------------------------------------------------------
(* Decisions, each a transaction that began at `at` and commits now.       *)

\* What the builders make of a meeting: nothing if it is not public.
Built(out, q, m) == IF m \in out THEN {m} \cup {c \in Quotes : RecordOf[c] = m /\ q[c] = "approved"} ELSE {}
Content(m) == Built(onsite, standing, m)

Before(a, b) == a.at < b.at \/ (a.at = b.at /\ a.id < b.id)
Key(s, at) == [at |-> at, id |-> EventId[s]]

\* An event of a transaction that began before what a pass has got to.
Late(s, at) == \E c \in {cursor} \cup {pass[r].upto : r \in Renderers} : ~Before(c, Key(s, at))

\* Mutant: a revocation leaves updated_at alone.
MovedFresh(told) == {s \in told : stamp[s] = 0}

\* The events whose updated_at is set.
Moved(told) == told

\* A decision commits with the events it writes or revokes.  A page it changes
\* without one, or with a late one, goes astray.  Transactions about one event
\* do not begin in the same microsecond.
Committed(told, at) ==
  /\ \A s \in told : stamp[s] # at
  /\ stamp' = [s \in Told |-> IF s \in Moved(told) THEN at ELSE stamp[s]]
  /\ unread' = unread \cup told
  /\ LET about(m) == {s \in told : PageOf(s) = m} IN
       astray' = astray \cup {m \in Records :
         /\ about(m) # {} \/ Built(onsite', standing', m) # Content(m)
         /\ \A s \in about(m) : Late(s, at)}
  /\ UNCHANGED <<time, pages, cursor, pass>>

\* emitEvent: an event whose dedupe key is taken is not written.
Emitted(S) == {s \in S : stamp[s] = 0}

\* retractSubject: the live events of the subject are revoked.
Revoked(s) == live \cap {s}

\* announcePublished, for one meeting or a batch; once more for a published one.
PublishRecords(S, at) ==
  /\ onsite' = onsite \cup S
  /\ live' = live \cup Emitted(S)
  /\ standing' = standing
  /\ Committed(Emitted(S), at)

WithdrawRecord(m, at) ==
  /\ onsite' = onsite \ {m}
  /\ live' = live \ {m}
  /\ standing' = standing
  /\ Committed(Revoked(m), at)

\* An approval is announced if its meeting is public, and never later.
ApproveQuote(q, at) ==
  /\ standing[q] = "held"
  /\ standing' = [standing EXCEPT ![q] = "approved"]
  /\ onsite' = onsite
  /\ LET told == Emitted({q} \cap {c \in Quotes : RecordOf[c] \in onsite}) IN
       live' = live \cup told /\ Committed(told, at)

RetractQuote(q, at) ==
  /\ standing[q] = "approved"
  /\ standing' = [standing EXCEPT ![q] = "retracted"]
  /\ onsite' = onsite
  /\ live' = live \ {q}
  /\ Committed(Revoked(q), at)

Clock ==
  /\ time < MaxTime
  /\ time' = time + 1
  /\ UNCHANGED <<recordVars, pages, cursor, pass, unread, astray>>

-----------------------------------------------------------------------------
(* The consumer.                                                           *)

KeyOf(s) == Key(s, stamp[s])

\* The events past the cursor, which is stored to the millisecond.
Beyond(s) == Before(cursor, KeyOf(s))

Past == {s \in Told : stamp[s] # 0 /\ Beyond(s)}

\* The first of the keyset.
FirstOf(n, S) == {s \in S : Cardinality({u \in S : Before(KeyOf(u), KeyOf(s))}) < n}

\* toISOString: cut to the millisecond.
CursorAt(s) == [at |-> stamp[s] - (stamp[s] % Grain), id |-> EventId[s]]

\* tick: the events past the cursor, and the pages they lead to.
TakeBatch(r) ==
  /\ ~pass[r].busy /\ Past # {}
  /\ LET batch == FirstOf(PageBatch, Past)
         last == CHOOSE s \in batch : \A u \in batch : ~Before(KeyOf(s), KeyOf(u)) IN
       pass' = [pass EXCEPT ![r] =
         [busy |-> TRUE, read |-> {<<s, stamp[s]>> : s \in batch}, built |-> {},
          todo |-> {PageOf(s) : s \in batch}, upto |-> CursorAt(last)]]
  /\ UNCHANGED <<recordVars, time, pages, cursor, unread, astray>>

\* rebuild: the meetings that are public, and no others.
Rebuild(r) ==
  /\ ~pass[r].busy
  /\ pass' = [pass EXCEPT ![r] = [Asleep EXCEPT !.busy = TRUE, !.todo = onsite]]
  /\ UNCHANGED <<recordVars, time, pages, cursor, unread, astray>>

\* buildPage reads the record...
Build(r, m) ==
  /\ m \in pass[r].todo /\ pass[r].built = {}
  /\ pass' = [pass EXCEPT ![r].built = {<<m, Content(m)>>}]
  /\ UNCHANGED <<recordVars, time, pages, cursor, unread, astray>>

\* Some change of m is still to be read.
Mends(m) ==
  \E s \in unread : /\ PageOf(s) = m /\ ~Late(s, stamp[s])
                    /\ \A r \in Renderers : <<s, stamp[s]>> \notin pass[r].read

\* One page less to do.
Without(r, m) == [pass EXCEPT ![r] = [@ EXCEPT !.todo = pass[r].todo \ {m}, !.built = {}]]

\* ... and renderTarget writes the file, or removes it, as the record was then.
PutPage(r) ==
  \E b \in pass[r].built :
    LET m == b[1] IN
    /\ pages' = [pages EXCEPT ![m] = b[2]]
    /\ pass' = Without(r, m)
    /\ astray' = CASE b[2] = Content(m) -> astray \ {m}
                   [] Mends(m) -> astray
                   [] OTHER -> astray \cup {m}
    /\ UNCHANGED <<recordVars, time, cursor, unread>>

\* A page fails: it is logged and the pass goes on.
PageFails(r) ==
  \E b \in pass[r].built :
    /\ pass' = Without(r, b[1])
    /\ astray' = astray \cup {b[1]}
    /\ UNCHANGED <<recordVars, time, pages, cursor, unread>>

\* The cursor is written; the rebuild has none to write.
WriteCursor(r) ==
  /\ pass[r].busy /\ pass[r].todo = {}
  /\ cursor' = IF pass[r].upto = Zero THEN cursor ELSE pass[r].upto
  /\ unread' = {s \in unread : <<s, stamp[s]>> \notin pass[r].read}
  /\ pass' = [pass EXCEPT ![r] = Asleep]
  /\ UNCHANGED <<recordVars, time, pages, astray>>

\* The process dies, or the query or a read fails: the pass ends where it was.
Abandon(r) ==
  /\ pass[r].busy
  /\ pass' = [pass EXCEPT ![r] = Asleep]
  /\ UNCHANGED <<recordVars, time, pages, cursor, unread, astray>>

\* The cursor file is lost or cannot be parsed.
LoseCursor ==
  /\ cursor # Zero
  /\ cursor' = Zero
  /\ UNCHANGED <<recordVars, time, pages, pass, unread, astray>>

Decide(at) ==
  \/ \E S \in SUBSET Records \ {{}} : PublishRecords(S, at)
  \/ \E m \in Records : WithdrawRecord(m, at)
  \/ \E q \in Quotes : ApproveQuote(q, at) \/ RetractQuote(q, at)

PrerenderNext ==
  \/ \E at \in 1..time : Decide(at)
  \/ Clock
  \/ \E r \in Renderers :
       \/ TakeBatch(r) \/ Rebuild(r)
       \/ \E m \in Records : Build(r, m)
       \/ PutPage(r) \/ PageFails(r) \/ WriteCursor(r) \/ Abandon(r)
  \/ LoseCursor

PrerenderSpec == PrerenderInit /\ [][PrerenderNext]_prerenderVars

-----------------------------------------------------------------------------
(* Properties.                                                             *)

\* No pass is under way, and no change waits past the cursor to be read.
AtRest ==
  /\ \A r \in Renderers : ~pass[r].busy
  /\ \A s \in unread : ~Beyond(s)

\* Once the consumer has caught up, a page shows what is public, after deaths
\* between pages and cursor, changes while a page is built and a lost cursor.
\* Excepted are the pages whose change committed behind the cursor or was told
\* by no event, that failed to render, or that a second process wrote late
\* (consumer.ts: "Rendering is idempotent, so an overlapping replay costs
\* nothing").
PagesFollow ==
  AtRest => \A m \in Records \ astray : pages[m] = Content(m)

\* Once the consumer has caught up, nothing that was taken back is on a page:
\* "a prerendered page that outlives its withdrawal is the worst failure this
\* system can produce" (consumer.ts).
NothingOutlives == AtRest => \A m \in Records : pages[m] \subseteq Content(m)
=============================================================================
