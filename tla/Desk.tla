-------------------------------- MODULE Desk --------------------------------
(***************************************************************************)
(* What operators decide at the console, and the log that must tell of it: *)
(* backend/src/services/review (claims.ts, queue.ts, place-links.ts,       *)
(* policy.ts), pressroom/corrections.ts, finance/entity-resolution.ts and  *)
(* the wall of publication.ts, for one meeting.                            *)
(*                                                                         *)
(* Each decision is a database transaction at read committed: it reads a   *)
(* row, appends to record_corrections and writes the row.  Most lock the   *)
(* row they read (FOR UPDATE); a single publication does not.  Meanwhile   *)
(* extraction merges what it reads again into claims that were decided,    *)
(* and a deploy renders anew.                                              *)
(***************************************************************************)
EXTENDS Naturals, Sequences, FiniteSets

CONSTANTS
  Operators,   \* consoles open
  Sentences,   \* minute_claims of the meeting
  Findings,    \* anomaly_flags of the meeting
  Pins,        \* place_links
  Inferred,    \* the links whose confidence is inferred
  Pairs,       \* pairs of names an operator may judge
  Meeting,     \* the meeting, for its published_at
  Wordings,    \* what a claim, a finding or a field may read
  Nothing,     \* no row, no wording
  MaxBuilds,   \* bound: deploys that change the rendering
  MaxAudit     \* bound: rows of the log, with those a transaction may yet add

ASSUME DeskConstants ==
  /\ Inferred \subseteq Pins
  /\ Sentences \cap Findings = {} /\ Sentences \cap Pins = {} /\ Findings \cap Pins = {}
  /\ Pairs \cap (Sentences \cup Findings \cup Pins) = {}
  /\ Meeting \notin Sentences \cup Findings \cup Pins \cup Pairs
  /\ Nothing \notin Wordings \cup Sentences \cup Findings \cup Pins \cup Pairs \cup {Meeting}
  /\ MaxBuilds \in Nat \ {0} /\ MaxAudit \in Nat

VARIABLES
  status,   \* status[r]: how the row stands
  wording,  \* wording[r]: what it reads
  pin,      \* pin[c]: the rendered_text and render_version of a claim
  build,    \* RENDER_VERSION of the server
  audit,    \* record_corrections, in the order of commit
  card,     \* card[o]: the card an operator has on the screen
  open      \* open[o]: the operator's open transaction

deskVars == <<status, wording, pin, build, audit, card, open>>

Items == Sentences \cup Findings \cup Pins
Rows == Items \cup Pairs \cup {Meeting}
Texts == Sentences \cup Findings
Standings == {"none", "flagged", "ruled", "held", "approved", "rejected", "retracted",
              "same", "different", "withheld", "published"}
Ops == {"approve", "reject", "retract", "edit", "judge", "batch", "publish"}
NoPin == [text |-> Nothing, build |-> 0]
Closed == [op |-> "none", row |-> Nothing, old |-> Nothing, new |-> Nothing]
Values == Standings \cup Wordings \cup {Nothing}
Pin == [text : Wordings \cup {Nothing}, build : 0..MaxBuilds]
Transaction == [op : Ops \cup {"none"}, row : Rows \cup {Nothing}, old : Values, new : Values]
LogRow == [op : Ops, row : Rows, field : BOOLEAN, old : Values, new : Values,
           said : Wordings \cup {Nothing}]

DeskTypeOK ==
  /\ status \in [Rows -> Standings]
  /\ wording \in [Texts -> Wordings]
  /\ pin \in [Sentences -> Pin]
  /\ build \in 1..MaxBuilds
  /\ audit \in Seq(LogRow)
  /\ card \in [Operators -> Items \cup {Nothing}]
  /\ open \in [Operators -> Transaction]

DeskInit ==
  /\ status = [r \in Rows |-> CASE r \in Sentences \cup Pins -> "held"
                                [] r = Meeting -> "withheld"
                                [] OTHER -> "none"]
  /\ \E w \in Wordings : wording = [r \in Texts |-> w]
  /\ pin = [c \in Sentences |-> NoPin]
  /\ build = 1
  /\ audit = <<>>
  /\ card = [o \in Operators |-> Nothing]
  /\ open = [o \in Operators |-> Closed]

-----------------------------------------------------------------------------
(* The wall, and what stands behind it.                                    *)

\* Mutant: a claim renders whatever it reads now.
RenderableUnpinned(c) == pin[c] # NoPin

\* renderApprovedClaim: the sentence must render as it was approved.
Renderable(c) == pin[c] = [text |-> wording[c], build |-> build]

\* whereMeetingPublished, whereFindingPublic, whereClaimPublic, listPublicClaims,
\* wherePlaceLinkPublic
Public(r) ==
  /\ r \in Items /\ status[Meeting] = "published"
  /\ status[r] = "approved" \/ (r \in Findings /\ status[r] = "ruled")
  /\ r \in Sentences => Renderable(r)
  /\ r \notin Inferred

TextOf(r) == IF r \in Texts THEN wording[r] ELSE Nothing

\* The detector raises a finding: to be held, or published by rule.
Raise(x) ==
  /\ status[x] = "none"
  /\ \E s \in {"flagged", "ruled"} : status' = [status EXCEPT ![x] = s]
  /\ UNCHANGED <<wording, pin, build, audit, card, open>>

\* ensureApprovalRequests, when the queue is read and before each decision.
EnsureRequests ==
  /\ \E x \in Findings : status[x] = "flagged"
  /\ status' = [r \in Rows |-> IF status[r] = "flagged" THEN "held" ELSE status[r]]
  /\ UNCHANGED <<wording, pin, build, audit, card, open>>

\* A card is loaded, and stays on the screen while others decide.
LoadCard(o, x) ==
  /\ open[o] = Closed /\ card[o] = Nothing
  /\ status[x] \in {"held", "approved"}
  /\ card' = [card EXCEPT ![o] = x]
  /\ UNCHANGED <<status, wording, pin, build, audit, open>>

LeaveCard(o) ==
  /\ open[o] = Closed /\ card[o] # Nothing
  /\ card' = [card EXCEPT ![o] = Nothing]
  /\ UNCHANGED <<status, wording, pin, build, audit, open>>

-----------------------------------------------------------------------------
(* Transactions.                                                           *)

\* The operations that read their row FOR UPDATE.
Locking == {"approve", "reject", "retract", "edit", "judge", "batch"}

\* Mutant: plain SELECTs.
HoldsNothing(o, r) == FALSE

\* FOR UPDATE on a pair not judged yet finds no row to lock.
Holds(o, r) == /\ open[o].row = r /\ open[o].op \in Locking
               /\ open[o].op = "judge" => open[o].old # "none"

\* No transaction holds r's row.
Free(r) == \A o \in Operators : ~Holds(o, r)

\* Each operation's guards on the row as read.
Allowed(op, r) ==
  CASE op = "approve" -> r \in Items \ Inferred /\ status[r] = "held"
    [] op = "reject" -> r \in Items /\ status[r] = "held"
    [] op = "retract" -> r \in Sentences /\ status[r] = "approved"
    [] op = "edit" -> r \in Findings /\ status[r] = "held"
    [] op = "judge" -> r \in Pairs
    [] op = "batch" -> r = Meeting /\ status[r] = "withheld"
    [] op = "publish" -> r = Meeting

\* What it may write.
News(op) ==
  CASE op = "approve" -> {"approved"}
    [] op = "reject" -> {"rejected"}
    [] op = "retract" -> {"retracted"}
    [] op = "judge" -> {"same", "different"}
    [] op = "batch" -> {"published"}
    [] op = "publish" -> {"published", "withheld"}
    [] OTHER -> Wordings

\* Transactions open, each about to add a row to the log.
Underway == {o \in Operators : open[o] # Closed}

Current(op, r) == IF op = "edit" THEN wording[r] ELSE status[r]

\* The row is read; an item is decided from the card on the screen.
Begin(o, op, r) ==
  /\ open[o] = Closed
  /\ r \in Items => card[o] = r
  /\ op \in Locking => Free(r)
  /\ Allowed(op, r)
  /\ Len(audit) + Cardinality(Underway) < MaxAudit
  /\ \E new \in News(op) :
       open' = [open EXCEPT ![o] = [op |-> op, row |-> r, old |-> Current(op, r), new |-> new]]
  /\ UNCHANGED <<status, wording, pin, build, audit, card>>

\* A row of the log; approvals with the text they pin.
Entry(o) ==
  LET t == open[o] IN
  [op |-> t.op, row |-> t.row, field |-> t.op = "edit", old |-> t.old, new |-> t.new,
   said |-> IF t.op = "approve" THEN TextOf(t.row) ELSE Nothing]

\* Two first judgements of a pair meet at its unique index.
Clash(o) == open[o].op = "judge" /\ open[o].old = "none" /\ status[open[o].row] # "none"

\* rendered_text, render_sha256 and render_version.
Pinned(c) == [text |-> wording[c], build |-> build]

\* The row's update waits for whoever holds it, and commits with the log.
Commit(o) ==
  LET t == open[o] IN
  /\ t # Closed
  /\ \A p \in Operators \ {o} : ~Holds(p, t.row)
  /\ ~Clash(o)
  /\ audit' = Append(audit, Entry(o))
  /\ IF t.op = "edit"
     THEN wording' = [wording EXCEPT ![t.row] = t.new] /\ status' = status
     ELSE status' = [status EXCEPT ![t.row] = t.new] /\ wording' = wording
  /\ pin' = IF t.op = "approve" /\ t.row \in Sentences
            THEN [pin EXCEPT ![t.row] = Pinned(t.row)] ELSE pin
  /\ open' = [open EXCEPT ![o] = Closed]
  /\ card' = [card EXCEPT ![o] = Nothing]
  /\ UNCHANGED build

\* A clash, an error or a death: nothing is left.
Rollback(o) ==
  /\ open[o] # Closed
  /\ open' = [open EXCEPT ![o] = Closed]
  /\ UNCHANGED <<status, wording, pin, build, audit, card>>

\* Extraction stores a claim again: persistClaims merges matter and quote.
Remerge(c) ==
  /\ Free(c)
  /\ \E w \in Wordings : wording' = [wording EXCEPT ![c] = w]
  /\ UNCHANGED <<status, pin, build, audit, card, open>>

\* A deploy with another RENDER_VERSION.
Deploy ==
  /\ build < MaxBuilds
  /\ build' = build + 1
  /\ UNCHANGED <<status, wording, pin, audit, card, open>>

DeskNext ==
  \/ \E x \in Findings : Raise(x)
  \/ EnsureRequests
  \/ \E o \in Operators :
       \/ \E x \in Items : LoadCard(o, x)
       \/ LeaveCard(o)
       \/ \E op \in Ops, r \in Rows : Begin(o, op, r)
       \/ Commit(o)
       \/ Rollback(o)
  \/ \E c \in Sentences : Remerge(c)
  \/ Deploy

DeskSpec == DeskInit /\ [][DeskNext]_deskVars

-----------------------------------------------------------------------------
(* Properties.                                                             *)

\* The log's i-th row tells how r stands.
Tells(i, r) == audit[i].row = r /\ ~audit[i].field

\* Nothing between i and j tells of r.
Silent(i, j, r) == \A k \in i..j : ~Tells(k, r)

\* The log tells how every item and every pair came to stand as it does: each
\* row goes on from the one before, and the last is how the row stands, also
\* when two operators decide at once (the FOR UPDATE of each loadForDecision,
\* and the unique index of a pair's first judgement).
DecisionsChain ==
  \A r \in Items \cup Pairs : \A i \in 1..Len(audit) : Tells(i, r) =>
    /\ \A j \in i+1..Len(audit) :
         Tells(j, r) /\ Silent(i + 1, j - 1, r) => audit[j].old = audit[i].new
    /\ Silent(i + 1, Len(audit), r) => audit[i].new = status[r]

\* What was refused or taken back does not come back: no decision that was
\* under way at the time revives it (claims.ts, queue.ts, place-links.ts).
RefusedStaysRefused ==
  [][\A r \in Items : status[r] \in {"rejected", "retracted"} => status'[r] = status[r]]_deskVars

\* What a reader is shown of a claim reads as it did when an operator approved
\* it, whatever extraction has merged into the claim since
\* (claims.ts: renderApprovedClaim).
PublishedSentenceHolds ==
  \A c \in Sentences :
    Public(c) => \E i \in 1..Len(audit) :
      audit[i].op = "approve" /\ audit[i].row = c /\ audit[i].said = wording[c]
=============================================================================
