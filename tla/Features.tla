------------------------------ MODULE Features ------------------------------
(***************************************************************************)
(* One switch of the feature registry                                      *)
(* (backend/src/services/features/registry.ts): a row, the log of its      *)
(* changes, and in every process a cache of the row that a poll refreshes  *)
(* and the process's own writes set.                                       *)
(*                                                                         *)
(* A poll is a query whose answer is applied later; a change is a          *)
(* transaction, after whose commit the process sets its cache.  Both may   *)
(* be under way in one process.  The kill switch and the legacy variable   *)
(* are constants of a deployment and decide nothing here.                  *)
(***************************************************************************)
EXTENDS Naturals, Sequences

CONSTANTS
  Servers,     \* processes with a registry
  Clerks,      \* operators at the console
  MaxFlips,    \* bound: changes asked for
  MaxFaults    \* bound: polls that fail and processes that die

ASSUME FeaturesConstants == MaxFlips \in Nat /\ MaxFaults \in Nat

VARIABLES
  row,     \* features.enabled; "unset": no row
  trail,   \* features_audit, in the order of commits
  server,  \* server[v]: up; cache; poll: the answer it waits to apply, or "idle"
  flip,    \* flip[o]: the change an operator asked of a server
  flips,   \* changes asked for so far
  faults   \* faults so far

featureVars == <<row, trail, server, flip, flips, faults>>

Switch == {"on", "off"}
Row == Switch \cup {"unset"}
Line == [from : Row, to : Switch]
Server == [up : BOOLEAN, cache : Row, poll : Row \cup {"idle"}]
Down == [up |-> FALSE, cache |-> "unset", poll |-> "idle"]
NoFlip == [pc |-> "none", by |-> "nobody", to |-> "off", from |-> "unset"]
Flip == [pc : {"none", "asked", "read", "written"}, by : Servers \cup {"nobody"},
         to : Switch, from : Row]
Flipping(o, pc) == flip[o].pc = pc
Polling(v) == server[v].poll # "idle"

FeaturesTypeOK ==
  /\ row \in Row
  /\ trail \in Seq(Line)
  /\ server \in [Servers -> Server]
  /\ flip \in [Clerks -> Flip]
  /\ flips \in 0..MaxFlips /\ faults \in 0..MaxFaults

\* Nobody has touched the switch, or somebody has turned it on.
FeaturesInit ==
  /\ \/ row = "unset" /\ trail = <<>>
     \/ row = "on" /\ trail = <<[from |-> "unset", to |-> "on"]>>
  /\ server = [v \in Servers |-> Down]
  /\ flip = [o \in Clerks |-> NoFlip]
  /\ flips = 0 /\ faults = 0

-----------------------------------------------------------------------------
\* A process starts: nothing is cached until a poll has succeeded.
Boot(v) ==
  /\ ~server[v].up
  /\ server' = [server EXCEPT ![v].up = TRUE]
  /\ UNCHANGED <<row, trail, flip, flips, faults>>

\* Mutant: the rows are read until they have been seen.
DueOnce(v) == server[v].up /\ ~Polling(v) /\ server[v].cache = "unset"

\* A tick reads the rows, unless one is still at it.
Due(v) == server[v].up /\ ~Polling(v)

PollRead(v) ==
  /\ Due(v)
  /\ server' = [server EXCEPT ![v].poll = row]
  /\ UNCHANGED <<row, trail, flip, flips, faults>>

\* What was read replaces the cache.
PollApply(v) ==
  /\ server[v].up /\ Polling(v)
  /\ server' = [server EXCEPT ![v].cache = server[v].poll, ![v].poll = "idle"]
  /\ UNCHANGED <<row, trail, flip, flips, faults>>

\* What a tick that failed leaves: the cache as it was, and the way free.
AfterFailure(v) == [server[v] EXCEPT !.poll = "idle"]

PollFails(v) ==
  /\ server[v].up /\ Polling(v) /\ faults < MaxFaults
  /\ faults' = faults + 1
  /\ server' = [server EXCEPT ![v] = AfterFailure(v)]
  /\ UNCHANGED <<row, trail, flip, flips>>

\* The process dies, and with it its transactions and its cache.
Die(v) ==
  /\ server[v].up /\ faults < MaxFaults
  /\ faults' = faults + 1
  /\ server' = [server EXCEPT ![v] = Down]
  /\ flip' = [o \in Clerks |-> IF flip[o].by = v THEN NoFlip ELSE flip[o]]
  /\ UNCHANGED <<row, trail, flips>>

-----------------------------------------------------------------------------
\* setFlag: an operator asks a server for a change, with a reason.
AskFlip(o, v, to) ==
  /\ Flipping(o, "none") /\ server[v].up /\ flips < MaxFlips
  /\ flips' = flips + 1
  /\ flip' = [flip EXCEPT ![o] = [pc |-> "asked", by |-> v, to |-> to, from |-> "unset"]]
  /\ UNCHANGED <<row, trail, server, faults>>

\* Mutant: a plain read.
UnlockedAlways(o) == TRUE

\* The row can be read FOR UPDATE; who found no row has locked none.
Unlocked(o) == ~\E p \in Clerks \ {o} : Flipping(p, "read") /\ flip[p].from # "unset"

\* The transaction reads the row it is about to change; a change that changes
\* nothing is refused.
ReadRow(o) ==
  /\ Flipping(o, "asked") /\ Unlocked(o)
  /\ flip' = [flip EXCEPT ![o] = IF row = flip[o].to THEN NoFlip
                                 ELSE [@ EXCEPT !.pc = "read", !.from = row]]
  /\ UNCHANGED <<row, trail, server, flips, faults>>

\* The row and its line of the log are written and committed.  Of two first
\* rows the second breaks the primary key, and its transaction is rolled back.
WriteRow(o) ==
  /\ Flipping(o, "read")
  /\ IF flip[o].from = "unset" /\ row # "unset"
     THEN flip' = [flip EXCEPT ![o] = NoFlip] /\ UNCHANGED <<row, trail>>
     ELSE /\ row' = flip[o].to
          /\ trail' = Append(trail, [from |-> flip[o].from, to |-> flip[o].to])
          /\ flip' = [flip EXCEPT ![o].pc = "written"]
  /\ UNCHANGED <<server, flips, faults>>

\* The server that wrote it sets its cache.
ShowFlip(o) ==
  /\ Flipping(o, "written")
  /\ server' = [server EXCEPT ![flip[o].by].cache = flip[o].to]
  /\ flip' = [flip EXCEPT ![o] = NoFlip]
  /\ UNCHANGED <<row, trail, flips, faults>>

FlipStep(o) == ReadRow(o) \/ WriteRow(o) \/ ShowFlip(o)

FeaturesNext ==
  \/ \E v \in Servers : Boot(v) \/ PollRead(v) \/ PollApply(v) \/ PollFails(v) \/ Die(v)
  \/ \E o \in Clerks, v \in Servers, to \in Switch : AskFlip(o, v, to)
  \/ \E o \in Clerks : FlipStep(o)

FeaturesSpec == FeaturesInit /\ [][FeaturesNext]_featureVars

\* The interval fires for as long as a process lives, a query is answered, and
\* a transaction runs to its end.
FeaturesFairness ==
  /\ \A v \in Servers : WF_featureVars(PollRead(v)) /\ WF_featureVars(PollApply(v))
  /\ \A o \in Clerks : WF_featureVars(FlipStep(o))

-----------------------------------------------------------------------------
(* Properties.                                                             *)

\* The log is the history of the switch, also when two operators change it at
\* once: each line goes on from the one before, the first from no row, and the
\* last is how the switch stands (registry.ts: "both writing an audit row
\* claiming the same transition").
FlipsChain ==
  /\ \A i \in DOMAIN trail :
       trail[i].from = IF i = 1 THEN "unset" ELSE trail[i - 1].to
  /\ row = IF trail = <<>> THEN "unset" ELSE trail[Len(trail)].to

\* Once nobody changes the switch any more, every process that is up comes to
\* go by the row, although a poll that began before the last change, or a
\* late write of its own, puts an older value into its cache (registry.ts:
\* "how a toggle reaches a process that did not serve the request").
CachesConverge == \A v \in Servers : <>[](server[v].up => server[v].cache = row)
=============================================================================
