------------------------------- MODULE Archive -------------------------------
(***************************************************************************)
(* The dated archive of the public export: backend/src/services/export     *)
(* (snapshot-scheduler.ts, manual-snapshot.ts, archive.ts).                *)
(*                                                                         *)
(* Every server's loop asks each hour whether the day has a snapshot, and  *)
(* takes one under an advisory lock; an operator may take one by hand, and *)
(* force a second one of the day.  A snapshot reads the datasets one after *)
(* the other while records are published and withdrawn.  The rows of the   *)
(* ledger that say why a cycle took nothing are left out.                  *)
(***************************************************************************)
EXTENDS Naturals, Sequences

CONSTANTS
  Loops,         \* the loops of the servers that are up
  Command,       \* npm run export:snapshot
  Entries,       \* records, each with a row in every dataset
  Datasets,      \* how many datasets the export has
  DayLength,     \* moments of a day
  LastMoment,    \* bound: the last moment
  MaxSnapshots,  \* bound: snapshots taken
  MaxBreaks      \* bound: cycles that fail

ASSUME ArchiveConstants ==
  /\ Command \notin Loops
  /\ Datasets \in Nat \ {0} /\ DayLength \in Nat \ {0}
  /\ LastMoment \in Nat /\ MaxSnapshots \in Nat /\ MaxBreaks \in Nat

VARIABLES
  exported,   \* the records whose rows the builders return
  moment,     \* the clock of servers and database
  cycle,      \* cycle[p]: the cycle p is in
  lock,       \* who has the advisory lock, at most one
  snapshots,  \* export_snapshots and their datasets, in the order of commits
  taken,      \* taken[d]: the snapshot the ledger's row for day d names, or 0
  breaks      \* failures so far

archiveVars == <<exported, moment, cycle, lock, snapshots, taken, breaks>>

Scribes == Loops \cup {Command}
Day(t) == t \div DayLength   \* utcDay
Days == 0..Day(LastMoment)
NoCycle == [pc |-> "idle", day |-> 0, at |-> 0, force |-> FALSE, held |-> <<>>]
Cycle == [pc : {"idle", "woken", "begun", "locked", "reading"}, day : Days, at : 0..LastMoment,
          force : BOOLEAN, held : Seq(SUBSET Entries)]
Snapshot == [day : Days, at : 0..LastMoment, force : BOOLEAN, whole : BOOLEAN]

ArchiveTypeOK ==
  /\ exported \subseteq Entries
  /\ moment \in 0..LastMoment
  /\ cycle \in [Scribes -> Cycle]
  /\ lock \subseteq Scribes
  /\ snapshots \in Seq(Snapshot) /\ Len(snapshots) <= MaxSnapshots
  /\ taken \in [Days -> 0..Len(snapshots)]
  /\ breaks \in 0..MaxBreaks

ArchiveInit ==
  /\ exported \in SUBSET Entries
  /\ moment = 0
  /\ cycle = [p \in Scribes |-> NoCycle]
  /\ lock = {}
  /\ snapshots = <<>>
  /\ taken = [d \in Days |-> 0]
  /\ breaks = 0

In(p, pc) == cycle[p].pc = pc
Ended(p) == [cycle EXCEPT ![p] = NoCycle]
Released(p) == lock \ {p}

-----------------------------------------------------------------------------
(* What goes on around it.                                                 *)

Elapse ==
  /\ moment < LastMoment /\ moment' = moment + 1
  /\ UNCHANGED <<exported, cycle, lock, snapshots, taken, breaks>>

PublishEntry(r) ==
  /\ r \notin exported /\ exported' = exported \cup {r}
  /\ UNCHANGED <<moment, cycle, lock, snapshots, taken, breaks>>

WithdrawEntry(r) ==
  /\ r \in exported /\ exported' = exported \ {r}
  /\ UNCHANGED <<moment, cycle, lock, snapshots, taken, breaks>>

-----------------------------------------------------------------------------
(* A cycle of a loop (tick), or the command (takeManualSnapshot).          *)

\* The day is read before the transaction begins.  A loop wakes when the
\* feature is on, and only the command may force.
Wake(p, force) ==
  /\ In(p, "idle")
  /\ p \in Loops => ~force
  /\ cycle' = [cycle EXCEPT ![p] =
       [pc |-> "woken", day |-> Day(moment), at |-> 0, force |-> force, held |-> <<>>]]
  /\ UNCHANGED <<exported, moment, lock, snapshots, taken, breaks>>

\* BEGIN: now() is the same until the end, and so is taken_at.
Begin(p) ==
  /\ In(p, "woken")
  /\ cycle' = [cycle EXCEPT ![p] = [@ EXCEPT !.pc = "begun", !.at = moment]]
  /\ UNCHANGED <<exported, moment, lock, snapshots, taken, breaks>>

\* Mutant: the answer of pg_try_advisory_xact_lock is not looked at.
LockFreeAlways == TRUE

LockFree == lock = {}

\* pg_try_advisory_xact_lock: whoever does not get it does nothing.
TryLock(p) ==
  /\ In(p, "begun")
  /\ IF LockFree
     THEN lock' = lock \cup {p} /\ cycle' = [cycle EXCEPT ![p].pc = "locked"]
     ELSE lock' = lock /\ cycle' = Ended(p)
  /\ UNCHANGED <<exported, moment, snapshots, taken, breaks>>

\* snapshotTakenOn
TakenOn(d) == {i \in DOMAIN snapshots : Day(snapshots[i].at) = d}

\* A second snapshot of the day only if forced.
LookAtDay(p) ==
  /\ In(p, "locked")
  /\ IF TakenOn(cycle[p].day) # {} /\ ~cycle[p].force
     THEN cycle' = Ended(p) /\ lock' = Released(p)
     ELSE /\ Len(snapshots) < MaxSnapshots
          /\ cycle' = [cycle EXCEPT ![p].pc = "reading"]
          /\ lock' = lock
  /\ UNCHANGED <<exported, moment, snapshots, taken, breaks>>

\* recordDataset: a statement of its own, and what has committed by then.
RecordDataset(p) ==
  /\ In(p, "reading") /\ Len(cycle[p].held) < Datasets
  /\ cycle' = [cycle EXCEPT ![p].held = Append(@, exported)]
  /\ UNCHANGED <<exported, moment, lock, snapshots, taken, breaks>>

\* Whether every dataset was read from the same state of the records.
OfOneMoment(p) == \A m, n \in 1..Datasets : cycle[p].held[m] = cycle[p].held[n]

\* Mutant: the ledger's row keeps the first snapshot it named.
NamedFirst(p) == IF taken[cycle[p].day] # 0 THEN taken[cycle[p].day] ELSE Len(snapshots) + 1

\* recordSnapshotRun: the row of the day names the newest.
Named(p) == Len(snapshots) + 1

\* The snapshot and its row in the ledger commit together.
CommitSnapshot(p) ==
  /\ In(p, "reading") /\ Len(cycle[p].held) = Datasets
  /\ snapshots' = Append(snapshots, [day |-> cycle[p].day, at |-> cycle[p].at,
                                     force |-> cycle[p].force, whole |-> OfOneMoment(p)])
  /\ taken' = [taken EXCEPT ![cycle[p].day] = Named(p)]
  /\ cycle' = Ended(p) /\ lock' = Released(p)
  /\ UNCHANGED <<exported, moment, breaks>>

\* A statement fails or the process dies: all is rolled back.
Break(p) ==
  /\ ~In(p, "idle") /\ ~In(p, "woken")
  /\ breaks < MaxBreaks /\ breaks' = breaks + 1
  /\ cycle' = Ended(p) /\ lock' = Released(p)
  /\ UNCHANGED <<exported, moment, snapshots, taken>>

ArchiveNext ==
  \/ Elapse
  \/ \E r \in Entries : PublishEntry(r) \/ WithdrawEntry(r)
  \/ \E p \in Scribes :
       \/ \E force \in BOOLEAN : Wake(p, force)
       \/ Begin(p) \/ TryLock(p) \/ LookAtDay(p) \/ RecordDataset(p)
       \/ CommitSnapshot(p) \/ Break(p)

ArchiveSpec == ArchiveInit /\ [][ArchiveNext]_archiveVars

-----------------------------------------------------------------------------
(* Properties.                                                             *)

\* What the archive serves for a day: the snapshot taken last (snapshotOn).
Answers(d) == {i \in TakenOn(d) : \A j \in TakenOn(d) : snapshots[j].at <= snapshots[i].at}

\* A cycle that began after midnight for the day before.
Straddled(i) == Day(snapshots[i].at) # snapshots[i].day

\* Nobody but an operator who forces it takes a second snapshot of a day, with
\* two servers and the command awake at once; a cycle that straddles midnight
\* is excepted (snapshot-scheduler.ts: "One snapshot per UTC day").
OnePerDay ==
  \A i, j \in DOMAIN snapshots :
    i # j /\ Day(snapshots[i].at) = Day(snapshots[j].at) =>
      \E k \in {i, j} : snapshots[k].force \/ Straddled(k)

\* The ledger names for a day what the archive serves for it, unless a cycle
\* straddled midnight, or a forced one began before the one it displaced
\* (snapshot-scheduler.ts: recordSnapshotRun).
LedgerNamesAnswer ==
  \A d \in Days : taken[d] # 0 =>
    \/ taken[d] \in Answers(d)
    \/ \E i \in TakenOn(d) \cup {taken[d]} : Straddled(i)
    \/ snapshots[taken[d]].force /\ \E i \in 1..taken[d] - 1 : i \in Answers(d)

\* A snapshot is of one moment: a record is in all its datasets or in none
\* (archive.ts: "One transaction, so a snapshot cannot record half an export").
SnapshotsAreWhole == \A i \in DOMAIN snapshots : snapshots[i].whole
=============================================================================
