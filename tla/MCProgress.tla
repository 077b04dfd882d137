----------------------------- MODULE MCProgress -----------------------------
(***************************************************************************)
(* Delivery, EventLog by itself and SourceSweep for TLC, one of them in a  *)
(* behaviour: that what was begun comes to an end, whoever dies, throws or *)
(* refuses. A module whose turn it is not stays in its first state, where  *)
(* fairness asks nothing of it.                                            *)
(*                                                                         *)
(* Delivery: one meeting, an immediate channel and one held for a digest.  *)
(* Scheduler: two servers sweep one source. Events: a meeting whose events *)
(* always throw, with a claim; its rows are another database's, so they    *)
(* have variables of their own. The servers are the same two.              *)
(***************************************************************************)
EXTENDS MCDelivery

CONSTANTS claim, site, loop, nobody

VARIABLES
  turn,
  lock, sweep, runs, old, jobs, hand, failures, reached, stops, errors,
  inPublished, inApproved, inRetracted, inDeleted, inDoomed, inTxn, inLog,
  inDispatched, inRevoked, inRecalled, inHanded, inTick, inDraining, inMishaps

sweepVars == <<lock, sweep, runs, old, jobs, hand, failures, reached, stops, errors>>

eventVars ==
  <<inPublished, inApproved, inRetracted, inDeleted, inDoomed, inTxn, inLog,
    inDispatched, inRevoked, inRecalled, inHanded, inTick, inDraining, inMishaps>>

Scheduler == INSTANCE SourceSweep WITH
  Servers <- {p1, p2}, Sources <- {site}, Sweeps <- {<<p1, site>>, <<p2, site>>},
  Fetches <- {}, Loop <- loop, Nobody <- nobody, MaxRuns <- 2, MaxMishaps <- 1

Events == INSTANCE EventLog WITH
  Items <- {claim}, Claims <- {claim}, MeetingOf <- [x \in {claim} |-> meeting],
  Poison <- {meeting}, MaxEvents <- 3, MaxMishaps <- 1,
  published <- inPublished, approved <- inApproved, retracted <- inRetracted,
  deleted <- inDeleted, doomed <- inDoomed, txn <- inTxn, log <- inLog,
  dispatched <- inDispatched, revoked <- inRevoked, recalled <- inRecalled,
  handed <- inHanded, tick <- inTick, draining <- inDraining, mishaps <- inMishaps

MCInit ==
  /\ DeliveryInit /\ Scheduler!Init /\ Events!Init
  /\ turn \in {"channels", "sweeps", "events"}

MCNext ==
  /\ turn' = turn
  /\ \/ turn = "channels" /\ DeliveryNext /\ UNCHANGED <<sweepVars, eventVars>>
     \/ turn = "sweeps" /\ Scheduler!Next /\ UNCHANGED <<allVars, eventVars>>
     \/ turn = "events" /\ Events!Next /\ UNCHANGED <<allVars, sweepVars>>

MCFairSpec ==
  /\ MCInit /\ [][MCNext]_<<allVars, sweepVars, eventVars, turn>>
  /\ DeliveryFairness /\ Scheduler!Fairness /\ Events!Fairness

\* An ingestion run that a death left open is closed in the end
\* (recoverStalledRuns in scheduler.ts): RunsClose of SourceSweep.
RunsClose == Scheduler!RunsClose

\* A meeting whose events always throw holds up no other event
\* (EventDrain.tick in drain.ts): EveryEventLeaves of EventLog.
PoisonHoldsNoneUp == Events!EveryEventLeaves
=============================================================================
