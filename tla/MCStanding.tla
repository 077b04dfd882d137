----------------------------- MODULE MCStanding -----------------------------
(***************************************************************************)
(* IngestionQueue, Politeness and Features for TLC, one of them in a       *)
(* behaviour: the loops, chains and polls that stand for as long as a      *)
(* process lives.                                                          *)
(*                                                                         *)
(* Politeness: three callers, a delay of two, and a site that may ask for  *)
(* no time, for less than the delay, for the longest time granted and for  *)
(* longer.  Features: two servers, two operators and a switch that nobody  *)
(* has touched, or that was turned on.  A module whose turn it is not      *)
(* stays in its first state, where fairness asks nothing of it.            *)
(***************************************************************************)
EXTENDS MCIngestionQueue, Politeness, Features

CONSTANTS p1, p2, p3

VARIABLE turn

MCInit ==
  /\ Init /\ PolitenessInit /\ FeaturesInit
  /\ turn \in {"queue", "politeness", "features"}
  /\ turn = "features" \/ row = "unset"

MCNext ==
  /\ turn' = turn
  /\ \/ turn = "queue" /\ Next /\ UNCHANGED <<politeVars, featureVars>>
     \/ turn = "politeness" /\ PolitenessNext /\ UNCHANGED <<vars, featureVars>>
     \/ turn = "features" /\ FeaturesNext /\ UNCHANGED <<vars, politeVars>>

MCSpec == MCInit /\ [][MCNext]_<<vars, politeVars, featureVars, turn>>

MCFairSpec == MCSpec /\ Fairness /\ PolitenessFairness /\ FeaturesFairness
=============================================================================
