------------------------------ MODULE MCOutgoing ------------------------------
(***************************************************************************)
(* EventLog, Extraction, Alerts and Archive for TLC, one of them in a      *)
(* behaviour: what is extracted, and what leaves as events, alerts and     *)
(* daily snapshots. They share no row in the models.                       *)
(*                                                                         *)
(* Two processes are the drains, the extracting workers, the detections    *)
(* and the snapshot loops of the two servers a deploy has up: p1 and p2.   *)
(***************************************************************************)
EXTENDS MCEventLog, Extraction, Alerts, Archive

CONSTANTS grave, mild, reader, digest, command, official, private, router, served

VARIABLE turn

MCPolicies == {{}, {grave, mild}}
MCMaxFindings == [r \in AlertRules |-> IF r = grave THEN 2 ELSE 1]
AnyServer == Permutations({p1, p2})

MCInit ==
  /\ Init /\ ExtractionInit /\ AlertsInit /\ ArchiveInit
  /\ turn \in {"events", "extraction", "alerts", "archive"}
  /\ turn # "alerts" => threshold = {}
  /\ turn # "archive" => exported = {}

MCNext ==
  /\ turn' = turn
  /\ \/ turn = "events" /\ Next /\ UNCHANGED <<extractionVars, alertVars, archiveVars>>
     \/ turn = "extraction" /\ ExtractionNext /\ UNCHANGED <<vars, alertVars, archiveVars>>
     \/ turn = "alerts" /\ AlertsNext /\ UNCHANGED <<vars, extractionVars, archiveVars>>
     \/ turn = "archive" /\ ArchiveNext /\ UNCHANGED <<vars, extractionVars, alertVars>>

MCSpec == MCInit /\ [][MCNext]_<<vars, extractionVars, alertVars, archiveVars, turn>>
=============================================================================
