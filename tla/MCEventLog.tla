----------------------------- MODULE MCEventLog -----------------------------
(***************************************************************************)
(* EventLog for TLC: one meeting with a claim and perhaps a finding, and   *)
(* the drains of one or two server processes (two while a deploy           *)
(* overlaps).                                                              *)
(***************************************************************************)
EXTENDS EventLog, TLC

CONSTANTS meeting, claim, anomaly, p1, p2

MCMeetingOf == [x \in Items |-> meeting]
=============================================================================
