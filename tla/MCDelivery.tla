----------------------------- MODULE MCDelivery -----------------------------
(***************************************************************************)
(* Delivery for TLC: one meeting, one or two servers, an immediate channel *)
(* and perhaps one held for a digest.                                      *)
(***************************************************************************)
EXTENDS Delivery, TLC

CONSTANTS meeting, p1, p2, webhook, phone

MCMeetingOf == << >>
=============================================================================
