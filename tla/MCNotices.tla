------------------------------ MODULE MCNotices ------------------------------
(***************************************************************************)
(* Delivery and Disputes for TLC, one of them in a behaviour: the notices  *)
(* the dispatcher posts to channels and the replies it mails to those who  *)
(* contest a record. They share no row.                                    *)
(*                                                                         *)
(* Disputes: three contests of one record, one of which can be replied to, *)
(* two operators and two servers. The servers are those of Delivery, and   *)
(* the operators have their names.                                         *)
(***************************************************************************)
EXTENDS MCDelivery, Disputes

CONSTANTS c1, c2, c3, rec

VARIABLE turn

MCContestedBy == [c \in Contests |-> rec]
MCSymmetry == Permutations({p1, p2}) \cup Permutations({c2, c3})

MCInit == DeliveryInit /\ DisputesInit /\ turn \in {"channels", "replies"}

MCNext ==
  /\ turn' = turn
  /\ \/ turn = "channels" /\ DeliveryNext /\ UNCHANGED disputeVars
     \/ turn = "replies" /\ DisputesNext /\ UNCHANGED allVars

MCSpec == MCInit /\ [][MCNext]_<<allVars, disputeVars, turn>>
=============================================================================
