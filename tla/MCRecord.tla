------------------------------ MODULE MCRecord ------------------------------
(***************************************************************************)
(* SourceSweep, Desk and Prerender for TLC, one of them in a behaviour:    *)
(* the sweeps that fill the record, what operators make of it, and the     *)
(* pages that show it. They share no row in the models.                    *)
(*                                                                         *)
(* SourceSweep: a source that two servers sweep while a deploy overlaps,   *)
(* beside one that only the first does. Desk: two operators, a claim, a    *)
(* finding, a place link and one that was inferred, a pair of names, two   *)
(* wordings and one deploy. Prerender: the renderers of the two servers a  *)
(* deploy has up; the operators have their names, p1 and p2.               *)
(***************************************************************************)
EXTENDS SourceSweep, Desk, Prerender, TLC

CONSTANTS
  p1, p2, meeting, claim, finding, link, lead, pair, a, b,
  first, second, s1, s2

VARIABLE turn

MCSweeps == {<<first, s1>>, <<second, s1>>, <<first, s2>>}
MCRecordOf == [q \in Quotes |-> meeting]
MCEventId == [s \in Records \cup Quotes |-> IF s = meeting THEN 1 ELSE 2]
MCSymmetry == Permutations({p1, p2})

MCInit ==
  /\ Init /\ DeskInit /\ PrerenderInit
  /\ turn \in {"sweeps", "desk", "pages"}
  /\ turn # "desk" => wording = [r \in Texts |-> a]

MCNext ==
  /\ turn' = turn
  /\ \/ turn = "sweeps" /\ Next /\ UNCHANGED <<deskVars, prerenderVars>>
     \/ turn = "desk" /\ DeskNext /\ UNCHANGED <<vars, prerenderVars>>
     \/ turn = "pages" /\ PrerenderNext /\ UNCHANGED <<vars, deskVars>>

MCSpec == MCInit /\ [][MCNext]_<<vars, deskVars, prerenderVars, turn>>
=============================================================================
