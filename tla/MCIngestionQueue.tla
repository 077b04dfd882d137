-------------------------- MODULE MCIngestionQueue --------------------------
(***************************************************************************)
(* IngestionQueue for TLC: the deployment buildIngestionStack wires, in    *)
(* small.  Two parse jobs and one extract job; a sweep's worker that       *)
(* claims every stage and handles those of createIngestionHandlers, and    *)
(* the two standing loops, each restricted to the stage it handles.        *)
(***************************************************************************)
EXTENDS IngestionQueue

CONSTANTS j1, j2, j3, sweeper, parser, extractor, parse, extract

MCJobs     == {j1, j2, j3}
MCWorkers  == {sweeper, parser, extractor}
MCStages   == {parse, extract}
MCStanding == {parser, extractor}

MCStageOf == [j \in Jobs |-> IF j = j3 THEN extract ELSE parse]

MCClaimStages ==
  [w \in Workers |-> CASE w = sweeper -> Stages
                       [] w = parser -> {parse}
                       [] w = extractor -> {extract}]

MCHandlers ==
  [w \in Workers |-> IF w = extractor THEN {extract} ELSE {parse}]

=============================================================================
