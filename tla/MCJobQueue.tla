---------------------------- MODULE MCJobQueue ----------------------------
(* Instances of JobQueue for TLC.                                          *)
EXTENDS JobQueueRefinement, TLC

CONSTANTS j1, j2, j3, p1

\* All jobs belong to one pipeline, so that they compete for its lock.
OnePipeline == [j \in Jobs |-> p1]

AllSteps == Steps \cup {"claim", "sweep"}

\* Failures the handler is built to absorb.  A failed HGET of the redelivery
\* guard and a failed HINCRBY are studied apart: the code lets the first one
\* pass and takes the second one for attempt 1.
AbsorbedFaults == AllSteps \ {"guard", "count"}

HandlerSymmetry == Permutations(Handlers)
===========================================================================
