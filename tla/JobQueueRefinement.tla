------------------------- MODULE JobQueueRefinement -------------------------
(***************************************************************************)
(* JobQueue implements JobLifecycle as long as no live worker is overtaken *)
(* by its TTLs, nothing is trimmed and the redelivery guard can be read.   *)
(***************************************************************************)
EXTENDS JobQueue

\* A job is running while a handler works on it under the lock; a published
\* result ends it, whatever the handler has still to release and to ack.
Held(j) == \E h \in Handlers : /\ Owning(h) /\ JobOf(h) = j
                               /\ lock[PipelineOf[j]] = FenceOf(h)

Status(j) == IF live[j] = "absent" THEN "absent"
             ELSE IF live[j] \in {"completed", "failed"} THEN live[j]
             ELSE IF Held(j) THEN "running" ELSE "waiting"

Lifecycle == INSTANCE JobLifecycle
                WITH status <- [j \in Jobs |-> Status(j)], tries <- runs

\* The queue's promise to whoever submits a job: serialized, bounded, ended
\* once, never re-run ("must not re-run", handle_claimed's redelivery guard).
Implements == Lifecycle!Spec
=============================================================================
