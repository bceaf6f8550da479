---------------------------- MODULE JobLifecycle ----------------------------
(***************************************************************************)
(* What the queue promises of a job, without streams, locks or handlers:   *)
(* a submitted job is executed at most MaxAttempts times, never together   *)
(* with another job of its pipeline, and ends once, with a result that is  *)
(* never changed and after which it is never executed again.  An execution *)
(* may be interrupted (a crash, a transient failure) and a job may be given *)
(* up without one.  JobQueue implements this module (JobQueueRefinement).  *)
(***************************************************************************)
EXTENDS Naturals

CONSTANTS Jobs, PipelineOf, MaxAttempts

VARIABLES status,   \* absent, waiting, running, completed or failed
          tries     \* executions started

Results == {"completed", "failed"}

Init == /\ status = [j \in Jobs |-> "absent"]
        /\ tries = [j \in Jobs |-> 0]

Submit(j) == /\ status[j] = "absent"
             /\ status' = [status EXCEPT ![j] = "waiting"]
             /\ UNCHANGED tries

Begin(j) == /\ status[j] = "waiting" /\ tries[j] < MaxAttempts
            /\ \A k \in Jobs : PipelineOf[k] = PipelineOf[j] => status[k] # "running"
            /\ status' = [status EXCEPT ![j] = "running"]
            /\ tries' = [tries EXCEPT ![j] = @ + 1]

Interrupt(j) == /\ status[j] = "running"
                /\ status' = [status EXCEPT ![j] = "waiting"]
                /\ UNCHANGED tries

Finish(j, result) == /\ status[j] \in {"waiting", "running"}
                     /\ status' = [status EXCEPT ![j] = result]
                     /\ UNCHANGED tries

Next == \E j \in Jobs : \/ Submit(j) \/ Begin(j) \/ Interrupt(j)
                        \/ \E r \in Results : Finish(j, r)

Spec == Init /\ [][Next]_<<status, tries>>
=============================================================================
