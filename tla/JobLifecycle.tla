---------------------------- MODULE JobLifecycle ----------------------------
(***************************************************************************)
(* What a row of job_runs promises to its readers, whoever writes it: the  *)
(* status graph that JobRecordService (shared/jobs/records) translates     *)
(* into conditional updates, and that a job's handler runs only between an *)
(* activation and the end of that attempt.  JobSystem implements this      *)
(* specification (JobSystem!Lifecycle).                                    *)
(***************************************************************************)
CONSTANT Jobs

VARIABLES
  status,    \* status[j]: the status column, "absent" before the INSERT
  running    \* the jobs whose handler is being run by some worker

vars == <<status, running>>

\* JOB_STATUS of constants/job.constants.ts; terminal and cancellable statuses
\* of types/job.types.ts.
Waiting  == {"queued", "delayed"}
Terminal == {"completed", "failed", "cancelled"}
Statuses == {"absent", "active"} \cup Waiting \cup Terminal

Init ==
  /\ status = [j \in Jobs |-> "absent"]
  /\ running = {}

Create(j) ==
  /\ status[j] = "absent"
  /\ \E s \in Waiting : status' = [status EXCEPT ![j] = s]
  /\ UNCHANGED running

\* The worker that activates a row runs the handler, unless it fails to learn
\* that its UPDATE was applied.
Activate(j) ==
  /\ status[j] \in Waiting
  /\ j \notin running
  /\ status' = [status EXCEPT ![j] = "active"]
  /\ running' \in {running, running \cup {j}}

Complete(j) ==
  /\ status[j] = "active"
  /\ j \in running
  /\ status' = [status EXCEPT ![j] = "completed"]
  /\ running' \in {running, running \ {j}}

Retry(j) ==
  /\ status[j] = "active"
  /\ j \in running
  /\ status' = [status EXCEPT ![j] = "queued"]
  /\ running' = running \ {j}

Cancel(j) ==
  /\ status[j] \in Waiting
  /\ j \notin running
  /\ status' = [status EXCEPT ![j] = "cancelled"]
  /\ UNCHANGED running

\* The final-failure write has no condition on the old status.
Fail(j) ==
  /\ status[j] # "absent"
  /\ status' = [status EXCEPT ![j] = "failed"]
  /\ running' \in {running, running \ {j}}

\* A run ends (or its process dies) without a write that takes effect.
Leave(j) ==
  /\ j \in running
  /\ running' = running \ {j}
  /\ UNCHANGED status

Next ==
  \E j \in Jobs :
    \/ Create(j)
    \/ Activate(j)
    \/ Complete(j)
    \/ Retry(j)
    \/ Cancel(j)
    \/ Fail(j)
    \/ Leave(j)

Spec == Init /\ [][Next]_vars
=============================================================================
