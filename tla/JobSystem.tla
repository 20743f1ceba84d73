------------------------------ MODULE JobSystem ------------------------------
(***************************************************************************)
(* The asynchronous job pipeline of src/shared/jobs.                       *)
(*                                                                         *)
(*   JobService.submit / cancel / compensate   (HTTP handlers, any process) *)
(*   JobProcessor.process                      (BullMQ workers)            *)
(*   JobRecordService                          (the job_runs table, MySQL) *)
(*   JobQueueService                           (the BullMQ queue, Redis)   *)
(*                                                                         *)
(* Two stores, written by independent processes with no transaction over   *)
(* both.  Every await on a store is a step of its own, so the steps of a   *)
(* submit, a cancel, a compensation and the workers interleave freely.     *)
(* Crashes, lost acknowledgements, expired BullMQ locks and lost Redis     *)
(* data are steps that spend one unit of the MaxFaults budget.             *)
(***************************************************************************)
EXTENDS Naturals, FiniteSets

CONSTANTS
  Jobs,         \* business job ids; BullMQ's id is a function of it (job-<id>)
  Workers,      \* BullMQ workers: one per server process, concurrency 1
  NoJob,        \* not a job
  NoWorker,     \* not a worker
  MaxAttempts,  \* the `attempts` option of every job
  MaxStalls,    \* BullMQ's maxStalledCount (library default 1)
  MaxFaults,    \* bound: how many faults a behaviour may contain
  MissIsNull    \* Queue.getJob of a missing job: null (TRUE) or undefined (FALSE)

ASSUME MaxAttemptsAssumption == MaxAttempts \in Nat \ {0}
ASSUME BoundsAssumption == MaxStalls \in Nat /\ MaxFaults \in Nat
ASSUME MissAssumption == MissIsNull \in BOOLEAN
ASSUME NoneAssumption == NoJob \notin Jobs /\ NoWorker \notin Workers

VARIABLES
  \* job_runs
  status,      \* status[j]: the row's status, "absent" before the INSERT
  bullJobId,   \* bullJobId[j]: the column is set
  \* BullMQ
  qstate,      \* qstate[j]: where BullMQ holds the job, "none" if it has no key
  qmade,       \* qmade[j]: BullMQ's attemptsMade
  qstalls,     \* qstalls[j]: BullMQ's stalled counter
  qlock,       \* qlock[j]: the worker whose token locks the active job
  \* requests and workers in flight
  spc,         \* spc[j]: where the submit of j is
  cpc,         \* cpc[j]: where a cancel of j is
  kpc,         \* kpc[j]: where a compensation of j is
  kseen,       \* kseen[j]: the status it read
  kfound,      \* kfound[j]: its bullJobExists
  wpc,         \* wpc[w]: where worker w is in process()
  wjob,        \* wjob[w]: the job it processes
  watt,        \* watt[w]: the attemptsMade it computed from the BullMQ job
  \* history and bound
  starts,      \* starts[j]: handler runs started since BullMQ was last given j
  faults       \* how many faults happened so far

rowVars    == <<status, bullJobId>>
queueVars  == <<qstate, qmade, qstalls, qlock, starts>>
compVars   == <<kpc, kseen, kfound>>
workerVars == <<wpc, wjob, watt>>
vars == <<rowVars, queueVars, spc, cpc, compVars, workerVars, faults>>

Waiting  == {"queued", "delayed"}
Terminal == {"completed", "failed", "cancelled"}
Statuses == {"absent", "active"} \cup Waiting \cup Terminal

\* BullMQ's wait, delayed and prioritized sets differ only in when a worker may
\* take the job; time is not modelled, so they are one state.
QueueStates  == {"none", "waiting", "active", "completed", "failed"}
SubmitStates == {"idle", "enqueue", "enqueueFailed", "attach", "done"}
CancelStates == {"idle", "inspect", "remove", "mark"}
CompStates   == {"idle", "lookup", "act"}
WorkerStates ==
  {"idle", "activate", "running", "returned", "failing", "ackOk", "ackFail"}

TypeOK ==
  /\ status \in [Jobs -> Statuses]
  /\ bullJobId \in [Jobs -> BOOLEAN]
  /\ qstate \in [Jobs -> QueueStates]
  /\ qmade \in [Jobs -> Nat]
  /\ qstalls \in [Jobs -> Nat]
  /\ qlock \in [Jobs -> Workers \cup {NoWorker}]
  /\ spc \in [Jobs -> SubmitStates]
  /\ cpc \in [Jobs -> CancelStates]
  /\ kpc \in [Jobs -> CompStates]
  /\ kseen \in [Jobs -> Statuses]
  /\ kfound \in [Jobs -> BOOLEAN]
  /\ wpc \in [Workers -> WorkerStates]
  /\ wjob \in [Workers -> Jobs \cup {NoJob}]
  /\ watt \in [Workers -> Nat]
  /\ starts \in [Jobs -> Nat]
  /\ faults \in Nat

Init ==
  /\ status = [j \in Jobs |-> "absent"]
  /\ bullJobId = [j \in Jobs |-> FALSE]
  /\ qstate = [j \in Jobs |-> "none"]
  /\ qmade = [j \in Jobs |-> 0]
  /\ qstalls = [j \in Jobs |-> 0]
  /\ qlock = [j \in Jobs |-> NoWorker]
  /\ spc = [j \in Jobs |-> "idle"]
  /\ cpc = [j \in Jobs |-> "idle"]
  /\ kpc = [j \in Jobs |-> "idle"]
  /\ kseen = [j \in Jobs |-> "absent"]
  /\ kfound = [j \in Jobs |-> FALSE]
  /\ wpc = [w \in Workers |-> "idle"]
  /\ wjob = [w \in Workers |-> NoJob]
  /\ watt = [w \in Workers |-> 0]
  /\ starts = [j \in Jobs |-> 0]
  /\ faults = 0

Fault ==
  /\ faults < MaxFaults
  /\ faults' = faults + 1

-----------------------------------------------------------------------------
(***************************************************************************)
(* Single statements on the two stores.                                    *)
(***************************************************************************)

\* UPDATE job_runs SET status = to WHERE id = j AND status IN from
UpdateWhere(j, from, to) ==
  status' = IF status[j] \in from THEN [status EXCEPT ![j] = to] ELSE status

\* markAttemptFailure(..., isFinal = true): no condition on the old status.
WriteFinalFailure(j) == status' = [status EXCEPT ![j] = "failed"]

\* queue.add with the deterministic jobId: a second add of a known id is a no-op.
QueueAdd(j) ==
  IF qstate[j] = "none"
    THEN /\ qstate' = [qstate EXCEPT ![j] = "waiting"]
         /\ qmade' = [qmade EXCEPT ![j] = 0]
         /\ qstalls' = [qstalls EXCEPT ![j] = 0]
         /\ starts' = [starts EXCEPT ![j] = 0]
         /\ UNCHANGED qlock
    ELSE UNCHANGED queueVars

\* The job's key disappears from Redis, with its lock.
QueueDrop(j) ==
  /\ qstate' = [qstate EXCEPT ![j] = "none"]
  /\ qlock' = [qlock EXCEPT ![j] = NoWorker]
  /\ UNCHANGED <<qmade, qstalls, starts>>

\* An active job leaves BullMQ's active list.
QueueMove(j, to) ==
  /\ qstate' = [qstate EXCEPT ![j] = to]
  /\ qlock' = [qlock EXCEPT ![j] = NoWorker]

-----------------------------------------------------------------------------
(***************************************************************************)
(* JobService.submit                                                       *)
(***************************************************************************)
submitFrame == <<cpc, compVars, workerVars>>

CreateQueued(j) ==
  /\ spc[j] = "idle"
  /\ \E s \in Waiting : status' = [status EXCEPT ![j] = s]
  /\ spc' = [spc EXCEPT ![j] = "enqueue"]
  /\ UNCHANGED <<bullJobId, queueVars, submitFrame, faults>>

Enqueue(j) ==
  /\ spc[j] = "enqueue"
  /\ QueueAdd(j)
  /\ spc' = [spc EXCEPT ![j] = "attach"]
  /\ UNCHANGED <<rowVars, submitFrame, faults>>

\* queue.add rejects; Redis may have executed it all the same.
EnqueueFails(j) ==
  /\ spc[j] = "enqueue"
  /\ Fault
  /\ QueueAdd(j) \/ UNCHANGED queueVars
  /\ spc' = [spc EXCEPT ![j] = "enqueueFailed"]
  /\ UNCHANGED <<rowVars, submitFrame>>

MarkEnqueueFailure(j) ==
  /\ spc[j] = "enqueueFailed"
  /\ WriteFinalFailure(j)
  /\ spc' = [spc EXCEPT ![j] = "done"]
  /\ UNCHANGED <<bullJobId, queueVars, submitFrame, faults>>

AttachBullJobId(j) ==
  /\ spc[j] = "attach"
  /\ bullJobId' = [bullJobId EXCEPT ![j] = TRUE]
  /\ spc' = [spc EXCEPT ![j] = "done"]
  /\ UNCHANGED <<status, queueVars, submitFrame, faults>>

\* The process dies, or a write whose error submit swallows is not applied.
SubmitStops(j) ==
  /\ spc[j] \in {"enqueue", "enqueueFailed", "attach"}
  /\ Fault
  /\ spc' = [spc EXCEPT ![j] = "done"]
  /\ UNCHANGED <<rowVars, queueVars, submitFrame>>

-----------------------------------------------------------------------------
(***************************************************************************)
(* JobProcessor.process and BullMQ's worker loop around it                 *)
(***************************************************************************)
workerFrame == <<spc, cpc, compVars>>

Goto(w, pc) ==
  /\ wpc' = [wpc EXCEPT ![w] = pc]
  /\ UNCHANGED <<wjob, watt>>

\* Mutant: the worker takes BullMQ's attemptsMade for the number of this attempt.
TakeJobCountsFinished(w, j) ==
  /\ wpc[w] = "idle"
  /\ qstate[j] = "waiting"
  /\ qstate' = [qstate EXCEPT ![j] = "active"]
  /\ qlock' = [qlock EXCEPT ![j] = w]
  /\ wpc' = [wpc EXCEPT ![w] = "activate"]
  /\ wjob' = [wjob EXCEPT ![w] = j]
  /\ watt' = [watt EXCEPT ![w] = qmade[j]]
  /\ UNCHANGED <<rowVars, qmade, qstalls, workerFrame, starts, faults>>

TakeJob(w, j) ==
  /\ wpc[w] = "idle"
  /\ qstate[j] = "waiting"
  /\ qstate' = [qstate EXCEPT ![j] = "active"]
  /\ qlock' = [qlock EXCEPT ![j] = w]
  /\ wpc' = [wpc EXCEPT ![w] = "activate"]
  /\ wjob' = [wjob EXCEPT ![w] = j]
  /\ watt' = [watt EXCEPT ![w] = qmade[j] + 1]
  /\ UNCHANGED <<rowVars, qmade, qstalls, workerFrame, starts, faults>>

\* Mutant: markActive tests for a terminal status instead of a waiting one.
MarkActiveUnlessEnded(w) ==
  LET j == wjob[w] IN
  /\ wpc[w] = "activate"
  /\ status[j] \notin Terminal
  /\ status' = [status EXCEPT ![j] = "active"]
  /\ bullJobId' = [bullJobId EXCEPT ![j] = TRUE]
  /\ starts' = [starts EXCEPT ![j] = @ + 1]
  /\ Goto(w, "running")
  /\ UNCHANGED <<qstate, qmade, qstalls, qlock, workerFrame, faults>>

MarkActive(w) ==
  LET j == wjob[w] IN
  /\ wpc[w] = "activate"
  /\ status[j] \in Waiting
  /\ status' = [status EXCEPT ![j] = "active"]
  /\ bullJobId' = [bullJobId EXCEPT ![j] = TRUE]
  /\ starts' = [starts EXCEPT ![j] = @ + 1]
  /\ Goto(w, "running")
  /\ UNCHANGED <<qstate, qmade, qstalls, qlock, workerFrame, faults>>

\* Zero rows: process returns {skipped}, which BullMQ takes for a success.
SkipJob(w) ==
  /\ wpc[w] = "activate"
  /\ status[wjob[w]] \notin Waiting
  /\ Goto(w, "ackOk")
  /\ UNCHANGED <<rowVars, queueVars, workerFrame, faults>>

\* markActive throws before the try block: nothing records the failure.
MarkActiveFails(w) ==
  LET j == wjob[w] IN
  /\ wpc[w] = "activate"
  /\ Fault
  /\ \/ UNCHANGED rowVars
     \/ /\ status[j] \in Waiting
        /\ status' = [status EXCEPT ![j] = "active"]
        /\ bullJobId' = [bullJobId EXCEPT ![j] = TRUE]
  /\ Goto(w, "ackFail")
  /\ UNCHANGED <<queueVars, workerFrame>>

HandlerReturns(w) ==
  /\ wpc[w] = "running"
  /\ Goto(w, "returned")
  /\ UNCHANGED <<rowVars, queueVars, workerFrame, faults>>

\* The handler, or the ctx.updateProgress it awaits, throws.
HandlerThrows(w) ==
  /\ wpc[w] = "running"
  /\ Goto(w, "failing")
  /\ UNCHANGED <<rowVars, queueVars, workerFrame, faults>>

\* Mutant: markCompleted as an update by id only.
MarkCompletedById(w) ==
  /\ wpc[w] = "returned"
  /\ status' = [status EXCEPT ![wjob[w]] = "completed"]
  /\ Goto(w, "ackOk")
  /\ UNCHANGED <<bullJobId, queueVars, workerFrame, faults>>

MarkCompleted(w) ==
  /\ wpc[w] = "returned"
  /\ UpdateWhere(wjob[w], {"active"}, "completed")
  /\ Goto(w, "ackOk")
  /\ UNCHANGED <<bullJobId, queueVars, workerFrame, faults>>

\* markCompleted throws inside the try block, its UPDATE applied or not.
MarkCompletedFails(w) ==
  /\ wpc[w] = "returned"
  /\ Fault
  /\ UpdateWhere(wjob[w], {"active"}, "completed") \/ UNCHANGED status
  /\ Goto(w, "failing")
  /\ UNCHANGED <<bullJobId, queueVars, workerFrame>>

\* Mutants: off by one, the budget spent too late or too early.
isFinalLate(w) == watt[w] > MaxAttempts

isFinalEarly(w) == watt[w] + 1 >= MaxAttempts

isFinal(w) == watt[w] >= MaxAttempts

\* Mutant: the row takes over BullMQ's name for the state it returns to.
MarkAttemptFailureBullName(w) ==
  /\ wpc[w] = "failing"
  /\ \/ isFinal(w) /\ WriteFinalFailure(wjob[w])
     \/ ~isFinal(w) /\ UpdateWhere(wjob[w], {"active"}, "waiting")
  /\ Goto(w, "ackFail")
  /\ UNCHANGED <<bullJobId, queueVars, workerFrame, faults>>

MarkAttemptFailure(w) ==
  /\ wpc[w] = "failing"
  /\ \/ isFinal(w) /\ WriteFinalFailure(wjob[w])
     \/ ~isFinal(w) /\ UpdateWhere(wjob[w], {"active"}, "queued")
  /\ Goto(w, "ackFail")
  /\ UNCHANGED <<bullJobId, queueVars, workerFrame, faults>>

\* markAttemptFailure itself throws, its UPDATE not applied.
MarkAttemptFailureFails(w) ==
  /\ wpc[w] = "failing"
  /\ Fault
  /\ Goto(w, "ackFail")
  /\ UNCHANGED <<rowVars, queueVars, workerFrame>>

Idle(w) ==
  /\ wpc' = [wpc EXCEPT ![w] = "idle"]
  /\ wjob' = [wjob EXCEPT ![w] = NoJob]
  /\ watt' = [watt EXCEPT ![w] = 0]

\* BullMQ's moveToFinished: refused when the worker's token no longer locks
\* the job, else the job is retried or kept as completed / failed.
AckSuccess(w) ==
  LET j == wjob[w] IN
  /\ wpc[w] = "ackOk"
  /\ IF qlock[j] = w THEN QueueMove(j, "completed") ELSE UNCHANGED <<qstate, qlock>>
  /\ Idle(w)
  /\ UNCHANGED <<rowVars, qmade, qstalls, workerFrame, starts, faults>>

AckFailure(w) ==
  LET j == wjob[w] IN
  /\ wpc[w] = "ackFail"
  /\ IF qlock[j] = w
       THEN /\ QueueMove(j, IF qmade[j] + 1 < MaxAttempts THEN "waiting" ELSE "failed")
            /\ qmade' = [qmade EXCEPT ![j] = @ + 1]
       ELSE UNCHANGED <<qstate, qlock, qmade>>
  /\ Idle(w)
  /\ UNCHANGED <<rowVars, qstalls, workerFrame, starts, faults>>

\* The worker process dies; Redis still holds its lock on the job.
WorkerCrash(w) ==
  /\ wpc[w] # "idle"
  /\ Fault
  /\ Idle(w)
  /\ UNCHANGED <<rowVars, queueVars, workerFrame>>

-----------------------------------------------------------------------------
(***************************************************************************)
(* BullMQ on its own                                                       *)
(***************************************************************************)
queueFrame == <<rowVars, spc, cpc, compVars, workerVars>>

Processes(w, j) == wpc[w] # "idle" /\ wjob[w] = j

\* The stalled-job checker gives a job with an expired lock back to the queue,
\* MaxStalls times.
Stall(j) ==
  /\ qstate[j] = "active"
  /\ QueueMove(j, IF qstalls[j] < MaxStalls THEN "waiting" ELSE "failed")
  /\ qstalls' = [qstalls EXCEPT ![j] = @ + 1]
  /\ UNCHANGED <<qmade, starts, queueFrame>>

StallDead(j) ==
  /\ ~ \E w \in Workers : qlock[j] = w /\ Processes(w, j)
  /\ Stall(j)
  /\ UNCHANGED faults

\* The lock expires under a live worker (blocked event loop, Redis outage):
\* the worker goes on, unaware.
StallLive(j) ==
  /\ \E w \in Workers : qlock[j] = w /\ Processes(w, j)
  /\ Stall(j)
  /\ Fault

\* removeOnComplete / removeOnFail: 1000 later jobs have finished.
Evict(j) ==
  /\ qstate[j] \in {"completed", "failed"}
  /\ QueueDrop(j)
  /\ UNCHANGED <<queueFrame, faults>>

\* Redis loses the job (restart without persistence, data purge).
QueueLoses(j) ==
  /\ qstate[j] # "none"
  /\ Fault
  /\ QueueDrop(j)
  /\ UNCHANGED queueFrame

-----------------------------------------------------------------------------
(***************************************************************************)
(* JobService.cancel                                                       *)
(***************************************************************************)
cancelFrame == <<bullJobId, spc, compVars, workerVars>>

CancelRead(j) ==
  /\ cpc[j] = "idle"
  /\ status[j] # "absent"
  /\ cpc' = [cpc EXCEPT ![j] = IF bullJobId[j] THEN "inspect" ELSE "mark"]
  /\ UNCHANGED <<status, queueVars, cancelFrame, faults>>

\* JobQueueService.remove: getJob and getState ...
CancelInspect(j) ==
  /\ cpc[j] = "inspect"
  /\ cpc' = [cpc EXCEPT ![j] = IF qstate[j] = "waiting" THEN "remove" ELSE "mark"]
  /\ UNCHANGED <<status, queueVars, cancelFrame, faults>>

\* ... then job.remove, which rejects a job that was locked meanwhile.
CancelRemove(j) ==
  /\ cpc[j] = "remove"
  /\ IF qlock[j] = NoWorker THEN QueueDrop(j) ELSE UNCHANGED queueVars
  /\ cpc' = [cpc EXCEPT ![j] = "mark"]
  /\ UNCHANGED <<status, cancelFrame, faults>>

\* A rejected remove is logged and the cancellation goes on.
CancelRemoveFails(j) ==
  /\ cpc[j] \in {"inspect", "remove"}
  /\ Fault
  /\ cpc' = [cpc EXCEPT ![j] = "mark"]
  /\ UNCHANGED <<status, queueVars, cancelFrame>>

MarkCancelledIfCancellable(j) ==
  /\ cpc[j] = "mark"
  /\ UpdateWhere(j, Waiting, "cancelled")
  /\ cpc' = [cpc EXCEPT ![j] = "idle"]
  /\ UNCHANGED <<queueVars, cancelFrame, faults>>

\* The process dies, or the UPDATE fails.
CancelStops(j) ==
  /\ cpc[j] # "idle"
  /\ Fault
  /\ cpc' = [cpc EXCEPT ![j] = "idle"]
  /\ UNCHANGED <<status, queueVars, cancelFrame>>

-----------------------------------------------------------------------------
(***************************************************************************)
(* JobService.compensate                                                   *)
(***************************************************************************)
compFrame == <<bullJobId, spc, cpc, workerVars>>

CompensateRead(j) ==
  /\ kpc[j] = "idle"
  /\ status[j] \notin Terminal \cup {"absent"}
  /\ kpc' = [kpc EXCEPT ![j] = IF bullJobId[j] THEN "lookup" ELSE "act"]
  /\ kseen' = [kseen EXCEPT ![j] = status[j]]
  /\ kfound' = [kfound EXCEPT ![j] = FALSE]
  /\ UNCHANGED <<status, queueVars, compFrame, faults>>

\* bullJobExists = (await getJob(...)) !== null
CompensateLookup(j) ==
  /\ kpc[j] = "lookup"
  /\ kpc' = [kpc EXCEPT ![j] = "act"]
  /\ kfound' = [kfound EXCEPT ![j] = qstate[j] # "none" \/ ~MissIsNull]
  /\ UNCHANGED <<kseen, status, queueVars, compFrame, faults>>

CompensateDone(j) ==
  /\ kpc' = [kpc EXCEPT ![j] = "idle"]
  /\ kseen' = [kseen EXCEPT ![j] = "absent"]
  /\ kfound' = [kfound EXCEPT ![j] = FALSE]

CompensateKeep(j) ==
  /\ kpc[j] = "act"
  /\ kfound[j]
  /\ CompensateDone(j)
  /\ UNCHANGED <<status, queueVars, compFrame, faults>>

CompensateEnqueue(j) ==
  /\ kpc[j] = "act"
  /\ ~kfound[j]
  /\ kseen[j] \in Waiting
  /\ QueueAdd(j)
  /\ CompensateDone(j)
  /\ UNCHANGED <<status, compFrame, faults>>

CompensateFail(j) ==
  /\ kpc[j] = "act"
  /\ ~kfound[j]
  /\ kseen[j] = "active"
  /\ WriteFinalFailure(j)
  /\ CompensateDone(j)
  /\ UNCHANGED <<queueVars, compFrame, faults>>

\* The process dies, or a call it awaits fails: the error goes to the client.
CompensateStops(j) ==
  /\ kpc[j] # "idle"
  /\ Fault
  /\ CompensateDone(j)
  /\ UNCHANGED <<status, queueVars, compFrame>>

-----------------------------------------------------------------------------
SubmitStep(j) ==
  \/ CreateQueued(j)
  \/ Enqueue(j)
  \/ EnqueueFails(j)
  \/ MarkEnqueueFailure(j)
  \/ AttachBullJobId(j)
  \/ SubmitStops(j)

WorkerStep(w) ==
  \/ \E j \in Jobs : TakeJob(w, j)
  \/ MarkActive(w)
  \/ SkipJob(w)
  \/ MarkActiveFails(w)
  \/ HandlerReturns(w)
  \/ HandlerThrows(w)
  \/ MarkCompleted(w)
  \/ MarkCompletedFails(w)
  \/ MarkAttemptFailure(w)
  \/ MarkAttemptFailureFails(w)
  \/ AckSuccess(w)
  \/ AckFailure(w)
  \/ WorkerCrash(w)

QueueStep(j) ==
  \/ StallDead(j)
  \/ StallLive(j)
  \/ Evict(j)
  \/ QueueLoses(j)

CancelStep(j) ==
  \/ CancelRead(j)
  \/ CancelInspect(j)
  \/ CancelRemove(j)
  \/ CancelRemoveFails(j)
  \/ MarkCancelledIfCancellable(j)
  \/ CancelStops(j)

CompensateStep(j) ==
  \/ CompensateRead(j)
  \/ CompensateLookup(j)
  \/ CompensateKeep(j)
  \/ CompensateEnqueue(j)
  \/ CompensateFail(j)
  \/ CompensateStops(j)

Next ==
  \/ \E j \in Jobs : SubmitStep(j) \/ QueueStep(j) \/ CancelStep(j) \/ CompensateStep(j)
  \/ \E w \in Workers : WorkerStep(w)

Spec == Init /\ [][Next]_vars
(***************************************************************************)
(* Fairness: request handlers and workers that are not struck by a fault   *)
(* run on, BullMQ checks for stalled jobs, and handlers terminate.  Clients *)
(* need not submit, cancel or compensate.                                  *)
(***************************************************************************)
SubmitProgress(j) == Enqueue(j) \/ MarkEnqueueFailure(j) \/ AttachBullJobId(j)

WorkerProgress(w) ==
  \/ \E j \in Jobs : TakeJob(w, j)
  \/ MarkActive(w)
  \/ SkipJob(w)
  \/ HandlerReturns(w)
  \/ HandlerThrows(w)
  \/ MarkCompleted(w)
  \/ MarkAttemptFailure(w)
  \/ AckSuccess(w)
  \/ AckFailure(w)

CancelProgress(j) ==
  CancelInspect(j) \/ CancelRemove(j) \/ MarkCancelledIfCancellable(j)

CompensateProgress(j) ==
  CompensateLookup(j) \/ CompensateKeep(j) \/ CompensateEnqueue(j) \/ CompensateFail(j)

Fairness ==
  /\ \A j \in Jobs : /\ WF_vars(SubmitProgress(j))
                     /\ WF_vars(CancelProgress(j))
                     /\ WF_vars(CompensateProgress(j))
                     /\ WF_vars(StallDead(j))
  /\ \A w \in Workers : WF_vars(WorkerProgress(w))

FairSpec == Spec /\ Fairness

\* An operator who compensates every job that is not in a terminal state, again
\* and again.
OperatedSpec == FairSpec /\ \A j \in Jobs : WF_vars(CompensateRead(j))

-----------------------------------------------------------------------------
\* Worker w runs the handler of j, or has not yet recorded how the run ended.
Holds(w, j) == wpc[w] \in {"running", "returned", "failing"} /\ wjob[w] = j

\* However jobs are redelivered, re-enqueued or retried, no two workers run the
\* handler of one job at the same time (the conditional UPDATE of markActive is
\* all that prevents it: job-record.service.ts:27-29).
HandlerExclusive ==
  \A j \in Jobs : \A v, w \in Workers : Holds(v, j) /\ Holds(w, j) => v = w

\* A cancellation that answered 200 is never followed by a run of the handler,
\* and none is going on when it answers.
CancelledNeverRuns ==
  \A j \in Jobs : status[j] = "cancelled" => \A w \in Workers : ~Holds(w, j)

\* Without faults the two stores never lose a job between them: while a row is
\* not terminal, its submit still has the job in hand, BullMQ will deliver it,
\* or a cancel that took it out of BullMQ is about to cancel the row.
NoOrphan ==
  faults = 0 =>
    \A j \in Jobs :
      status[j] \in {"active"} \cup Waiting =>
        \/ spc[j] = "enqueue"
        \/ qstate[j] \in {"waiting", "active"}
        \/ cpc[j] = "mark"

\* Without faults a handler is started at most MaxAttempts times for a job given
\* to BullMQ, and a row becomes failed only when all MaxAttempts runs failed.
RetryBudget ==
  [][faults' = 0 =>
       \A j \in Jobs :
         /\ starts'[j] <= MaxAttempts
         /\ status[j] # "failed" /\ status'[j] = "failed" => starts[j] = MaxAttempts]_vars

\* The row's own promises (JobLifecycle), a job being in `running` while some
\* worker holds it.
Running == {j \in Jobs : \E w \in Workers : Holds(w, j)}

Lifecycle == INSTANCE JobLifecycle WITH running <- Running

ImplementsLifecycle == Lifecycle!Spec

\* A finished job stays finished: redelivered by BullMQ, compensated or retried,
\* it never goes back to a status from which a worker could run it again.
NoResurrection ==
  [][\A j \in Jobs : status[j] \in Terminal => status'[j] \in Terminal]_status

\* job-record.service.ts:179-185: "conditional update ... prevents overwriting a
\* terminal state"; jobs.controller.ts:257: a terminal state is irreversible.
TerminalIrreversible ==
  [][\A j \in Jobs : status[j] \in Terminal => status'[j] = status[j]]_status

\* Without faults every job that was accepted ends.
JobsEnd ==
  \A j \in Jobs : status[j] # "absent" ~> status[j] \in Terminal \/ faults > 0

\* job.service.ts:168-170: compensation puts a queued or delayed job that BullMQ
\* lost back into the queue.
LostJobsReenqueued ==
  \A j \in Jobs :
    status[j] \in Waiting /\ qstate[j] = "none" /\ spc[j] = "done"
      ~> status[j] \notin Waiting \/ qstate[j] # "none"

\* job.service.ts:171-173: compensation moves an active job whose worker died to
\* failed, so a row no worker holds does not stay active.
AbandonedRunsFail ==
  \A j \in Jobs :
    status[j] = "active" /\ ~(\E w \in Workers : Holds(w, j))
      ~> status[j] # "active"
=============================================================================
