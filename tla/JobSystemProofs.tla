-------------------------- MODULE JobSystemProofs --------------------------
(***************************************************************************)
(* What holds of the pipeline for any number of jobs, workers, attempts and *)
(* faults, with or without the null/undefined mismatch of getJob:          *)
(*   TypeCorrect, Exclusive, CancelStopsRuns, Refinement, NeverResurrected *)
(* from one inductive invariant, TypeOK /\ Owned (Invariance); and as long *)
(* as no fault has struck,                                                 *)
(*   NoJobIsLost, and BudgetIsKept with the mismatch,                      *)
(* from a second one on top of it, Calm (CalmInvariance).                  *)
(***************************************************************************)
EXTENDS JobSystem, TLAPS

-----------------------------------------------------------------------------
(***************************************************************************)
(* The inductive invariant                                                 *)
(***************************************************************************)

\* A worker inside process() has a job.
Assigned == \A w \in Workers : wpc[w] # "idle" => wjob[w] \in Jobs

\* While a worker holds a job its row is active, or was ended under the worker: by
\* its own markCompleted whose answer got lost, or by a final failure.  It is not
\* waiting, so no second worker can activate it, and it is not cancelled.
HeldStarted ==
  \A w \in Workers, j \in Jobs :
    Holds(w, j) => status[j] \in {"active", "completed", "failed"}

\* Before the submit creates the row nobody acts on the job, and a compensation
\* starts only from a row that exists.
Fresh ==
  \A j \in Jobs :
    /\ spc[j] = "idle" <=> status[j] = "absent"
    /\ kpc[j] # "idle" => spc[j] # "idle"

Owned == Assigned /\ HeldStarted /\ HandlerExclusive /\ Fresh

-----------------------------------------------------------------------------
\* Every action keeps every variable in its type.
LEMMA StepTypeOK == TypeOK /\ Assigned /\ [Next]_vars => TypeOK'
<1> SUFFICES ASSUME TypeOK, Assigned, [Next]_vars PROVE TypeOK'
  OBVIOUS
<1> USE DEF TypeOK, Assigned, Statuses, Waiting, Terminal, QueueStates, SubmitStates,
            CancelStates, CompStates, WorkerStates
<1>1. ASSUME NEW j \in Jobs, CreateQueued(j) PROVE TypeOK'
  BY <1>1 DEF CreateQueued, submitFrame, queueVars, compVars, workerVars
<1>2. ASSUME NEW j \in Jobs, Enqueue(j) PROVE TypeOK'
  BY <1>2 DEF Enqueue, QueueAdd, submitFrame, queueVars, rowVars, compVars, workerVars
<1>3. ASSUME NEW j \in Jobs, EnqueueFails(j) PROVE TypeOK'
  BY <1>3 DEF EnqueueFails, QueueAdd, Fault, submitFrame, queueVars, rowVars,
       compVars, workerVars
<1>4. ASSUME NEW j \in Jobs, MarkEnqueueFailure(j) PROVE TypeOK'
  BY <1>4 DEF MarkEnqueueFailure, WriteFinalFailure, submitFrame, queueVars,
       compVars, workerVars
<1>5. ASSUME NEW j \in Jobs, AttachBullJobId(j) PROVE TypeOK'
  BY <1>5 DEF AttachBullJobId, submitFrame, queueVars, compVars, workerVars
<1>6. ASSUME NEW j \in Jobs, SubmitStops(j) PROVE TypeOK'
  BY <1>6 DEF SubmitStops, Fault, submitFrame, rowVars, queueVars, compVars, workerVars
<1>7. ASSUME NEW j \in Jobs, StallDead(j) PROVE TypeOK'
  BY <1>7 DEF StallDead, Stall, QueueMove, queueFrame, rowVars, compVars, workerVars
<1>8. ASSUME NEW j \in Jobs, StallLive(j) PROVE TypeOK'
  BY <1>8 DEF StallLive, Stall, QueueMove, Fault, queueFrame, rowVars, compVars,
       workerVars
<1>9. ASSUME NEW j \in Jobs, Evict(j) PROVE TypeOK'
  BY <1>9 DEF Evict, QueueDrop, queueFrame, rowVars, compVars, workerVars
<1>10. ASSUME NEW j \in Jobs, QueueLoses(j) PROVE TypeOK'
  BY <1>10 DEF QueueLoses, QueueDrop, Fault, queueFrame, rowVars, compVars, workerVars
<1>11. ASSUME NEW j \in Jobs, CancelRead(j) PROVE TypeOK'
  BY <1>11 DEF CancelRead, cancelFrame, queueVars, compVars, workerVars
<1>12. ASSUME NEW j \in Jobs, CancelInspect(j) PROVE TypeOK'
  BY <1>12 DEF CancelInspect, cancelFrame, queueVars, compVars, workerVars
<1>13. ASSUME NEW j \in Jobs, CancelRemove(j) PROVE TypeOK'
  BY <1>13 DEF CancelRemove, QueueDrop, cancelFrame, queueVars, compVars, workerVars
<1>14. ASSUME NEW j \in Jobs, CancelRemoveFails(j) PROVE TypeOK'
  BY <1>14 DEF CancelRemoveFails, Fault, cancelFrame, queueVars, compVars, workerVars
<1>15. ASSUME NEW j \in Jobs, MarkCancelledIfCancellable(j) PROVE TypeOK'
  BY <1>15 DEF MarkCancelledIfCancellable, UpdateWhere, cancelFrame, queueVars,
       compVars, workerVars
<1>16. ASSUME NEW j \in Jobs, CancelStops(j) PROVE TypeOK'
  BY <1>16 DEF CancelStops, Fault, cancelFrame, queueVars, compVars, workerVars
<1>17. ASSUME NEW j \in Jobs, CompensateRead(j) PROVE TypeOK'
  BY <1>17 DEF CompensateRead, compFrame, queueVars, workerVars
<1>18. ASSUME NEW j \in Jobs, CompensateLookup(j) PROVE TypeOK'
  BY <1>18 DEF CompensateLookup, compFrame, queueVars, workerVars
<1>19. ASSUME NEW j \in Jobs, CompensateKeep(j) PROVE TypeOK'
  BY <1>19 DEF CompensateKeep, CompensateDone, compFrame, queueVars, workerVars
<1>20. ASSUME NEW j \in Jobs, CompensateEnqueue(j) PROVE TypeOK'
  BY <1>20 DEF CompensateEnqueue, CompensateDone, QueueAdd, compFrame, queueVars,
       workerVars
<1>21. ASSUME NEW j \in Jobs, CompensateFail(j) PROVE TypeOK'
  BY <1>21 DEF CompensateFail, CompensateDone, WriteFinalFailure, compFrame,
       queueVars, workerVars
<1>22. ASSUME NEW j \in Jobs, CompensateStops(j) PROVE TypeOK'
  BY <1>22 DEF CompensateStops, CompensateDone, Fault, compFrame, queueVars, workerVars
<1>23. ASSUME NEW w \in Workers, NEW j \in Jobs, TakeJob(w, j) PROVE TypeOK'
  BY <1>23 DEF TakeJob, rowVars, workerFrame, compVars
<1>24. ASSUME NEW w \in Workers, MarkActive(w) PROVE TypeOK'
  BY <1>24 DEF MarkActive, Goto, workerFrame, compVars
<1>25. ASSUME NEW w \in Workers, SkipJob(w) PROVE TypeOK'
  BY <1>25 DEF SkipJob, Goto, rowVars, queueVars, workerFrame, compVars
<1>26. ASSUME NEW w \in Workers, MarkActiveFails(w) PROVE TypeOK'
  <2>1. CASE UNCHANGED rowVars
    BY <1>26, <2>1 DEF MarkActiveFails, Goto, Fault, rowVars, queueVars, workerFrame,
         compVars
  <2>2. CASE /\ status' = [status EXCEPT ![wjob[w]] = "active"]
             /\ bullJobId' = [bullJobId EXCEPT ![wjob[w]] = TRUE]
             /\ status[wjob[w]] \in Waiting
    BY <1>26, <2>2 DEF MarkActiveFails, Goto, Fault, queueVars, workerFrame, compVars
  <2>3. QED
    BY <1>26, <2>1, <2>2 DEF MarkActiveFails
<1>27. ASSUME NEW w \in Workers, HandlerReturns(w) PROVE TypeOK'
  BY <1>27 DEF HandlerReturns, Goto, rowVars, queueVars, workerFrame, compVars
<1>28. ASSUME NEW w \in Workers, HandlerThrows(w) PROVE TypeOK'
  BY <1>28 DEF HandlerThrows, Goto, rowVars, queueVars, workerFrame, compVars
<1>29. ASSUME NEW w \in Workers, MarkCompleted(w) PROVE TypeOK'
  BY <1>29 DEF MarkCompleted, Goto, UpdateWhere, queueVars, workerFrame, compVars
<1>30. ASSUME NEW w \in Workers, MarkCompletedFails(w) PROVE TypeOK'
  BY <1>30 DEF MarkCompletedFails, Goto, Fault, UpdateWhere, queueVars, workerFrame,
       compVars
<1>31. ASSUME NEW w \in Workers, MarkAttemptFailure(w) PROVE TypeOK'
  BY <1>31 DEF MarkAttemptFailure, Goto, UpdateWhere, WriteFinalFailure, isFinal,
       queueVars, workerFrame, compVars
<1>32. ASSUME NEW w \in Workers, MarkAttemptFailureFails(w) PROVE TypeOK'
  BY <1>32 DEF MarkAttemptFailureFails, Goto, Fault, rowVars, queueVars, workerFrame,
       compVars
<1>33. ASSUME NEW w \in Workers, AckSuccess(w) PROVE TypeOK'
  BY <1>33 DEF AckSuccess, Idle, QueueMove, rowVars, workerFrame, compVars
<1>34. ASSUME NEW w \in Workers, AckFailure(w) PROVE TypeOK'
  BY <1>34 DEF AckFailure, Idle, QueueMove, rowVars, workerFrame, compVars
<1>35. ASSUME NEW w \in Workers, WorkerCrash(w) PROVE TypeOK'
  BY <1>35 DEF WorkerCrash, Idle, Fault, rowVars, queueVars, workerFrame, compVars
<1>36. CASE UNCHANGED vars
  BY <1>36 DEF vars, rowVars, queueVars, compVars, workerVars
<1>37. QED
  BY <1>1, <1>2, <1>3, <1>4, <1>5, <1>6, <1>7, <1>8, <1>9, <1>10, <1>11, <1>12,
     <1>13, <1>14, <1>15, <1>16, <1>17, <1>18, <1>19, <1>20, <1>21, <1>22, <1>23,
     <1>24, <1>25, <1>26, <1>27, <1>28, <1>29, <1>30, <1>31, <1>32, <1>33, <1>34,
     <1>35, <1>36 DEF Next, SubmitStep, QueueStep, CancelStep, CompensateStep, WorkerStep

\* Every action keeps the ownership of rows by workers.  The one that could break
\* it is MarkActive: its row is waiting, so by HeldStarted no worker holds the job.
LEMMA StepOwned == TypeOK /\ Owned /\ [Next]_vars => Owned'
<1> SUFFICES ASSUME TypeOK, Owned, [Next]_vars PROVE Owned'
  OBVIOUS
<1> USE DEF TypeOK, Owned, Assigned, HeldStarted, HandlerExclusive, Holds, Fresh, Waiting, Terminal
<1>1. ASSUME NEW j \in Jobs, CreateQueued(j) PROVE Owned'
  BY <1>1 DEF CreateQueued, submitFrame, queueVars, compVars, workerVars
<1>2. ASSUME NEW j \in Jobs, Enqueue(j) PROVE Owned'
  BY <1>2 DEF Enqueue, QueueAdd, submitFrame, queueVars, rowVars, compVars, workerVars
<1>3. ASSUME NEW j \in Jobs, EnqueueFails(j) PROVE Owned'
  BY <1>3 DEF EnqueueFails, QueueAdd, Fault, submitFrame, queueVars, rowVars,
       compVars, workerVars
<1>4. ASSUME NEW j \in Jobs, MarkEnqueueFailure(j) PROVE Owned'
  BY <1>4 DEF MarkEnqueueFailure, WriteFinalFailure, submitFrame, queueVars,
       compVars, workerVars
<1>5. ASSUME NEW j \in Jobs, AttachBullJobId(j) PROVE Owned'
  BY <1>5 DEF AttachBullJobId, submitFrame, queueVars, compVars, workerVars
<1>6. ASSUME NEW j \in Jobs, SubmitStops(j) PROVE Owned'
  BY <1>6 DEF SubmitStops, Fault, submitFrame, rowVars, queueVars, compVars, workerVars
<1>7. ASSUME NEW j \in Jobs, StallDead(j) PROVE Owned'
  BY <1>7 DEF StallDead, Stall, QueueMove, queueFrame, rowVars, compVars, workerVars
<1>8. ASSUME NEW j \in Jobs, StallLive(j) PROVE Owned'
  BY <1>8 DEF StallLive, Stall, QueueMove, Fault, queueFrame, rowVars, compVars,
       workerVars
<1>9. ASSUME NEW j \in Jobs, Evict(j) PROVE Owned'
  BY <1>9 DEF Evict, QueueDrop, queueFrame, rowVars, compVars, workerVars
<1>10. ASSUME NEW j \in Jobs, QueueLoses(j) PROVE Owned'
  BY <1>10 DEF QueueLoses, QueueDrop, Fault, queueFrame, rowVars, compVars, workerVars
<1>11. ASSUME NEW j \in Jobs, CancelRead(j) PROVE Owned'
  BY <1>11 DEF CancelRead, cancelFrame, queueVars, compVars, workerVars
<1>12. ASSUME NEW j \in Jobs, CancelInspect(j) PROVE Owned'
  BY <1>12 DEF CancelInspect, cancelFrame, queueVars, compVars, workerVars
<1>13. ASSUME NEW j \in Jobs, CancelRemove(j) PROVE Owned'
  BY <1>13 DEF CancelRemove, QueueDrop, cancelFrame, queueVars, compVars, workerVars
<1>14. ASSUME NEW j \in Jobs, CancelRemoveFails(j) PROVE Owned'
  BY <1>14 DEF CancelRemoveFails, Fault, cancelFrame, queueVars, compVars, workerVars
<1>15. ASSUME NEW j \in Jobs, MarkCancelledIfCancellable(j) PROVE Owned'
  BY <1>15 DEF MarkCancelledIfCancellable, UpdateWhere, cancelFrame, queueVars,
       compVars, workerVars
<1>16. ASSUME NEW j \in Jobs, CancelStops(j) PROVE Owned'
  BY <1>16 DEF CancelStops, Fault, cancelFrame, queueVars, compVars, workerVars
<1>17. ASSUME NEW j \in Jobs, CompensateRead(j) PROVE Owned'
  BY <1>17 DEF CompensateRead, compFrame, queueVars, workerVars
<1>18. ASSUME NEW j \in Jobs, CompensateLookup(j) PROVE Owned'
  BY <1>18 DEF CompensateLookup, compFrame, queueVars, workerVars
<1>19. ASSUME NEW j \in Jobs, CompensateKeep(j) PROVE Owned'
  BY <1>19 DEF CompensateKeep, CompensateDone, compFrame, queueVars, workerVars
<1>20. ASSUME NEW j \in Jobs, CompensateEnqueue(j) PROVE Owned'
  BY <1>20 DEF CompensateEnqueue, CompensateDone, QueueAdd, compFrame, queueVars,
       workerVars
<1>21. ASSUME NEW j \in Jobs, CompensateFail(j) PROVE Owned'
  BY <1>21 DEF CompensateFail, CompensateDone, WriteFinalFailure, compFrame,
       queueVars, workerVars
<1>22. ASSUME NEW j \in Jobs, CompensateStops(j) PROVE Owned'
  BY <1>22 DEF CompensateStops, CompensateDone, Fault, compFrame, queueVars, workerVars
<1>23. ASSUME NEW w \in Workers, NEW j \in Jobs, TakeJob(w, j) PROVE Owned'
  BY <1>23 DEF TakeJob, rowVars, workerFrame, compVars
<1>24. ASSUME NEW w \in Workers, MarkActive(w) PROVE Owned'
  <2> DEFINE j == wjob[w]
  <2>1. j \in Jobs /\ status[j] \in Waiting
    BY <1>24 DEF MarkActive
  <2>2. \A v \in Workers : ~Holds(v, j)
    BY <2>1
  <2>3. /\ status' = [status EXCEPT ![j] = "active"]
        /\ wpc' = [wpc EXCEPT ![w] = "running"]
        /\ UNCHANGED wjob
    BY <1>24 DEF MarkActive, Goto
  <2>4. Assigned'
    BY <2>1, <2>3
  <2>5. HeldStarted'
    BY <2>1, <2>3
  <2>6. HandlerExclusive'
    BY <2>1, <2>2, <2>3
  <2>7. Fresh'
    BY <1>24, <2>1, <2>3 DEF MarkActive, Goto, workerFrame, compVars
  <2>8. QED
    BY <2>4, <2>5, <2>6, <2>7
<1>25. ASSUME NEW w \in Workers, SkipJob(w) PROVE Owned'
  BY <1>25 DEF SkipJob, Goto, rowVars, queueVars, workerFrame, compVars
<1>26. ASSUME NEW w \in Workers, MarkActiveFails(w) PROVE Owned'
  <2>1. CASE UNCHANGED rowVars
    BY <1>26, <2>1 DEF MarkActiveFails, Goto, Fault, rowVars, queueVars, workerFrame,
         compVars
  <2>2. CASE /\ status' = [status EXCEPT ![wjob[w]] = "active"]
             /\ bullJobId' = [bullJobId EXCEPT ![wjob[w]] = TRUE]
             /\ status[wjob[w]] \in Waiting
    BY <1>26, <2>2 DEF MarkActiveFails, Goto, Fault, queueVars, workerFrame, compVars
  <2>3. QED
    BY <1>26, <2>1, <2>2 DEF MarkActiveFails
<1>27. ASSUME NEW w \in Workers, HandlerReturns(w) PROVE Owned'
  BY <1>27 DEF HandlerReturns, Goto, rowVars, queueVars, workerFrame, compVars
<1>28. ASSUME NEW w \in Workers, HandlerThrows(w) PROVE Owned'
  BY <1>28 DEF HandlerThrows, Goto, rowVars, queueVars, workerFrame, compVars
<1>29. ASSUME NEW w \in Workers, MarkCompleted(w) PROVE Owned'
  BY <1>29 DEF MarkCompleted, Goto, UpdateWhere, queueVars, workerFrame, compVars
<1>30. ASSUME NEW w \in Workers, MarkCompletedFails(w) PROVE Owned'
  BY <1>30 DEF MarkCompletedFails, Goto, Fault, UpdateWhere, queueVars, workerFrame,
       compVars
<1>31. ASSUME NEW w \in Workers, MarkAttemptFailure(w) PROVE Owned'
  BY <1>31 DEF MarkAttemptFailure, Goto, UpdateWhere, WriteFinalFailure, isFinal,
       queueVars, workerFrame, compVars
<1>32. ASSUME NEW w \in Workers, MarkAttemptFailureFails(w) PROVE Owned'
  BY <1>32 DEF MarkAttemptFailureFails, Goto, Fault, rowVars, queueVars, workerFrame,
       compVars
<1>33. ASSUME NEW w \in Workers, AckSuccess(w) PROVE Owned'
  BY <1>33 DEF AckSuccess, Idle, QueueMove, rowVars, workerFrame, compVars
<1>34. ASSUME NEW w \in Workers, AckFailure(w) PROVE Owned'
  BY <1>34 DEF AckFailure, Idle, QueueMove, rowVars, workerFrame, compVars
<1>35. ASSUME NEW w \in Workers, WorkerCrash(w) PROVE Owned'
  BY <1>35 DEF WorkerCrash, Idle, Fault, rowVars, queueVars, workerFrame, compVars
<1>36. CASE UNCHANGED vars
  BY <1>36 DEF vars, rowVars, queueVars, compVars, workerVars
<1>37. QED
  BY <1>1, <1>2, <1>3, <1>4, <1>5, <1>6, <1>7, <1>8, <1>9, <1>10, <1>11, <1>12,
     <1>13, <1>14, <1>15, <1>16, <1>17, <1>18, <1>19, <1>20, <1>21, <1>22, <1>23,
     <1>24, <1>25, <1>26, <1>27, <1>28, <1>29, <1>30, <1>31, <1>32, <1>33, <1>34,
     <1>35, <1>36 DEF Next, SubmitStep, QueueStep, CancelStep, CompensateStep, WorkerStep

-----------------------------------------------------------------------------
(***************************************************************************)
(* The refinement, with running <- Running                                 *)
(***************************************************************************)

\* The steps of the rest of the system that the row does not notice.
LEMMA Unnoticed ==
  ASSUME UNCHANGED <<status, wpc, wjob>>
  PROVE  UNCHANGED Lifecycle!vars
  BY DEF Lifecycle!vars, Running, Holds

\* A worker that lets go of its job takes it out of Running, being its only
\* holder; one that keeps its job changes nothing.
LEMMA LetGo ==
  ASSUME TypeOK, Owned, NEW w \in Workers, NEW pc \in WorkerStates,
         wpc[w] \in {"running", "returned", "failing"},
         wpc' = [wpc EXCEPT ![w] = pc],
         pc \notin {"running", "returned", "failing"}
  PROVE  /\ wjob[w] \in Running
         /\ wjob' = wjob => Running' = Running \ {wjob[w]}
         /\ wjob' = [wjob EXCEPT ![w] = NoJob] => Running' = Running \ {wjob[w]}
  BY NoneAssumption
  DEF TypeOK, Owned, Assigned, HandlerExclusive, Running, Holds, WorkerStates

\* A step of a worker that neither takes hold of its job nor lets go of it.
LEMMA Keep ==
  ASSUME TypeOK, NEW w \in Workers, NEW pc \in WorkerStates,
         wpc' = [wpc EXCEPT ![w] = pc],
         wpc[w] \in {"running", "returned", "failing"}
           <=> pc \in {"running", "returned", "failing"},
         wjob' = wjob \/ wpc[w] \notin {"running", "returned", "failing"},
         \A v \in Workers \ {w} : wjob'[v] = wjob[v]
  PROVE  Running' = Running
  BY DEF TypeOK, Running, Holds, WorkerStates

\* Every step of the pipeline is a step of the row's life cycle or a stutter.
LEMMA StepRefines ==
  TypeOK /\ Owned /\ [Next]_vars => [Lifecycle!Next]_(Lifecycle!vars)
<1> DEFINE Goal == [Lifecycle!Next]_(Lifecycle!vars)
<1> SUFFICES ASSUME TypeOK, Owned, [Next]_vars PROVE Goal
  OBVIOUS
<1>1. ASSUME NEW j \in Jobs,
             \/ Enqueue(j) \/ EnqueueFails(j) \/ AttachBullJobId(j) \/ SubmitStops(j)
             \/ QueueStep(j)
             \/ CancelRead(j) \/ CancelInspect(j) \/ CancelRemove(j)
             \/ CancelRemoveFails(j) \/ CancelStops(j)
             \/ CompensateRead(j) \/ CompensateLookup(j) \/ CompensateKeep(j)
             \/ CompensateEnqueue(j) \/ CompensateStops(j)
      PROVE  Goal
  <2>1. UNCHANGED <<status, wpc, wjob>>
    BY <1>1
    DEF Enqueue, EnqueueFails, AttachBullJobId, SubmitStops, QueueStep, StallDead,
        StallLive, Stall, Evict, QueueLoses, CancelRead, CancelInspect, CancelRemove,
        CancelRemoveFails, CancelStops, CompensateRead, CompensateLookup,
        CompensateKeep, CompensateEnqueue, CompensateStops, submitFrame, queueFrame,
        cancelFrame, compFrame, rowVars, workerVars
  <2>2. QED
    BY <2>1, Unnoticed
<1>2. ASSUME NEW j \in Jobs, CreateQueued(j) PROVE Goal
  <2>1. Lifecycle!Create(j)
    BY <1>2 DEF CreateQueued, submitFrame, workerVars, Lifecycle!Create, Running, Holds,
                Waiting, Lifecycle!Waiting, Owned, Fresh
  <2>2. QED
    BY <2>1 DEF Lifecycle!Next
<1>3. ASSUME NEW j \in Jobs, MarkEnqueueFailure(j) PROVE Goal
  <2>1. Lifecycle!Fail(j)
    BY <1>3 DEF MarkEnqueueFailure, WriteFinalFailure, submitFrame, workerVars,
                Lifecycle!Fail, Running, Holds, Owned, Fresh
  <2>2. QED
    BY <2>1 DEF Lifecycle!Next
<1>4. ASSUME NEW j \in Jobs, CompensateFail(j) PROVE Goal
  <2>1. Lifecycle!Fail(j)
    BY <1>4 DEF CompensateFail, WriteFinalFailure, compFrame, workerVars,
                Lifecycle!Fail, Running, Holds, Owned, Fresh
  <2>2. QED
    BY <2>1 DEF Lifecycle!Next
<1>5. ASSUME NEW j \in Jobs, MarkCancelledIfCancellable(j) PROVE Goal
  <2>1. UNCHANGED <<wpc, wjob>>
    BY <1>5 DEF MarkCancelledIfCancellable, cancelFrame, workerVars
  <2>2. CASE status[j] \in Waiting
    <3>1. j \notin Running
      BY <2>2 DEF Owned, HeldStarted, Running, Waiting
    <3>2. Lifecycle!Cancel(j)
      BY <1>5, <2>1, <2>2, <3>1
      DEF MarkCancelledIfCancellable, UpdateWhere, Lifecycle!Cancel, Running, Holds,
          Waiting, Lifecycle!Waiting
    <3>3. QED
      BY <3>2 DEF Lifecycle!Next
  <2>3. CASE status[j] \notin Waiting
    BY <1>5, <2>1, <2>3, Unnoticed DEF MarkCancelledIfCancellable, UpdateWhere
  <2>4. QED
    BY <2>2, <2>3
<1>6. ASSUME NEW w \in Workers, NEW j \in Jobs, TakeJob(w, j) PROVE Goal
  <2>1. UNCHANGED status /\ Running' = Running
    BY <1>6, Keep DEF TakeJob, rowVars, TypeOK, WorkerStates
  <2>2. QED
    BY <2>1 DEF Lifecycle!vars
<1>7. ASSUME NEW w \in Workers, MarkActive(w) PROVE Goal
  <2> DEFINE j == wjob[w]
  <2>1. j \in Jobs /\ status[j] \in Waiting
    BY <1>7 DEF MarkActive, Owned, Assigned
  <2>2. j \notin Running
    BY <2>1 DEF Owned, HeldStarted, Running, Waiting
  <2>3. Running' = Running \cup {j}
    BY <1>7, <2>1 DEF MarkActive, Goto, Running, Holds, TypeOK
  <2>4. Lifecycle!Activate(j)
    BY <1>7, <2>1, <2>2, <2>3 DEF MarkActive, Lifecycle!Activate, Waiting,
         Lifecycle!Waiting
  <2>5. QED
    BY <2>1, <2>4 DEF Lifecycle!Next
<1>8. ASSUME NEW w \in Workers, MarkActiveFails(w) PROVE Goal
  <2> DEFINE j == wjob[w]
  <2>1. j \in Jobs
    BY <1>8 DEF MarkActiveFails, Owned, Assigned
  <2>2. Running' = Running
    BY <1>8, Keep DEF MarkActiveFails, Goto, WorkerStates
  <2>3. CASE UNCHANGED status
    BY <2>2, <2>3 DEF Lifecycle!vars
  <2>4. CASE status[j] \in Waiting /\ status' = [status EXCEPT ![j] = "active"]
    <3>1. j \notin Running
      BY <2>4 DEF Owned, HeldStarted, Running, Waiting
    <3>2. Lifecycle!Activate(j)
      BY <2>2, <2>4, <3>1 DEF Lifecycle!Activate, Waiting, Lifecycle!Waiting
    <3>3. QED
      BY <2>1, <3>2 DEF Lifecycle!Next
  <2>5. QED
    BY <1>8, <2>3, <2>4 DEF MarkActiveFails, rowVars
<1>9. ASSUME NEW w \in Workers,
             SkipJob(w) \/ HandlerReturns(w) \/ HandlerThrows(w) PROVE Goal
  <2>1. UNCHANGED status /\ Running' = Running
    BY <1>9, Keep
    DEF SkipJob, HandlerReturns, HandlerThrows, Goto, rowVars, WorkerStates
  <2>2. QED
    BY <2>1 DEF Lifecycle!vars
<1>10. ASSUME NEW w \in Workers, MarkCompleted(w) \/ MarkCompletedFails(w) PROVE Goal
  <2> DEFINE j == wjob[w]
  <2>1. j \in Jobs
    BY <1>10 DEF MarkCompleted, MarkCompletedFails, Owned, Assigned
  <2>2. j \in Running /\ Running' \in {Running, Running \ {j}}
    <3>1. CASE MarkCompleted(w)
      BY <3>1, LetGo DEF MarkCompleted, Goto, WorkerStates
    <3>2. CASE MarkCompletedFails(w)
      <4>1. Running' = Running
        BY <3>2, Keep DEF MarkCompletedFails, Goto, WorkerStates
      <4>2. QED
        BY <2>1, <3>2, <4>1 DEF MarkCompletedFails, Running, Holds
    <3>3. QED
      BY <1>10, <3>1, <3>2
  <2>3. CASE UNCHANGED status
    BY <2>1, <2>2, <2>3 DEF Lifecycle!vars, Lifecycle!Leave, Lifecycle!Next
  <2>4. CASE status[j] = "active" /\ status' = [status EXCEPT ![j] = "completed"]
    BY <2>1, <2>2, <2>4 DEF Lifecycle!Complete, Lifecycle!Next
  <2>5. QED
    BY <1>10, <2>3, <2>4 DEF MarkCompleted, MarkCompletedFails, UpdateWhere
<1>11. ASSUME NEW w \in Workers, MarkAttemptFailure(w) PROVE Goal
  <2> DEFINE j == wjob[w]
  <2>1. j \in Jobs /\ j \in Running /\ Running' = Running \ {j}
    BY <1>11, LetGo DEF MarkAttemptFailure, Goto, WorkerStates, Owned, Assigned
  <2>2. CASE UNCHANGED status
    BY <2>1, <2>2 DEF Lifecycle!Leave, Lifecycle!Next
  <2>3. CASE status[j] = "active" /\ status' = [status EXCEPT ![j] = "queued"]
    BY <2>1, <2>3 DEF Lifecycle!Retry, Lifecycle!Next
  <2>4. CASE status' = [status EXCEPT ![j] = "failed"]
    <3>1. status[j] # "absent"
      BY <2>1, <1>11 DEF MarkAttemptFailure, Owned, HeldStarted, Holds
    <3>2. QED
      BY <2>1, <2>4, <3>1 DEF Lifecycle!Fail, Lifecycle!Next
  <2>5. QED
    BY <1>11, <2>2, <2>3, <2>4 DEF MarkAttemptFailure, UpdateWhere, WriteFinalFailure
<1>12. ASSUME NEW w \in Workers, MarkAttemptFailureFails(w) PROVE Goal
  <2>1. /\ wjob[w] \in Jobs /\ wjob[w] \in Running
        /\ UNCHANGED status /\ Running' = Running \ {wjob[w]}
    BY <1>12, LetGo
    DEF MarkAttemptFailureFails, Goto, WorkerStates, Owned, Assigned, rowVars
  <2>2. QED
    BY <2>1 DEF Lifecycle!Leave, Lifecycle!Next
<1>13. ASSUME NEW w \in Workers, AckSuccess(w) \/ AckFailure(w) PROVE Goal
  <2>1. UNCHANGED status /\ Running' = Running
    BY <1>13, Keep DEF AckSuccess, AckFailure, Idle, rowVars, WorkerStates, TypeOK
  <2>2. QED
    BY <2>1 DEF Lifecycle!vars
<1>14. ASSUME NEW w \in Workers, WorkerCrash(w) PROVE Goal
  <2>1. UNCHANGED status
    BY <1>14 DEF WorkerCrash, rowVars
  <2>2. CASE wpc[w] \in {"running", "returned", "failing"}
    <3>1. /\ wjob[w] \in Jobs /\ wjob[w] \in Running
          /\ Running' = Running \ {wjob[w]}
      BY <1>14, <2>2, LetGo DEF WorkerCrash, Idle, WorkerStates, Owned, Assigned
    <3>2. QED
      BY <2>1, <3>1 DEF Lifecycle!Leave, Lifecycle!Next
  <2>3. CASE wpc[w] \notin {"running", "returned", "failing"}
    <3>1. Running' = Running
      BY <1>14, <2>3, Keep DEF WorkerCrash, Idle, WorkerStates, TypeOK
    <3>2. QED
      BY <2>1, <3>1 DEF Lifecycle!vars
  <2>4. QED
    BY <2>2, <2>3
<1>15. CASE UNCHANGED vars
  BY <1>15, Unnoticed DEF vars, rowVars, workerVars
<1>16. QED
  BY <1>1, <1>2, <1>3, <1>4, <1>5, <1>6, <1>7, <1>8, <1>9, <1>10, <1>11, <1>12, <1>13,
     <1>14, <1>15
  DEF Next, SubmitStep, QueueStep, CancelStep, CompensateStep, WorkerStep

-----------------------------------------------------------------------------
(***************************************************************************)
(* The theorems                                                            *)
(***************************************************************************)

\* No row exists and no worker has a job.
LEMMA InitInvariant == Init => TypeOK /\ Owned
  BY NoneAssumption
  DEF Init, TypeOK, Owned, Assigned, HeldStarted, HandlerExclusive, Holds, Fresh,
      Statuses, Waiting, Terminal, QueueStates, SubmitStates, CancelStates, CompStates,
      WorkerStates

\* The inductive invariant of the system.
LEMMA Invariance == Spec => [](TypeOK /\ Owned)
<1>1. TypeOK /\ Owned /\ [Next]_vars => TypeOK' /\ Owned'
  BY StepTypeOK, StepOwned DEF Owned
<1>2. QED
  BY InitInvariant, <1>1, PTL DEF Spec

\* Type correctness of the pipeline for any number of jobs, workers, attempts and
\* faults.
THEOREM TypeCorrect == Spec => []TypeOK
  BY Invariance, PTL

\* At any time at most one worker runs the handler of a job, whatever is lost,
\* redelivered, re-enqueued or crashes: the guard of markActive suffices.
THEOREM Exclusive == Spec => []HandlerExclusive
<1>1. TypeOK /\ Owned => HandlerExclusive
  BY DEF Owned
<1>2. QED
  BY Invariance, <1>1, PTL

\* A cancelled row is never being run.
THEOREM CancelStopsRuns == Spec => []CancelledNeverRuns
<1>1. TypeOK /\ Owned => CancelledNeverRuns
  BY DEF Owned, HeldStarted, CancelledNeverRuns
<1>2. QED
  BY Invariance, <1>1, PTL

\* The pipeline implements the life cycle of a row.
THEOREM Refinement == Spec => ImplementsLifecycle
<1>1. Init => Lifecycle!Init
  BY DEF Init, Lifecycle!Init, Running, Holds
<1>2. QED
  BY <1>1, Invariance, StepRefines, PTL DEF Spec, ImplementsLifecycle, Lifecycle!Spec

\* A finished job is never put back to a status from which it could be run again:
\* every step of the life cycle leaves a terminal row terminal.
THEOREM NeverResurrected == Spec => NoResurrection
<1>1. TypeOK /\ [Lifecycle!Next]_(Lifecycle!vars) =>
        [\A j \in Jobs : status[j] \in Terminal => status'[j] \in Terminal]_status
  <2> SUFFICES ASSUME TypeOK, Lifecycle!Next,
                      NEW k \in Jobs, status[k] \in Terminal
               PROVE  status'[k] \in Terminal
    BY DEF Lifecycle!vars
  <2>1. PICK j \in Jobs :
          \/ Lifecycle!Create(j) \/ Lifecycle!Activate(j) \/ Lifecycle!Complete(j)
          \/ Lifecycle!Retry(j) \/ Lifecycle!Cancel(j) \/ Lifecycle!Fail(j)
          \/ Lifecycle!Leave(j)
    BY DEF Lifecycle!Next
  <2>2. \/ UNCHANGED status
        \/ \E s \in Statuses : /\ status' = [status EXCEPT ![j] = s]
                               /\ status[j] \in Terminal => s = "failed"
    BY <2>1
    DEF Lifecycle!Create, Lifecycle!Activate, Lifecycle!Complete, Lifecycle!Retry,
        Lifecycle!Cancel, Lifecycle!Fail, Lifecycle!Leave, Lifecycle!Waiting, Statuses,
        Terminal, Waiting
  <2>3. QED
    BY <2>2 DEF TypeOK, Terminal
<1>2. QED
  BY <1>1, Invariance, Refinement, PTL
  DEF ImplementsLifecycle, Lifecycle!Spec, NoResurrection
-----------------------------------------------------------------------------
(***************************************************************************)
(* Without faults: what ties BullMQ, the workers and the rows together     *)
(***************************************************************************)

\* A worker inside process() has the lock of its job and counts one attempt more than
\* BullMQ; a job is active in BullMQ exactly while its lock is held, by such a worker.
LocksHeld ==
  /\ \A w \in Workers :
       wpc[w] # "idle" => qlock[wjob[w]] = w /\ watt[w] = qmade[wjob[w]] + 1
  /\ \A j \in Jobs :
       /\ qstate[j] = "active" <=> qlock[j] # NoWorker
       /\ qlock[j] # NoWorker => Processes(qlock[j], j)

\* BullMQ hears of an end only when the row has ended, and of a failure only when the
\* row has ended or another attempt is left; a row is active only under its worker.
RowsFollowed ==
  /\ \A j \in Jobs :
       /\ status[j] = "active" => \E w \in Workers : Holds(w, j)
       /\ qstate[j] \in {"completed", "failed"} => status[j] \in Terminal
       /\ qstate[j] # "none" => status[j] # "absent"
  /\ \A w \in Workers :
       /\ wpc[w] = "ackOk" => status[wjob[w]] \in Terminal
       /\ wpc[w] = "ackFail" => watt[w] < MaxAttempts \/ status[wjob[w]] \in Terminal

\* Every run ends with a failure that BullMQ counts, or with the last acknowledgement.
RunsCounted ==
  /\ \A j \in Jobs :
       /\ starts[j] <= MaxAttempts
       /\ spc[j] # "enqueueFailed"
       /\ qstate[j] \in {"waiting", "active"} => qmade[j] < MaxAttempts
       /\ qstate[j] = "waiting" => starts[j] = qmade[j]
  /\ \A w \in Workers :
       /\ wpc[w] = "activate" => starts[wjob[w]] = qmade[wjob[w]]
       /\ wpc[w] \in {"running", "returned", "failing", "ackFail"} =>
            starts[wjob[w]] = qmade[wjob[w]] + 1

Calm == faults = 0 => LocksHeld /\ RowsFollowed /\ RunsCounted

\* A step behind which there is still no fault is one of those that fairness speaks of,
\* or a request that comes in.
LEMMA FaultFree ==
  ASSUME TypeOK, Next, faults' = 0
  PROVE  /\ faults = 0
         /\ \/ \E j \in Jobs :
                 \/ CreateQueued(j) \/ SubmitProgress(j)
                 \/ StallDead(j) \/ Evict(j)
                 \/ CancelRead(j) \/ CancelProgress(j)
                 \/ CompensateRead(j) \/ CompensateProgress(j)
            \/ \E w \in Workers : WorkerProgress(w)
<1>1. ~Fault
  BY DEF Fault, TypeOK
<1>2. CASE \E j \in Jobs : SubmitStep(j) \/ QueueStep(j) \/ CancelStep(j) \/ CompensateStep(j)
  <2> PICK j \in Jobs : SubmitStep(j) \/ QueueStep(j) \/ CancelStep(j) \/ CompensateStep(j)
    BY <1>2
  <2>1. CASE SubmitStep(j)
    BY <1>1, <2>1 DEF SubmitStep, SubmitProgress, EnqueueFails, SubmitStops, CreateQueued,
         Enqueue, MarkEnqueueFailure, AttachBullJobId
  <2>2. CASE QueueStep(j)
    BY <1>1, <2>2 DEF QueueStep, StallLive, QueueLoses, StallDead, Evict
  <2>3. CASE CancelStep(j)
    BY <1>1, <2>3 DEF CancelStep, CancelProgress, CancelRemoveFails, CancelStops, CancelRead,
         CancelInspect, CancelRemove, MarkCancelledIfCancellable
  <2>4. CASE CompensateStep(j)
    BY <1>1, <2>4 DEF CompensateStep, CompensateProgress, CompensateStops, CompensateRead,
         CompensateLookup, CompensateKeep, CompensateEnqueue, CompensateFail
  <2> QED
    BY <2>1, <2>2, <2>3, <2>4
<1>3. CASE \E w \in Workers : WorkerStep(w)
  BY <1>1, <1>3 DEF WorkerStep, WorkerProgress, MarkActiveFails, MarkCompletedFails,
       MarkAttemptFailureFails, WorkerCrash, TakeJob, MarkActive, SkipJob, HandlerReturns,
       HandlerThrows, MarkCompleted, MarkAttemptFailure, AckSuccess, AckFailure
<1> QED
  BY <1>2, <1>3 DEF Next

\* A step that leaves BullMQ and the workers alone leaves the locks alone.
LEMMA LocksUntouched ==
  ASSUME LocksHeld, UNCHANGED <<qstate, qmade, qlock, wpc, wjob, watt>>
  PROVE  LocksHeld'
BY DEF LocksHeld, Processes

\* A job that is given to BullMQ, or taken out of it unlocked, is nobody's.
LEMMA LocksOfOthers ==
  ASSUME TypeOK, Assigned, LocksHeld, NEW j \in Jobs,
         qlock[j] = NoWorker,
         \A i \in Jobs \ {j} : qstate'[i] = qstate[i] /\ qmade'[i] = qmade[i],
         qstate'[j] # "active",
         UNCHANGED <<qlock, wpc, wjob, watt>>
  PROVE  LocksHeld'
<1>1. \A w \in Workers : wpc[w] # "idle" => wjob[w] \in Jobs \ {j}
  BY NoneAssumption DEF LocksHeld, Assigned
<1> QED
  BY <1>1 DEF LocksHeld, Processes

LEMMA AddKeepsLocks ==
  ASSUME TypeOK, Assigned, LocksHeld, NEW j \in Jobs, QueueAdd(j),
         UNCHANGED workerVars
  PROVE  LocksHeld'
<1>1. CASE qstate[j] = "none"
  <2>1. qlock[j] = NoWorker
    BY <1>1 DEF LocksHeld
  <2> QED
    BY <1>1, <2>1, LocksOfOthers DEF QueueAdd, workerVars, TypeOK
<1>2. CASE qstate[j] # "none"
  BY <1>2, LocksUntouched DEF QueueAdd, queueVars, workerVars
<1> QED
  BY <1>1, <1>2

LEMMA DropKeepsLocks ==
  ASSUME TypeOK, Assigned, LocksHeld, NEW j \in Jobs, qlock[j] = NoWorker, QueueDrop(j),
         UNCHANGED workerVars
  PROVE  LocksHeld'
<1>1. qlock' = qlock
  BY DEF QueueDrop, TypeOK
<1> QED
  BY <1>1, LocksOfOthers DEF QueueDrop, workerVars, TypeOK

\* A worker that has answered gives its lock back; nobody else had it.
LEMMA AnswerKeepsLocks ==
  ASSUME TypeOK, Assigned, LocksHeld, NEW w \in Workers, wpc[w] # "idle", Idle(w),
         NEW to \in QueueStates \ {"active"}, QueueMove(wjob[w], to),
         \A i \in Jobs \ {wjob[w]} : qmade'[i] = qmade[i]
  PROVE  LocksHeld'
<1> DEFINE j == wjob[w]
<1>1. j \in Jobs /\ qlock[j] = w
  BY DEF LocksHeld, Assigned
<1>2. \A v \in Workers \ {w} : wpc[v] # "idle" => wjob[v] \in Jobs \ {j}
  BY <1>1 DEF LocksHeld, Assigned
<1>3. /\ qstate' = [qstate EXCEPT ![j] = to]
      /\ qlock' = [qlock EXCEPT ![j] = NoWorker]
  BY DEF QueueMove
<1>4. \A v \in Workers \ {w} : wpc'[v] = wpc[v] /\ wjob'[v] = wjob[v] /\ watt'[v] = watt[v]
  BY DEF Idle, TypeOK
<1>5. wpc'[w] = "idle"
  BY DEF Idle, TypeOK
<1>6. ASSUME NEW v \in Workers, wpc'[v] # "idle"
      PROVE  qlock'[wjob'[v]] = v /\ watt'[v] = qmade'[wjob'[v]] + 1
  BY <1>2, <1>3, <1>4, <1>5, <1>6 DEF LocksHeld, TypeOK
<1>7. ASSUME NEW i \in Jobs PROVE qstate'[i] = "active" <=> qlock'[i] # NoWorker
  BY <1>1, <1>3, <1>7 DEF LocksHeld, TypeOK
<1>8. ASSUME NEW i \in Jobs, qlock'[i] # NoWorker
      PROVE  wpc'[qlock'[i]] # "idle" /\ wjob'[qlock'[i]] = i
  <2>1. i # j /\ qlock'[i] = qlock[i] /\ qlock[i] \in Workers \ {w}
    BY <1>1, <1>3, <1>8 DEF LocksHeld, Processes, TypeOK
  <2>2. PICK v \in Workers \ {w} : v = qlock[i]
    BY <2>1
  <2>3. wpc[v] # "idle" /\ wjob[v] = i
    BY <2>2, NoneAssumption DEF LocksHeld, Processes
  <2> QED
    BY <1>4, <2>1, <2>2, <2>3
<1> QED
  BY <1>6, <1>7, <1>8 DEF LocksHeld, Processes

\* A step of a worker within process() keeps the lock.
LEMMA GotoKeepsLocks ==
  ASSUME TypeOK, LocksHeld, NEW w \in Workers, wpc[w] # "idle",
         NEW pc \in WorkerStates \ {"idle"}, Goto(w, pc),
         UNCHANGED <<qstate, qmade, qlock>>
  PROVE  LocksHeld'
BY DEF TypeOK, LocksHeld, Processes, Goto

\* Every step without a fault keeps the locks: the stalled check finds no job whose
\* worker is gone.
LEMMA StepLocks ==
  ASSUME TypeOK, Assigned, LocksHeld, [Next]_vars, faults' = 0
  PROVE  LocksHeld'
<1>1. ASSUME NEW j \in Jobs,
             \/ CreateQueued(j) \/ MarkEnqueueFailure(j) \/ AttachBullJobId(j)
             \/ CancelRead(j) \/ CancelInspect(j) \/ MarkCancelledIfCancellable(j)
             \/ CompensateRead(j) \/ CompensateLookup(j) \/ CompensateKeep(j)
             \/ CompensateFail(j)
      PROVE  LocksHeld'
  BY <1>1, LocksUntouched
  DEF CreateQueued, MarkEnqueueFailure, AttachBullJobId, CancelRead, CancelInspect,
      MarkCancelledIfCancellable, CompensateRead, CompensateLookup, CompensateKeep,
      CompensateFail, queueVars, workerVars, submitFrame, cancelFrame, compFrame
<1>2. ASSUME NEW j \in Jobs, Enqueue(j) \/ CompensateEnqueue(j) PROVE LocksHeld'
  BY <1>2, AddKeepsLocks DEF Enqueue, CompensateEnqueue, submitFrame, compFrame, workerVars
<1>3. ASSUME NEW j \in Jobs, StallDead(j) PROVE LocksHeld'
  <2>1. qlock[j] \in Workers /\ Processes(qlock[j], j)
    BY <1>3 DEF StallDead, Stall, LocksHeld, TypeOK
  <2> QED
    BY <1>3, <2>1 DEF StallDead
<1>4. ASSUME NEW j \in Jobs, Evict(j) PROVE LocksHeld'
  <2>1. qlock[j] = NoWorker
    BY <1>4 DEF Evict, LocksHeld
  <2> QED
    BY <1>4, <2>1, DropKeepsLocks DEF Evict, queueFrame
<1>5. ASSUME NEW j \in Jobs, CancelRemove(j) PROVE LocksHeld'
  <2>1. CASE qlock[j] = NoWorker
    BY <1>5, <2>1, DropKeepsLocks DEF CancelRemove, cancelFrame
  <2>2. CASE qlock[j] # NoWorker
    BY <1>5, <2>2, LocksUntouched DEF CancelRemove, cancelFrame, queueVars, workerVars
  <2> QED
    BY <2>1, <2>2
<1>6. ASSUME NEW w \in Workers, NEW j \in Jobs, TakeJob(w, j) PROVE LocksHeld'
  <2>1. qlock[j] = NoWorker
    BY <1>6 DEF TakeJob, LocksHeld
  <2>2. \A v \in Workers \ {w} : wpc[v] # "idle" => wjob[v] \in Jobs \ {j}
    BY <2>1, NoneAssumption DEF LocksHeld, Assigned
  <2>3. \A i \in Jobs : qlock[i] # w
    BY <1>6, NoneAssumption DEF TakeJob, LocksHeld, Processes, TypeOK
  <2>4. ASSUME NEW v \in Workers, wpc'[v] # "idle"
        PROVE  qlock'[wjob'[v]] = v /\ watt'[v] = qmade'[wjob'[v]] + 1
    BY <1>6, <2>2, <2>4 DEF TakeJob, LocksHeld, TypeOK
  <2>5. ASSUME NEW i \in Jobs PROVE qstate'[i] = "active" <=> qlock'[i] # NoWorker
    BY <1>6, <2>5, NoneAssumption DEF TakeJob, LocksHeld, TypeOK
  <2>6. ASSUME NEW i \in Jobs, qlock'[i] # NoWorker
        PROVE  wpc'[qlock'[i]] # "idle" /\ wjob'[qlock'[i]] = i
    BY <1>6, <2>3, <2>6 DEF TakeJob, LocksHeld, Processes, TypeOK
  <2> QED
    BY <2>4, <2>5, <2>6 DEF LocksHeld, Processes
<1>7. ASSUME NEW w \in Workers,
             \/ MarkActive(w) \/ SkipJob(w) \/ HandlerReturns(w) \/ HandlerThrows(w)
             \/ MarkCompleted(w) \/ MarkAttemptFailure(w)
      PROVE  LocksHeld'
  <2>1. PICK pc \in WorkerStates \ {"idle"} : Goto(w, pc)
    BY <1>7 DEF MarkActive, SkipJob, HandlerReturns, HandlerThrows, MarkCompleted,
         MarkAttemptFailure, WorkerStates
  <2> QED
    BY <1>7, <2>1, GotoKeepsLocks DEF MarkActive, SkipJob, HandlerReturns, HandlerThrows,
         MarkCompleted, MarkAttemptFailure, queueVars
<1>8. ASSUME NEW w \in Workers, AckSuccess(w) PROVE LocksHeld'
  <2>1. qlock[wjob[w]] = w
    BY <1>8 DEF AckSuccess, LocksHeld
  <2> QED
    BY <1>8, <2>1, AnswerKeepsLocks DEF AckSuccess, QueueStates
<1>9. ASSUME NEW w \in Workers, AckFailure(w) PROVE LocksHeld'
  <2>1. qlock[wjob[w]] = w
    BY <1>9 DEF AckFailure, LocksHeld
  <2>2. PICK to \in {"waiting", "failed"} : QueueMove(wjob[w], to)
    BY <1>9, <2>1 DEF AckFailure
  <2>3. \A i \in Jobs \ {wjob[w]} : qmade'[i] = qmade[i]
    BY <1>9, <2>1 DEF AckFailure, TypeOK
  <2> QED
    BY <1>9, <2>2, <2>3, AnswerKeepsLocks DEF AckFailure, QueueStates
<1>10. CASE UNCHANGED vars
  BY <1>10, LocksUntouched DEF vars, queueVars, workerVars
<1> QED
  BY <1>1, <1>2, <1>3, <1>4, <1>5, <1>6, <1>7, <1>8, <1>9, <1>10, FaultFree
  DEF SubmitProgress, CancelProgress, CompensateProgress, WorkerProgress

\* Two jobs in two workers' hands are two.
LEMMA OneWorkerPerJob ==
  ASSUME LocksHeld, NEW v \in Workers, NEW w \in Workers,
         wpc[v] # "idle", wpc[w] # "idle", wjob[v] = wjob[w]
  PROVE  v = w
BY DEF LocksHeld

\* A row that ends, under its worker or not, contradicts nobody.
LEMMA EndKeepsRows ==
  ASSUME TypeOK, RowsFollowed, NEW j \in Jobs, NEW to \in Terminal,
         status' = [status EXCEPT ![j] = to],
         UNCHANGED <<qstate, wpc, wjob, watt>>
  PROVE  RowsFollowed'
BY DEF TypeOK, RowsFollowed, Holds, Terminal

LEMMA RowsUntouched ==
  ASSUME RowsFollowed, UNCHANGED <<status, qstate, wpc, wjob, watt>>
  PROVE  RowsFollowed'
BY DEF RowsFollowed, Holds

\* BullMQ is given a job whose row exists, or forgets one.
LEMMA QueueKeepsRows ==
  ASSUME TypeOK, RowsFollowed, NEW j \in Jobs, status[j] # "absent",
         QueueAdd(j) \/ QueueDrop(j), UNCHANGED <<status, wpc, wjob, watt>>
  PROVE  RowsFollowed'
BY DEF TypeOK, RowsFollowed, Holds, QueueAdd, QueueDrop, queueVars

\* A worker between two statements still holds its job or does not.
LEMMA GotoKeepsRows ==
  ASSUME TypeOK, RowsFollowed, NEW w \in Workers,
         wpc[w] \in {"running", "returned", "failing"},
         NEW pc \in {"returned", "failing"}, Goto(w, pc), UNCHANGED <<status, qstate>>
  PROVE  RowsFollowed'
BY DEF TypeOK, RowsFollowed, Holds, Goto

\* A worker lets go of its job: its row is active no more.
LEMMA LettingGoKeepsRows ==
  ASSUME TypeOK, Assigned, RowsFollowed, LocksHeld, NEW w \in Workers,
         wpc[w] # "idle",
         NEW pc \in {"ackOk", "ackFail"}, Goto(w, pc),
         NEW s \in Terminal \cup Waiting, status' = [status EXCEPT ![wjob[w]] = s],
         s \in Terminal \/ (pc = "ackFail" /\ watt[w] < MaxAttempts),
         UNCHANGED qstate
  PROVE  RowsFollowed'
<1> DEFINE j == wjob[w]
<1>1. j \in Jobs /\ qstate[j] = "active"
  BY NoneAssumption DEF LocksHeld, Assigned
<1>2. \A v \in Workers \ {w} : wpc[v] # "idle" => wjob[v] # j
  BY OneWorkerPerJob
<1>3. \A v \in Workers \ {w} : wpc'[v] = wpc[v]
  BY DEF Goto, TypeOK
<1>4. wpc'[w] = pc /\ wjob' = wjob /\ watt' = watt
  BY DEF Goto, TypeOK
<1>5. ASSUME NEW i \in Jobs, status'[i] = "active"
      PROVE  \E v \in Workers : Holds(v, i)'
  <2>1. i # j /\ status[i] = "active"
    BY <1>1, <1>5 DEF TypeOK, Terminal, Waiting
  <2>2. PICK v \in Workers : Holds(v, i)
    BY <2>1 DEF RowsFollowed
  <2> QED
    BY <1>3, <1>4, <2>1, <2>2 DEF Holds
<1>6. ASSUME NEW i \in Jobs
      PROVE  /\ qstate'[i] \in {"completed", "failed"} => status'[i] \in Terminal
             /\ qstate'[i] # "none" => status'[i] # "absent"
  BY <1>1, <1>6 DEF RowsFollowed, TypeOK, Terminal, Waiting
<1>7. ASSUME NEW v \in Workers
      PROVE  /\ wpc'[v] = "ackOk" => status'[wjob'[v]] \in Terminal
             /\ wpc'[v] = "ackFail" =>
                  watt'[v] < MaxAttempts \/ status'[wjob'[v]] \in Terminal
  <2>1. CASE v = w
    BY <1>1, <1>4, <2>1 DEF TypeOK
  <2>2. CASE v # w
    BY <1>2, <1>3, <1>4, <1>7, <2>2 DEF RowsFollowed, TypeOK, Assigned
  <2> QED
    BY <2>1, <2>2
<1> QED
  BY <1>5, <1>6, <1>7 DEF RowsFollowed

\* Every step without a fault keeps BullMQ behind the rows.
LEMMA StepRows ==
  ASSUME TypeOK, Owned, LocksHeld, RowsFollowed, [Next]_vars, faults' = 0
  PROVE  RowsFollowed'
<1> USE DEF Owned
<1>1. ASSUME NEW j \in Jobs,
             \/ AttachBullJobId(j)
             \/ CancelRead(j) \/ CancelInspect(j)
             \/ CompensateRead(j) \/ CompensateLookup(j) \/ CompensateKeep(j)
      PROVE  RowsFollowed'
  BY <1>1, RowsUntouched
  DEF AttachBullJobId, CancelRead, CancelInspect, CompensateRead, CompensateLookup,
      CompensateKeep, queueVars, workerVars, submitFrame, cancelFrame, compFrame
<1>2. ASSUME NEW j \in Jobs, CreateQueued(j) PROVE RowsFollowed'
  <2>1. status[j] = "absent"
    BY <1>2 DEF CreateQueued, Fresh
  <2>2. UNCHANGED <<qstate, wpc, wjob, watt>>
    BY <1>2 DEF CreateQueued, queueVars, submitFrame, workerVars
  <2>3. PICK s \in Waiting : status' = [status EXCEPT ![j] = s]
    BY <1>2 DEF CreateQueued
  <2> QED
    BY <2>1, <2>2, <2>3 DEF TypeOK, RowsFollowed, Holds, Waiting, Terminal
<1>3. ASSUME NEW j \in Jobs, Enqueue(j) \/ CompensateEnqueue(j) PROVE RowsFollowed'
  <2>1. status[j] # "absent"
    BY <1>3 DEF Enqueue, CompensateEnqueue, Fresh
  <2> QED
    BY <1>3, <2>1, QueueKeepsRows
    DEF Enqueue, CompensateEnqueue, rowVars, submitFrame, compFrame, workerVars
<1>4. ASSUME NEW j \in Jobs, MarkEnqueueFailure(j) \/ CompensateFail(j) PROVE RowsFollowed'
  BY <1>4, EndKeepsRows
  DEF MarkEnqueueFailure, CompensateFail, WriteFinalFailure, Terminal, queueVars,
      submitFrame, compFrame, workerVars
<1>5. ASSUME NEW j \in Jobs, StallDead(j) PROVE RowsFollowed'
  <2>1. qlock[j] \in Workers /\ Processes(qlock[j], j)
    BY <1>5 DEF StallDead, Stall, LocksHeld, TypeOK
  <2> QED
    BY <1>5, <2>1 DEF StallDead
<1>6. ASSUME NEW j \in Jobs, Evict(j) PROVE RowsFollowed'
  <2>1. status[j] # "absent"
    BY <1>6 DEF Evict, RowsFollowed
  <2> QED
    BY <1>6, <2>1, QueueKeepsRows DEF Evict, queueFrame, rowVars, workerVars
<1>7. ASSUME NEW j \in Jobs, CancelRemove(j) PROVE RowsFollowed'
  <2>1. CASE qlock[j] = NoWorker /\ status[j] # "absent"
    BY <1>7, <2>1, QueueKeepsRows DEF CancelRemove, cancelFrame, workerVars
  <2>2. CASE qlock[j] = NoWorker /\ status[j] = "absent"
    <3>1. UNCHANGED qstate
      <4>1. qstate[j] = "none"
        BY <2>2 DEF RowsFollowed
      <4>2. qstate' = [qstate EXCEPT ![j] = "none"]
        BY <1>7, <2>2 DEF CancelRemove, QueueDrop
      <4> QED
        BY <4>1, <4>2 DEF TypeOK
    <3> QED
      BY <1>7, <3>1, RowsUntouched DEF CancelRemove, cancelFrame, workerVars
  <2>3. CASE qlock[j] # NoWorker
    BY <1>7, <2>3, RowsUntouched DEF CancelRemove, cancelFrame, queueVars, workerVars
  <2> QED
    BY <2>1, <2>2, <2>3
<1>8. ASSUME NEW j \in Jobs, MarkCancelledIfCancellable(j) PROVE RowsFollowed'
  BY <1>8, EndKeepsRows, RowsUntouched
  DEF MarkCancelledIfCancellable, UpdateWhere, Terminal, queueVars, cancelFrame, workerVars
<1>9. ASSUME NEW w \in Workers, NEW j \in Jobs, TakeJob(w, j) PROVE RowsFollowed'
  <2>1. \A i \in Jobs : ~Holds(w, i)
    BY <1>9 DEF TakeJob, Holds
  <2>2. \A v \in Workers, i \in Jobs : Holds(v, i) => Holds(v, i)'
    BY <1>9, <2>1 DEF TakeJob, Holds, TypeOK
  <2>3. \A i \in Jobs : qstate'[i] \in {"completed", "failed"} => qstate'[i] = qstate[i]
    BY <1>9 DEF TakeJob, TypeOK
  <2>4. \A i \in Jobs : qstate'[i] # "none" => qstate[i] # "none"
    BY <1>9 DEF TakeJob, TypeOK
  <2>5. \A v \in Workers : wpc'[v] \in {"ackOk", "ackFail"} =>
          wpc'[v] = wpc[v] /\ wjob'[v] = wjob[v] /\ watt'[v] = watt[v]
    BY <1>9 DEF TakeJob, TypeOK
  <2>6. UNCHANGED status
    BY <1>9 DEF TakeJob, rowVars
  <2> QED
    BY <2>2, <2>3, <2>4, <2>5, <2>6 DEF RowsFollowed
<1>10. ASSUME NEW w \in Workers, MarkActive(w) PROVE RowsFollowed'
  <2> DEFINE j == wjob[w]
  <2>1. j \in Jobs /\ status[j] \in Waiting /\ qstate[j] = "active"
    BY <1>10, NoneAssumption DEF MarkActive, Assigned, LocksHeld
  <2>2. \A v \in Workers \ {w} : wpc[v] # "idle" => wjob[v] # j
    BY <1>10, OneWorkerPerJob DEF MarkActive
  <2>3. /\ status' = [status EXCEPT ![j] = "active"]
        /\ wpc' = [wpc EXCEPT ![w] = "running"]
        /\ UNCHANGED <<wjob, watt, qstate>>
    BY <1>10 DEF MarkActive, Goto
  <2>4. \A v \in Workers, i \in Jobs : Holds(v, i) => Holds(v, i)'
    BY <2>3 DEF Holds, TypeOK
  <2>5. Holds(w, j)'
    BY <2>3 DEF Holds, TypeOK
  <2>6. \A i \in Jobs : status'[i] = "active" => \E v \in Workers : Holds(v, i)'
    BY <2>3, <2>4, <2>5 DEF RowsFollowed, TypeOK
  <2>7. \A i \in Jobs :
          /\ qstate'[i] \in {"completed", "failed"} => status'[i] \in Terminal
          /\ qstate'[i] # "none" => status'[i] # "absent"
    BY <2>1, <2>3 DEF RowsFollowed, TypeOK
  <2>8. ASSUME NEW v \in Workers
        PROVE  /\ wpc'[v] = "ackOk" => status'[wjob'[v]] \in Terminal
               /\ wpc'[v] = "ackFail" =>
                    watt'[v] < MaxAttempts \/ status'[wjob'[v]] \in Terminal
    BY <2>1, <2>2, <2>3, <2>8 DEF RowsFollowed, TypeOK, Assigned
  <2> QED
    BY <2>6, <2>7, <2>8 DEF RowsFollowed
<1>11. ASSUME NEW w \in Workers, SkipJob(w) PROVE RowsFollowed'
  <2> DEFINE j == wjob[w]
  <2>1. j \in Jobs /\ qstate[j] = "active" /\ wpc[w] = "activate"
    BY <1>11, NoneAssumption DEF SkipJob, Assigned, LocksHeld
  <2>2. status[j] # "active"
    <3>1. ASSUME NEW v \in Workers, Holds(v, j) PROVE FALSE
      BY <2>1, <3>1, OneWorkerPerJob DEF Holds
    <3> QED
      BY <2>1, <3>1 DEF RowsFollowed
  <2>3. status[j] \in Terminal
    BY <1>11, <2>1, <2>2 DEF SkipJob, RowsFollowed, TypeOK, Statuses
  <2>4. status' = [status EXCEPT ![j] = status[j]]
    BY <1>11, <2>1 DEF SkipJob, rowVars, TypeOK
  <2>5. PICK s \in Terminal : s = status[j]
    BY <2>3
  <2> QED
    BY <1>11, <2>1, <2>4, <2>5, LettingGoKeepsRows DEF SkipJob, queueVars
<1>12. ASSUME NEW w \in Workers, HandlerReturns(w) \/ HandlerThrows(w) PROVE RowsFollowed'
  BY <1>12, GotoKeepsRows DEF HandlerReturns, HandlerThrows, rowVars, queueVars
<1>13. ASSUME NEW w \in Workers, MarkCompleted(w) PROVE RowsFollowed'
  <2> DEFINE j == wjob[w]
  <2>1. j \in Jobs /\ status[j] \in {"active", "completed", "failed"}
    BY <1>13 DEF MarkCompleted, Assigned, HeldStarted, Holds
  <2>2. PICK s \in Terminal : status' = [status EXCEPT ![j] = s]
    <3>1. CASE status[j] = "active"
      BY <1>13, <3>1 DEF MarkCompleted, UpdateWhere, Terminal
    <3>2. CASE status[j] # "active"
      BY <1>13, <2>1, <3>2 DEF MarkCompleted, UpdateWhere, Terminal, TypeOK
    <3> QED
      BY <3>1, <3>2
  <2> QED
    BY <1>13, <2>2, LettingGoKeepsRows DEF MarkCompleted, queueVars
<1>14. ASSUME NEW w \in Workers, MarkAttemptFailure(w) PROVE RowsFollowed'
  <2> DEFINE j == wjob[w]
  <2>1. j \in Jobs /\ status[j] \in {"active", "completed", "failed"}
    BY <1>14 DEF MarkAttemptFailure, Assigned, HeldStarted, Holds
  <2>2. PICK s \in Terminal \cup Waiting :
          /\ status' = [status EXCEPT ![j] = s]
          /\ s \in Terminal \/ watt[w] < MaxAttempts
    <3>1. CASE isFinal(w)
      BY <1>14, <3>1 DEF MarkAttemptFailure, WriteFinalFailure, Terminal
    <3>2. CASE ~isFinal(w) /\ status[j] = "active"
      <4>1. watt[w] < MaxAttempts
        BY <3>2, MaxAttemptsAssumption DEF isFinal, TypeOK
      <4>2. status' = [status EXCEPT ![j] = "queued"]
        BY <1>14, <3>2 DEF MarkAttemptFailure, UpdateWhere
      <4> QED
        BY <4>1, <4>2 DEF Waiting
    <3>3. CASE ~isFinal(w) /\ status[j] # "active"
      BY <1>14, <2>1, <3>3 DEF MarkAttemptFailure, UpdateWhere, Terminal, TypeOK
    <3> QED
      BY <3>1, <3>2, <3>3
  <2> QED
    BY <1>14, <2>2, LettingGoKeepsRows DEF MarkAttemptFailure, queueVars
<1>15. ASSUME NEW w \in Workers, AckSuccess(w) PROVE RowsFollowed'
  <2>1. wjob[w] \in Jobs /\ status[wjob[w]] \in Terminal /\ qlock[wjob[w]] = w
    BY <1>15 DEF AckSuccess, RowsFollowed, Assigned, LocksHeld
  <2> QED
    BY <1>15, <2>1, NoneAssumption
    DEF AckSuccess, Idle, QueueMove, RowsFollowed, Holds, TypeOK, rowVars, Terminal, Assigned
<1>16. ASSUME NEW w \in Workers, AckFailure(w) PROVE RowsFollowed'
  <2>1. /\ wjob[w] \in Jobs /\ qlock[wjob[w]] = w /\ qstate[wjob[w]] = "active"
        /\ status[wjob[w]] \in Terminal \/ qmade[wjob[w]] + 1 < MaxAttempts
    BY <1>16, NoneAssumption DEF AckFailure, RowsFollowed, Assigned, LocksHeld
  <2>2. PICK to \in {"waiting", "failed"} :
          /\ qstate' = [qstate EXCEPT ![wjob[w]] = to]
          /\ to = "failed" => status[wjob[w]] \in Terminal
    BY <1>16, <2>1 DEF AckFailure, QueueMove
  <2> QED
    BY <1>16, <2>1, <2>2, NoneAssumption
    DEF AckFailure, Idle, RowsFollowed, Holds, TypeOK, rowVars, Terminal, Assigned
<1>17. CASE UNCHANGED vars
  BY <1>17, RowsUntouched DEF vars, rowVars, queueVars, workerVars
<1> QED
  BY <1>1, <1>2, <1>3, <1>4, <1>5, <1>6, <1>7, <1>8, <1>9, <1>10, <1>11, <1>12, <1>13,
     <1>14, <1>15, <1>16, <1>17, FaultFree
  DEF SubmitProgress, CancelProgress, CompensateProgress, WorkerProgress

-----------------------------------------------------------------------------
(***************************************************************************)
(* No job is lost between the stores                                       *)
(***************************************************************************)
\* What NoOrphan says of a job.
SomebodyHas(j) ==
  status[j] \in {"active"} \cup Waiting =>
    \/ spc[j] = "enqueue"
    \/ qstate[j] \in {"waiting", "active"}
    \/ cpc[j] = "mark"

\* A job in a worker's hands is active in BullMQ, and a row that is active is in a
\* worker's hands.
LEMMA ActiveIsActive ==
  ASSUME TypeOK, LocksHeld, RowsFollowed, NEW j \in Jobs, status[j] = "active"
  PROVE  qstate[j] = "active"
BY NoneAssumption DEF LocksHeld, RowsFollowed, Holds

\* While a row has not ended, BullMQ has its job, or has none.
LEMMA NotEndedInQueue ==
  ASSUME TypeOK, RowsFollowed, NEW j \in Jobs, status[j] \in {"active"} \cup Waiting
  PROVE  qstate[j] \in {"none", "waiting", "active"}
BY DEF TypeOK, RowsFollowed, QueueStates, Waiting, Terminal

\* Every step without a fault leaves every unfinished job with somebody.
LEMMA StepSomebodyHas ==
  ASSUME TypeOK, Owned, LocksHeld, RowsFollowed,
         \A j \in Jobs : SomebodyHas(j),
         [Next]_vars, faults' = 0,
         NEW k \in Jobs
  PROVE  SomebodyHas(k)'
<1> USE DEF SomebodyHas
<1>1. ASSUME NEW j \in Jobs,
             \/ CreateQueued(j) \/ MarkEnqueueFailure(j) \/ AttachBullJobId(j)
             \/ CancelRead(j) \/ CancelInspect(j)
             \/ CompensateRead(j) \/ CompensateLookup(j) \/ CompensateKeep(j)
             \/ CompensateFail(j)
      PROVE  SomebodyHas(k)'
  BY <1>1
  DEF TypeOK, CreateQueued, MarkEnqueueFailure, AttachBullJobId, CancelRead, CancelInspect,
      CompensateRead, CompensateLookup, CompensateKeep, CompensateFail, WriteFinalFailure,
      queueVars, submitFrame, cancelFrame, compFrame, Waiting
<1>2. ASSUME NEW j \in Jobs, Enqueue(j) \/ CompensateEnqueue(j) PROVE SomebodyHas(k)'
  <2>1. UNCHANGED <<status, cpc>>
    BY <1>2 DEF Enqueue, CompensateEnqueue, rowVars, submitFrame, compFrame
  <2>2. CASE k = j
    <3>1. CASE qstate[j] = "none"
      BY <1>2, <2>2, <3>1 DEF Enqueue, CompensateEnqueue, QueueAdd, TypeOK
    <3>2. CASE qstate[j] # "none"
      BY <1>2, <2>1, <2>2, <3>2, NotEndedInQueue
      DEF Enqueue, CompensateEnqueue, QueueAdd, queueVars
    <3> QED
      BY <3>1, <3>2
  <2>3. CASE k # j
    BY <1>2, <2>1, <2>3
    DEF Enqueue, CompensateEnqueue, QueueAdd, queueVars, compFrame, TypeOK
  <2> QED
    BY <2>2, <2>3
<1>3. ASSUME NEW j \in Jobs, StallDead(j) PROVE SomebodyHas(k)'
  <2>1. qlock[j] \in Workers /\ Processes(qlock[j], j)
    BY <1>3 DEF StallDead, Stall, LocksHeld, TypeOK
  <2> QED
    BY <1>3, <2>1 DEF StallDead
<1>4. ASSUME NEW j \in Jobs, Evict(j) PROVE SomebodyHas(k)'
  <2>1. status[j] \in Terminal
    BY <1>4 DEF Evict, RowsFollowed
  <2> QED
    BY <1>4, <2>1 DEF Evict, QueueDrop, queueFrame, rowVars, TypeOK, Waiting, Terminal
<1>5. ASSUME NEW j \in Jobs, CancelRemove(j) PROVE SomebodyHas(k)'
  BY <1>5 DEF CancelRemove, QueueDrop, queueVars, cancelFrame, TypeOK
<1>6. ASSUME NEW j \in Jobs, MarkCancelledIfCancellable(j) PROVE SomebodyHas(k)'
  <2>1. UNCHANGED <<qstate, spc>>
    BY <1>6 DEF MarkCancelledIfCancellable, queueVars, cancelFrame
  <2>2. CASE status[j] \in Waiting
    BY <1>6, <2>1, <2>2 DEF MarkCancelledIfCancellable, UpdateWhere, TypeOK, Waiting
  <2>3. CASE status[j] \notin Waiting
    BY <1>6, <2>1, <2>3, ActiveIsActive DEF MarkCancelledIfCancellable, UpdateWhere, TypeOK
  <2> QED
    BY <2>2, <2>3
<1>7. ASSUME NEW w \in Workers, NEW j \in Jobs, TakeJob(w, j) PROVE SomebodyHas(k)'
  BY <1>7 DEF TakeJob, rowVars, workerFrame, TypeOK
<1>8. ASSUME NEW w \in Workers,
             \/ MarkActive(w) \/ SkipJob(w) \/ HandlerReturns(w) \/ HandlerThrows(w)
             \/ MarkCompleted(w) \/ MarkAttemptFailure(w)
      PROVE  SomebodyHas(k)'
  <2> DEFINE j == wjob[w]
  <2>1. j \in Jobs /\ qstate[j] = "active"
    BY <1>8, NoneAssumption
    DEF MarkActive, SkipJob, HandlerReturns, HandlerThrows, MarkCompleted,
        MarkAttemptFailure, Owned, Assigned, LocksHeld
  <2>2. UNCHANGED <<qstate, spc, cpc>>
    BY <1>8 DEF MarkActive, SkipJob, HandlerReturns, HandlerThrows, MarkCompleted,
         MarkAttemptFailure, queueVars, workerFrame
  <2>3. k # j => status'[k] = status[k]
    BY <1>8, <2>1 DEF MarkActive, SkipJob, HandlerReturns, HandlerThrows, MarkCompleted,
         MarkAttemptFailure, UpdateWhere, WriteFinalFailure, rowVars, TypeOK
  <2> QED
    BY <2>1, <2>2, <2>3
<1>9. ASSUME NEW w \in Workers, AckSuccess(w) \/ AckFailure(w) PROVE SomebodyHas(k)'
  <2> DEFINE j == wjob[w]
  <2>1. UNCHANGED <<status, spc, cpc>>
    BY <1>9 DEF AckSuccess, AckFailure, rowVars, workerFrame
  <2>2. CASE k # j
    BY <1>9, <2>1, <2>2 DEF AckSuccess, AckFailure, QueueMove, TypeOK
  <2>3. CASE k = j /\ status[j] \in Terminal
    BY <2>1, <2>3 DEF Terminal, Waiting
  <2>4. CASE k = j /\ status[j] \notin Terminal
    <3>1. AckFailure(w) /\ qlock[j] = w /\ qmade[j] + 1 < MaxAttempts
      BY <1>9, <2>4 DEF AckSuccess, AckFailure, RowsFollowed, LocksHeld
    <3>2. qstate' = [qstate EXCEPT ![j] = "waiting"]
      BY <3>1 DEF AckFailure, QueueMove
    <3> QED
      BY <2>4, <3>2 DEF TypeOK
  <2> QED
    BY <2>2, <2>3, <2>4
<1>10. CASE UNCHANGED vars
  BY <1>10 DEF vars, rowVars, queueVars
<1> QED
  BY <1>1, <1>2, <1>3, <1>4, <1>5, <1>6, <1>7, <1>8, <1>9, <1>10, FaultFree
  DEF SubmitProgress, CancelProgress, CompensateProgress, WorkerProgress

-----------------------------------------------------------------------------
(***************************************************************************)
(* The runs of a job are counted                                           *)
(***************************************************************************)
LEMMA CountsUntouched ==
  ASSUME RunsCounted, UNCHANGED <<starts, qstate, qmade, wpc, wjob>>,
         \A j \in Jobs : spc'[j] # "enqueueFailed"
  PROVE  RunsCounted'
BY DEF RunsCounted

\* BullMQ begins to count when it is given a job it does not have; no worker has it.
LEMMA QueueKeepsCounts ==
  ASSUME TypeOK, Assigned, LocksHeld, RunsCounted, NEW j \in Jobs, qlock[j] = NoWorker,
         QueueAdd(j) \/ QueueDrop(j),
         UNCHANGED <<wpc, wjob>>, \A i \in Jobs : spc'[i] # "enqueueFailed"
  PROVE  RunsCounted'
<1>1. \A w \in Workers : wpc[w] # "idle" => wjob[w] \in Jobs \ {j}
  BY NoneAssumption DEF LocksHeld, Assigned
<1>2. \A i \in Jobs \ {j} :
        qstate'[i] = qstate[i] /\ qmade'[i] = qmade[i] /\ starts'[i] = starts[i]
  BY DEF QueueAdd, QueueDrop, queueVars, TypeOK
<1>3. /\ starts'[j] <= MaxAttempts
      /\ qstate'[j] \in {"waiting", "active"} => qmade'[j] < MaxAttempts
      /\ qstate'[j] = "waiting" => starts'[j] = qmade'[j]
  <2>1. CASE QueueAdd(j) /\ qstate[j] = "none"
    <3>1. starts'[j] = 0 /\ qmade'[j] = 0
      BY <2>1 DEF QueueAdd, TypeOK
    <3> QED
      BY <3>1, MaxAttemptsAssumption
  <2>2. CASE QueueAdd(j) /\ qstate[j] # "none"
    BY <2>2 DEF QueueAdd, queueVars, RunsCounted
  <2>3. CASE QueueDrop(j)
    BY <2>3 DEF QueueDrop, RunsCounted, TypeOK
  <2> QED
    BY <2>1, <2>2, <2>3
<1> QED
  BY <1>1, <1>2, <1>3 DEF RunsCounted

\* A worker within a run does not change the counts.
LEMMA GotoKeepsCounts ==
  ASSUME TypeOK, RunsCounted, NEW w \in Workers, NEW pc \in WorkerStates, Goto(w, pc),
         \/ pc = "ackOk"
         \/ /\ wpc[w] \in {"running", "returned", "failing"}
            /\ pc \in {"returned", "failing", "ackFail"},
         UNCHANGED <<starts, qstate, qmade, spc>>
  PROVE  RunsCounted'
BY DEF TypeOK, RunsCounted, Goto

\* Every step without a fault keeps the count.
LEMMA StepCounts ==
  ASSUME TypeOK, Owned, LocksHeld, RowsFollowed, RunsCounted, [Next]_vars, faults' = 0
  PROVE  RunsCounted'
<1> USE DEF Owned
<1>1. ASSUME NEW j \in Jobs,
             \/ CreateQueued(j) \/ MarkEnqueueFailure(j) \/ AttachBullJobId(j)
             \/ CancelRead(j) \/ CancelInspect(j) \/ MarkCancelledIfCancellable(j)
             \/ CompensateRead(j) \/ CompensateLookup(j) \/ CompensateKeep(j)
             \/ CompensateFail(j)
      PROVE  RunsCounted'
  <2>1. \A i \in Jobs : spc'[i] # "enqueueFailed"
    BY <1>1 DEF RunsCounted, TypeOK, CreateQueued, MarkEnqueueFailure, AttachBullJobId,
      CancelRead, CancelInspect, MarkCancelledIfCancellable, CompensateRead,
      CompensateLookup, CompensateKeep, CompensateFail, cancelFrame, compFrame
  <2> QED
    BY <1>1, <2>1, CountsUntouched
    DEF CreateQueued, MarkEnqueueFailure, AttachBullJobId, CancelRead, CancelInspect,
      MarkCancelledIfCancellable, CompensateRead, CompensateLookup, CompensateKeep,
      CompensateFail, queueVars, workerVars, submitFrame, cancelFrame, compFrame
<1>2. ASSUME NEW j \in Jobs, Enqueue(j) \/ CompensateEnqueue(j) PROVE RunsCounted'
  <2>1. \A i \in Jobs : spc'[i] # "enqueueFailed"
    BY <1>2 DEF Enqueue, CompensateEnqueue, compFrame, RunsCounted, TypeOK
  <2>2. QueueAdd(j) /\ UNCHANGED <<wpc, wjob>>
    BY <1>2 DEF Enqueue, CompensateEnqueue, submitFrame, compFrame, workerVars
  <2>3. CASE qstate[j] = "none"
    BY <2>1, <2>2, <2>3, QueueKeepsCounts DEF LocksHeld
  <2>4. CASE qstate[j] # "none"
    BY <2>1, <2>2, <2>4, CountsUntouched DEF QueueAdd, queueVars
  <2> QED
    BY <2>3, <2>4
<1>3. ASSUME NEW j \in Jobs, StallDead(j) PROVE RunsCounted'
  <2>1. qlock[j] \in Workers /\ Processes(qlock[j], j)
    BY <1>3 DEF StallDead, Stall, LocksHeld, TypeOK
  <2> QED
    BY <1>3, <2>1 DEF StallDead
<1>4. ASSUME NEW j \in Jobs, Evict(j) PROVE RunsCounted'
  <2>1. qlock[j] = NoWorker
    BY <1>4 DEF Evict, LocksHeld
  <2> QED
    BY <1>4, <2>1, QueueKeepsCounts DEF Evict, queueFrame, workerVars, RunsCounted
<1>5. ASSUME NEW j \in Jobs, CancelRemove(j) PROVE RunsCounted'
  <2>1. CASE qlock[j] = NoWorker
    BY <1>5, <2>1, QueueKeepsCounts DEF CancelRemove, cancelFrame, workerVars, RunsCounted
  <2>2. CASE qlock[j] # NoWorker
    BY <1>5, <2>2, CountsUntouched
    DEF CancelRemove, cancelFrame, queueVars, workerVars, RunsCounted
  <2> QED
    BY <2>1, <2>2
<1>6. ASSUME NEW w \in Workers, NEW j \in Jobs, TakeJob(w, j) PROVE RunsCounted'
  BY <1>6 DEF TakeJob, workerFrame, RunsCounted, TypeOK
<1>7. ASSUME NEW w \in Workers, MarkActive(w) PROVE RunsCounted'
  <2> DEFINE j == wjob[w]
  <2>1. /\ j \in Jobs /\ qstate[j] = "active"
        /\ starts[j] = qmade[j] /\ qmade[j] < MaxAttempts
    BY <1>7, NoneAssumption DEF MarkActive, Assigned, LocksHeld, RunsCounted
  <2>2. \A v \in Workers \ {w} : wpc[v] # "idle" => wjob[v] \in Jobs \ {j}
    BY <1>7, OneWorkerPerJob DEF MarkActive, Assigned
  <2>3. /\ starts' = [starts EXCEPT ![j] = qmade[j] + 1]
        /\ wpc' = [wpc EXCEPT ![w] = "running"]
        /\ UNCHANGED <<wjob, qstate, qmade, spc>>
    BY <1>7, <2>1 DEF MarkActive, Goto, workerFrame
  <2>4. qmade[j] + 1 <= MaxAttempts
    BY <2>1, MaxAttemptsAssumption DEF TypeOK
  <2>5. ASSUME NEW i \in Jobs
        PROVE  /\ starts'[i] <= MaxAttempts
               /\ qstate'[i] = "waiting" => starts'[i] = qmade'[i]
    BY <2>1, <2>3, <2>4, <2>5 DEF RunsCounted, TypeOK
  <2>6. ASSUME NEW v \in Workers
        PROVE  /\ wpc'[v] = "activate" => starts'[wjob'[v]] = qmade'[wjob'[v]]
               /\ wpc'[v] \in {"running", "returned", "failing", "ackFail"} =>
                    starts'[wjob'[v]] = qmade'[wjob'[v]] + 1
    BY <2>1, <2>2, <2>3, <2>6 DEF RunsCounted, TypeOK
  <2> QED
    BY <2>3, <2>5, <2>6 DEF RunsCounted
<1>8. ASSUME NEW w \in Workers,
             \/ SkipJob(w) \/ HandlerReturns(w) \/ HandlerThrows(w)
             \/ MarkCompleted(w) \/ MarkAttemptFailure(w)
      PROVE  RunsCounted'
  BY <1>8, GotoKeepsCounts
  DEF SkipJob, HandlerReturns, HandlerThrows, MarkCompleted, MarkAttemptFailure, queueVars,
      workerFrame, WorkerStates
<1>9. ASSUME NEW w \in Workers, AckSuccess(w) PROVE RunsCounted'
  BY <1>9 DEF AckSuccess, Idle, QueueMove, workerFrame, RunsCounted, TypeOK
<1>10. ASSUME NEW w \in Workers, AckFailure(w) PROVE RunsCounted'
  <2> DEFINE j == wjob[w]
  <2>1. /\ j \in Jobs /\ qlock[j] = w
        /\ starts[j] = qmade[j] + 1
    BY <1>10 DEF AckFailure, Assigned, LocksHeld, RunsCounted
  <2>2. \A v \in Workers \ {w} : wpc[v] # "idle" => wjob[v] \in Jobs \ {j}
    BY <1>10, OneWorkerPerJob DEF AckFailure, Assigned
  <2>3. PICK to \in {"waiting", "failed"} :
          /\ qstate' = [qstate EXCEPT ![j] = to]
          /\ to = "waiting" => qmade[j] + 1 < MaxAttempts
    BY <1>10, <2>1 DEF AckFailure, QueueMove
  <2>4. /\ qmade' = [qmade EXCEPT ![j] = qmade[j] + 1]
        /\ wpc' = [wpc EXCEPT ![w] = "idle"]
        /\ \A v \in Workers \ {w} : wjob'[v] = wjob[v]
        /\ UNCHANGED <<starts, spc>>
    BY <1>10, <2>1 DEF AckFailure, Idle, workerFrame, TypeOK
  <2>5. ASSUME NEW i \in Jobs
        PROVE  /\ starts'[i] <= MaxAttempts
               /\ qstate'[i] \in {"waiting", "active"} => qmade'[i] < MaxAttempts
               /\ qstate'[i] = "waiting" => starts'[i] = qmade'[i]
    BY <2>1, <2>3, <2>4, <2>5 DEF RunsCounted, TypeOK
  <2>6. ASSUME NEW v \in Workers
        PROVE  /\ wpc'[v] = "activate" => starts'[wjob'[v]] = qmade'[wjob'[v]]
               /\ wpc'[v] \in {"running", "returned", "failing", "ackFail"} =>
                    starts'[wjob'[v]] = qmade'[wjob'[v]] + 1
    BY <2>2, <2>4, <2>6 DEF RunsCounted, TypeOK
  <2> QED
    BY <2>4, <2>5, <2>6 DEF RunsCounted
<1>11. CASE UNCHANGED vars
  BY <1>11, CountsUntouched DEF vars, queueVars, workerVars, RunsCounted
<1> QED
  BY <1>1, <1>2, <1>3, <1>4, <1>5, <1>6, <1>7, <1>8, <1>9, <1>10, <1>11, FaultFree
  DEF SubmitProgress, CancelProgress, CompensateProgress, WorkerProgress

\* A row that is active names its BullMQ job; so a compensation that acts on an active
\* row has looked for the job, and as getJob's undefined is not null, has found it.
ActiveIsAttached ==
  \A j \in Jobs :
    /\ status[j] = "active" => bullJobId[j]
    /\ kpc[j] = "act" /\ ~kfound[j] => kseen[j] # "active"

LEMMA StepAttached ==
  ASSUME ~MissIsNull, TypeOK, ActiveIsAttached, [Next]_vars
  PROVE  ActiveIsAttached'
<1> USE DEF TypeOK, ActiveIsAttached
<1>1. ASSUME NEW j \in Jobs, SubmitStep(j) PROVE ActiveIsAttached'
  BY <1>1
  DEF SubmitStep, CreateQueued, Enqueue, EnqueueFails, MarkEnqueueFailure, AttachBullJobId,
      SubmitStops, WriteFinalFailure, submitFrame, rowVars, compVars, Waiting
<1>2. ASSUME NEW j \in Jobs, QueueStep(j) PROVE ActiveIsAttached'
  BY <1>2 DEF QueueStep, StallDead, StallLive, Stall, Evict, QueueLoses, queueFrame, rowVars,
       compVars
<1>3. ASSUME NEW j \in Jobs, CancelStep(j) PROVE ActiveIsAttached'
  BY <1>3
  DEF CancelStep, CancelRead, CancelInspect, CancelRemove, CancelRemoveFails,
      MarkCancelledIfCancellable, CancelStops, UpdateWhere, cancelFrame, compVars
<1>4. ASSUME NEW j \in Jobs, CompensateStep(j) PROVE ActiveIsAttached'
  BY <1>4
  DEF CompensateStep, CompensateRead, CompensateLookup, CompensateKeep, CompensateEnqueue,
      CompensateFail, CompensateStops, CompensateDone, WriteFinalFailure, compFrame
<1>5. ASSUME NEW w \in Workers, WorkerStep(w) PROVE ActiveIsAttached'
  <2>1. UNCHANGED compVars
    BY <1>5 DEF WorkerStep, TakeJob, MarkActive, SkipJob, MarkActiveFails, HandlerReturns,
         HandlerThrows, MarkCompleted, MarkCompletedFails, MarkAttemptFailure,
         MarkAttemptFailureFails, AckSuccess, AckFailure, WorkerCrash, workerFrame
  <2>2. CASE MarkActive(w) \/ MarkActiveFails(w)
    BY <2>1, <2>2 DEF MarkActive, MarkActiveFails, rowVars, compVars
  <2>3. CASE UNCHANGED bullJobId /\ \A j \in Jobs : status'[j] = "active" => status[j] = "active"
    BY <2>1, <2>3 DEF compVars
  <2> QED
    BY <1>5, <2>2, <2>3
    DEF WorkerStep, TakeJob, SkipJob, HandlerReturns, HandlerThrows, MarkCompleted,
        MarkCompletedFails, MarkAttemptFailure, MarkAttemptFailureFails, AckSuccess,
        AckFailure, WorkerCrash, UpdateWhere, WriteFinalFailure, rowVars
<1>6. CASE UNCHANGED vars
  BY <1>6 DEF vars, rowVars, compVars
<1> QED
  BY <1>1, <1>2, <1>3, <1>4, <1>5, <1>6 DEF Next

\* Only the last run of a job makes its row failed.
LEMMA StepFails ==
  ASSUME ~MissIsNull, TypeOK, Owned, LocksHeld, RunsCounted, ActiveIsAttached,
         [Next]_vars, faults' = 0,
         NEW k \in Jobs, status[k] # "failed", status'[k] = "failed"
  PROVE  starts[k] = MaxAttempts
<1> USE DEF TypeOK, Owned
<1>1. ASSUME NEW j \in Jobs,
             \/ CreateQueued(j) \/ Enqueue(j) \/ AttachBullJobId(j)
             \/ StallDead(j) \/ Evict(j)
             \/ CancelRead(j) \/ CancelProgress(j)
             \/ CompensateRead(j) \/ CompensateLookup(j) \/ CompensateKeep(j)
             \/ CompensateEnqueue(j)
      PROVE  status'[k] # "failed"
  BY <1>1
  DEF CreateQueued, Enqueue, AttachBullJobId, StallDead, Stall, Evict, CancelRead,
      CancelProgress, CancelInspect, CancelRemove, MarkCancelledIfCancellable, UpdateWhere,
      CompensateRead, CompensateLookup, CompensateKeep, CompensateEnqueue, rowVars,
      queueFrame, Waiting
<1>2. ASSUME NEW j \in Jobs, MarkEnqueueFailure(j) PROVE FALSE
  BY <1>2 DEF MarkEnqueueFailure, RunsCounted
<1>3. ASSUME NEW j \in Jobs, CompensateFail(j) PROVE FALSE
  BY <1>3 DEF CompensateFail, ActiveIsAttached
<1>4. ASSUME NEW w \in Workers, WorkerProgress(w) PROVE starts[k] = MaxAttempts
  <2>1. CASE MarkAttemptFailure(w)
    <3> DEFINE j == wjob[w]
    <3>1. /\ j \in Jobs /\ qstate[j] = "active"
          /\ watt[w] = qmade[j] + 1 /\ starts[j] = qmade[j] + 1 /\ qmade[j] < MaxAttempts
      BY <2>1, NoneAssumption DEF MarkAttemptFailure, Assigned, LocksHeld, RunsCounted
    <3>2. CASE isFinal(w)
      <4>1. j = k
        BY <2>1, <3>1, <3>2 DEF MarkAttemptFailure, WriteFinalFailure, UpdateWhere
      <4>2. watt[w] >= MaxAttempts
        BY <3>2 DEF isFinal
      <4> QED
        BY <3>1, <4>1, <4>2, MaxAttemptsAssumption
    <3>3. CASE ~isFinal(w)
      BY <2>1, <3>3 DEF MarkAttemptFailure, UpdateWhere
    <3> QED
      BY <3>2, <3>3
  <2>2. CASE ~MarkAttemptFailure(w)
    BY <1>4, <2>2
    DEF WorkerProgress, TakeJob, MarkActive, SkipJob, HandlerReturns, HandlerThrows,
        MarkCompleted, UpdateWhere, AckSuccess, AckFailure, rowVars
  <2> QED
    BY <2>1, <2>2
<1>5. CASE UNCHANGED vars
  BY <1>5 DEF vars, rowVars
<1> QED
  BY <1>1, <1>2, <1>3, <1>4, <1>5, FaultFree DEF SubmitProgress, CompensateProgress

-----------------------------------------------------------------------------
\* Nothing is under way at the beginning.
LEMMA InitCalm == Init => Calm /\ NoOrphan /\ ActiveIsAttached
  BY MaxAttemptsAssumption
  DEF Init, Calm, LocksHeld, RowsFollowed, RunsCounted, NoOrphan, ActiveIsAttached, Waiting

\* The invariant of the system without faults.
LEMMA CalmInvariance == Spec => []Calm
<1>1. TypeOK /\ Owned /\ Calm /\ [Next]_vars => Calm'
  <2> SUFFICES ASSUME TypeOK, Owned, Calm, [Next]_vars, faults' = 0
               PROVE  LocksHeld' /\ RowsFollowed' /\ RunsCounted'
    BY DEF Calm
  <2>1. faults = 0
    BY FaultFree DEF vars
  <2> QED
    BY <2>1, StepLocks, StepRows, StepCounts DEF Calm, Owned
<1> QED
  BY <1>1, InitCalm, Invariance, PTL DEF Spec

\* Without faults no job is lost between the two stores: while its row has not ended,
\* its submit has it in hand, BullMQ will deliver it, or a cancel is about to end it.
THEOREM NoJobIsLost == Spec => []NoOrphan
<1>1. TypeOK /\ Owned /\ Calm /\ NoOrphan /\ [Next]_vars => NoOrphan'
  <2> SUFFICES ASSUME TypeOK, Owned, Calm, NoOrphan, [Next]_vars, faults' = 0,
                      NEW k \in Jobs
               PROVE  SomebodyHas(k)'
    BY DEF NoOrphan, SomebodyHas
  <2>1. faults = 0
    BY FaultFree DEF vars
  <2>2. \A j \in Jobs : SomebodyHas(j)
    BY <2>1 DEF NoOrphan, SomebodyHas
  <2> QED
    BY <2>1, <2>2, StepSomebodyHas DEF Calm
<1> QED
  BY <1>1, InitCalm, Invariance, CalmInvariance, PTL DEF Spec

\* Without faults a job is run at most MaxAttempts times for each time BullMQ is given
\* it; and as getJob answers undefined, which compensate takes for a job, a row becomes
\* failed only behind the last of these runs.
THEOREM BudgetIsKept == ~MissIsNull => (Spec => RetryBudget)
<1> SUFFICES ASSUME ~MissIsNull PROVE Spec => RetryBudget
  OBVIOUS
<1> DEFINE Within ==
      faults' = 0 =>
        \A j \in Jobs :
          /\ starts'[j] <= MaxAttempts
          /\ status[j] # "failed" /\ status'[j] = "failed" => starts[j] = MaxAttempts
<1>1. TypeOK /\ ActiveIsAttached /\ [Next]_vars => ActiveIsAttached'
  BY StepAttached
<1>2. TypeOK /\ Owned /\ Calm /\ Calm' /\ ActiveIsAttached /\ [Next]_vars => [Within]_vars
  <2> SUFFICES ASSUME TypeOK, Owned, Calm, Calm', ActiveIsAttached, [Next]_vars, faults' = 0,
                      NEW j \in Jobs
               PROVE  /\ starts'[j] <= MaxAttempts
                      /\ status[j] # "failed" /\ status'[j] = "failed" =>
                           starts[j] = MaxAttempts
    OBVIOUS
  <2>1. faults = 0
    BY FaultFree DEF vars
  <2>2. starts'[j] <= MaxAttempts
    BY DEF Calm, RunsCounted
  <2> QED
    BY <2>1, <2>2, StepFails DEF Calm
<1> QED
  BY <1>1, <1>2, InitCalm, Invariance, CalmInvariance, PTL DEF Spec, RetryBudget

=============================================================================
