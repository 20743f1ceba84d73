---------------------------- MODULE UploadPermits ----------------------------
(***************************************************************************)
(* How many cover uploads a process takes at once: UploadSemaphore and     *)
(* CoverUploadInterceptor.  An upload that finds no permit waits in line,  *)
(* under a timer; whoever is done hands his permit to the first in line.   *)
(* The permit is held while multer reads the file into memory; behind that *)
(* the handler runs without it, although the file is still in memory.      *)
(***************************************************************************)
EXTENDS Naturals, Sequences, FiniteSets

CONSTANTS
  UploadRequests,        \* POST /posts/:id/cover requests to one process
  MaxConcurrentUploads,
  MaxUploadQueue

ASSUME PermitsAssumption ==
  MaxConcurrentUploads \in Nat \ {0} /\ MaxUploadQueue \in Nat

VARIABLES
  available,  \* permits nobody has
  queue,      \* those who wait, first come first served
  slot        \* slot[u]: "idle", "waiting", "parsing" (in multer), "handling"

permitVars == <<available, queue, slot>>

PermitsTypeOK ==
  /\ available \in 0..MaxConcurrentUploads
  /\ queue \in Seq(UploadRequests)
  /\ slot \in [UploadRequests -> {"idle", "waiting", "parsing", "handling"}]

PermitsInit ==
  /\ available = MaxConcurrentUploads
  /\ queue = <<>>
  /\ slot = [u \in UploadRequests |-> "idle"]

-----------------------------------------------------------------------------
AcquirePermit(u) ==
  /\ slot[u] = "idle"
  /\ available > 0
  /\ available' = available - 1
  /\ slot' = [slot EXCEPT ![u] = "parsing"]
  /\ UNCHANGED queue

\* No permit: get in line.  When the line is full too the answer is 503, and nothing
\* changes.
QueueUp(u) ==
  /\ slot[u] = "idle"
  /\ available = 0
  /\ Len(queue) < MaxUploadQueue
  /\ queue' = Append(queue, u)
  /\ slot' = [slot EXCEPT ![u] = "waiting"]
  /\ UNCHANGED available

\* Mutant: who gives up stays in line, and is handed a permit that he never returns.
TimesOutInLine(u) ==
  /\ slot[u] = "waiting"
  /\ slot' = [slot EXCEPT ![u] = "idle"]
  /\ UNCHANGED <<available, queue>>

\* The timer: out of the line (findIndex, splice), and 503.
TimesOut(u) ==
  /\ slot[u] = "waiting"
  /\ \/ \E i \in 1..Len(queue) :
          /\ queue[i] = u /\ \A j \in 1..(i - 1) : queue[j] # u
          /\ queue' = SubSeq(queue, 1, i - 1) \o SubSeq(queue, i + 1, Len(queue))
     \/ (\A i \in 1..Len(queue) : queue[i] # u) /\ UNCHANGED queue
  /\ slot' = [slot EXCEPT ![u] = "idle"]
  /\ UNCHANGED available

\* Mutant: the permit is handed to who came last (pop instead of shift).
ReleaseToLast(u, next) ==
  IF queue = <<>>
    THEN /\ available' = available + 1
         /\ slot' = [slot EXCEPT ![u] = next]
         /\ UNCHANGED queue
    ELSE /\ queue' = SubSeq(queue, 1, Len(queue) - 1)
         /\ slot' = [slot EXCEPT ![u] = next, ![queue[Len(queue)]] = "parsing"]
         /\ UNCHANGED available

\* release, by u, who goes on with `next`.
ReleasePermit(u, next) ==
  IF queue = <<>>
    THEN /\ available' = available + 1
         /\ slot' = [slot EXCEPT ![u] = next]
         /\ UNCHANGED queue
    ELSE /\ queue' = Tail(queue)
         /\ slot' = [slot EXCEPT ![u] = next, ![Head(queue)] = "parsing"]
         /\ UNCHANGED available

\* multer calls back: the handler is subscribed, or the error passed on, and finally the
\* permit given back; all that without an await.
Parsed(u) ==
  /\ slot[u] = "parsing"
  /\ \E next \in {"handling", "idle"} : ReleasePermit(u, next)

\* uploadCover has answered.
Handled(u) ==
  /\ slot[u] = "handling"
  /\ slot' = [slot EXCEPT ![u] = "idle"]
  /\ UNCHANGED <<available, queue>>

PermitsNext ==
  \E u \in UploadRequests :
    AcquirePermit(u) \/ QueueUp(u) \/ TimesOut(u) \/ Parsed(u) \/ Handled(u)

PermitsSpec == PermitsInit /\ [][PermitsNext]_permitVars

-----------------------------------------------------------------------------
\* Those who hold a permit.
Parsing == {u \in UploadRequests : slot[u] = "parsing"}

\* No permit is lost or made up, whether it is returned or handed on while others give
\* up waiting; nobody waits while one is free, or waits outside the line.
PermitsExact ==
  /\ available + Cardinality(Parsing) = MaxConcurrentUploads
  /\ queue # <<>> => available = 0
  /\ \A u \in UploadRequests :
       Cardinality({i \in 1..Len(queue) : queue[i] = u}) = IF slot[u] = "waiting" THEN 1 ELSE 0

Semaphore == INSTANCE FairSemaphore WITH
  Guests <- UploadRequests, Permits <- MaxConcurrentUploads, Places <- MaxUploadQueue,
  inside <- Parsing, line <- queue

\* The counter, the line and the timers make a fair semaphore: nobody passes those who
\* wait, a permit that is returned goes to who has waited longest, and whoever gives up
\* leaves the order of the others alone.
ImplementsSemaphore == Semaphore!SemaphoreSpec
=============================================================================
