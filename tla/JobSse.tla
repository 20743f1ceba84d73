------------------------------- MODULE JobSse -------------------------------
(***************************************************************************)
(* How a browser follows one job: JobRecordService.publishJobEventSafe,    *)
(* JobEventsService (Redis Pub/Sub, or an in-process Subject when Redis is *)
(* not configured) and JobsController.getEvents.                           *)
(*                                                                         *)
(* The row is abstracted to a version number, its updatedAt in             *)
(* milliseconds (DATETIME(3)) and whether its status is terminal.  One     *)
(* server process serves the connections.  With Redis the writers may be   *)
(* anywhere; the in-process fallback reaches that process only, so there   *)
(* the writers are the process's own.                                      *)
(***************************************************************************)
EXTENDS Naturals, FiniteSets, SequencesExt

CONSTANTS
  Conns,        \* SSE requests in flight or waiting to be made
  MaxConns,     \* MAX_SSE_CONNECTIONS
  MaxPending,   \* MAX_PENDING_SSE_EVENTS
  NoRow,        \* not a row: nothing read yet
  MaxVersions,  \* bound: writes to the row
  MaxClock,     \* bound: milliseconds that pass
  MaxLosses,    \* bound: events lost
  MissesFrom,   \* bound: the first version whose row an UPDATE misses
  MaxUnderWay   \* bound: events in Redis when an UPDATE has missed

\* A buffer of one event would lose the job's end to the worker's last progress, when that
\* is published behind it; MAX_PENDING_SSE_EVENTS is 100.
ASSUME LimitsAssumption == MaxConns \in Nat \ {0} /\ MaxPending \in Nat \ {0, 1}
ASSUME BoundsAssumption ==
  /\ MaxVersions \in Nat /\ MaxClock \in Nat /\ MaxLosses \in Nat
  /\ MissesFrom \in Nat /\ MaxUnderWay \in Nat

\* The job's worker, and whoever ends the job from outside (a cancel, a
\* compensation, a submit that records its failed enqueue).
Writers == {"worker", "other"}

VARIABLES
  redis,      \* TRUE: pubClient is connected; FALSE: local Subject only
  clock,      \* Date.now() of the writers
  row,        \* the job_runs row
  wpc,        \* wpc[w]: "ready", "written" (UPDATE done), "read" (row re-read)
  wcopy,      \* wcopy[w]: the row it re-read and will publish
  chan,       \* events in Redis on their way to this process
  conn,       \* conn[c]: "loading" (subscribed, no snapshot sent), "streaming",
              \* "closed", or "refused" (torn down, the request not answered)
  snap,       \* snap[c]: the row loadAuthorizedSnapshot read
  pending,    \* pending[c]: conn.pending
  frames,     \* frames[c]: versions sent to the client, in order
  slots,      \* JobsController.activeSseConnections
  lost,       \* how many events were lost
  tie         \* some version was written in the millisecond of its predecessor

rowVars  == <<clock, row, tie>>
pubVars  == <<wpc, wcopy>>
connVars == <<conn, snap, pending, frames, slots>>
vars == <<redis, rowVars, pubVars, chan, connVars, lost>>

Row == [ver : 0..MaxVersions, at : 0..MaxClock, terminal : BOOLEAN]

ASSUME NoRowAssumption == NoRow \notin Row

TypeOK ==
  /\ redis \in BOOLEAN
  /\ clock \in 0..MaxClock
  /\ row \in Row
  /\ wpc \in [Writers -> {"ready", "written", "read"}]
  /\ wcopy \in [Writers -> Row \cup {NoRow}]
  /\ chan \in Seq(Row)
  /\ conn \in [Conns -> {"closed", "refused", "loading", "streaming"}]
  /\ snap \in [Conns -> Row \cup {NoRow}]
  /\ pending \in [Conns -> Seq(Row)]
  /\ \A c \in Conns : Len(pending[c]) <= MaxPending
  /\ frames \in [Conns -> Seq(0..MaxVersions)]
  /\ slots \in Nat
  /\ lost \in 0..MaxLosses
  /\ tie \in BOOLEAN

Init ==
  /\ redis \in BOOLEAN
  /\ clock = 0
  /\ row = [ver |-> 0, at |-> 0, terminal |-> FALSE]
  /\ wpc = [w \in Writers |-> "ready"]
  /\ wcopy = [w \in Writers |-> NoRow]
  /\ chan = <<>>
  /\ conn = [c \in Conns |-> "closed"]
  /\ snap = [c \in Conns |-> NoRow]
  /\ pending = [c \in Conns |-> <<>>]
  /\ frames = [c \in Conns |-> <<>>]
  /\ slots = 0
  /\ lost = 0
  /\ tie = FALSE

-----------------------------------------------------------------------------
(***************************************************************************)
(* The connection, as an object that a dispatch or a replay updates.       *)
(***************************************************************************)
Versions(events) == [i \in DOMAIN events |-> events[i].ver]

Open(c) == conn[c] \in {"loading", "streaming"}

\* teardown: unsubscribe, drop the buffer, free the slot, end the response.
Teardown(cs) ==
  /\ conn' = [c \in Conns |-> IF c \in cs THEN "closed" ELSE conn[c]]
  /\ snap' = [c \in Conns |-> IF c \in cs THEN NoRow ELSE snap[c]]
  /\ slots' = slots - Cardinality(cs)

\* Mutants: no limit; at the limit the newest event is dropped.
BufferAll(events, e) == Append(events, e)

BufferOldest(events, e) ==
  IF Len(events) >= MaxPending THEN events ELSE Append(events, e)

\* conn.pending with the event appended, the oldest shifted out at the limit.
Buffer(events, e) ==
  IF Len(events) >= MaxPending THEN Append(Tail(events), e) ELSE Append(events, e)

\* events$.next(e): every subscribed connection buffers the event or sends it,
\* and ends on a terminal one.
Dispatch(e) ==
  LET loading   == {c \in Conns : conn[c] = "loading"}
      streaming == {c \in Conns : conn[c] = "streaming"}
  IN
  /\ pending' = [c \in Conns |->
                   IF c \in loading THEN Buffer(pending[c], e) ELSE pending[c]]
  /\ frames' = [c \in Conns |->
                  IF c \in streaming THEN Append(frames[c], e.ver) ELSE frames[c]]
  /\ Teardown(IF e.terminal THEN streaming ELSE {})

\* Mutants: no buffered event is skipped; dates are revived, so that the comparison
\* also works for events that came through Redis.
OlderNever(e, snapshot) == FALSE

OlderOnBothPaths(e, snapshot) == e.at <= snapshot.at

\* event.data.updatedAt <= snapshot.updatedAt.  The snapshot's is a Date; an
\* event that came through JSON has a string, whose comparison with a Date is
\* with NaN and so false.
Older(e, snapshot) == ~redis /\ e.at <= snapshot.at

\* The ways to pick some of n events in their order, as their positions.
Picks(n) ==
  {q \in UNION {[1..m -> 1..n] : m \in 0..n} : \A i, j \in DOMAIN q : i < j => q[i] < q[j]}

\* The replay loop dispatches, of the first n buffered events, those that are not older
\* than the snapshot, at the positions q; it stops behind the first terminal one that it
\* dispatches, which closes the connection.
Replays(events, snapshot, n, q) ==
  LET Fresh(i) == ~Older(events[i], snapshot)
  IN
  /\ \A i \in 1..n : i \in Range(q) <=> Fresh(i)
  /\ \A i \in 1..(n - 1) : Fresh(i) => ~events[i].terminal
  /\ n < Len(events) => n > 0 /\ Fresh(n) /\ events[n].terminal

-----------------------------------------------------------------------------
(***************************************************************************)
(* Writers and transport                                                   *)
(***************************************************************************)
\* Time passes while there are writes to come, which alone ask for it.
Tick ==
  /\ clock < MaxClock
  /\ row.ver < MaxVersions
  /\ clock' = clock + 1
  /\ UNCHANGED <<redis, row, tie, pubVars, chan, connVars, lost>>

\* A conditional update moves only a row that is not terminal; a final failure is written
\* by id alone, over a terminal row too.  The other writers write ends only.
UpdateRow(w) ==
  /\ wpc[w] = "ready"
  /\ row.ver < MaxVersions
  /\ \E terminal \in BOOLEAN :
       /\ w = "other" \/ row.terminal => terminal
       /\ row' = [ver |-> row.ver + 1, at |-> clock, terminal |-> terminal]
  /\ tie' = (tie \/ row.at = clock)
  /\ wpc' = [wpc EXCEPT ![w] = "written"]
  /\ UNCHANGED <<redis, clock, wcopy, chan, connVars, lost>>

\* An attempt's failure that is not final changes a row only while it is active, and is
\* published all the same.  The worker's row was started, so it is not active because it
\* has ended.
UpdateMisses(w) ==
  /\ w = "worker"
  /\ wpc[w] = "ready"
  /\ row.terminal
  /\ row.ver >= MissesFrom /\ Len(chan) < MaxUnderWay
  /\ wpc' = [wpc EXCEPT ![w] = "written"]
  /\ UNCHANGED <<redis, rowVars, wcopy, chan, connVars, lost>>

ReadBack(w) ==
  /\ wpc[w] = "written"
  /\ wpc' = [wpc EXCEPT ![w] = "read"]
  /\ wcopy' = [wcopy EXCEPT ![w] = row]
  /\ UNCHANGED <<redis, rowVars, chan, connVars, lost>>

\* The re-read fails, which publishJobEventSafe swallows: nothing is published.
ReadBackFails(w) ==
  /\ wpc[w] = "written"
  /\ lost < MaxLosses
  /\ lost' = lost + 1
  /\ wpc' = [wpc EXCEPT ![w] = "ready"]
  /\ UNCHANGED <<redis, rowVars, wcopy, chan, connVars>>

Publish(w) ==
  /\ wpc[w] = "read"
  /\ IF redis
       THEN chan' = Append(chan, wcopy[w]) /\ UNCHANGED connVars
       ELSE Dispatch(wcopy[w]) /\ UNCHANGED chan
  /\ wpc' = [wpc EXCEPT ![w] = "ready"]
  /\ wcopy' = [wcopy EXCEPT ![w] = NoRow]
  /\ UNCHANGED <<redis, rowVars, lost>>

Receive ==
  /\ chan # <<>>
  /\ Dispatch(Head(chan))
  /\ chan' = Tail(chan)
  /\ UNCHANGED <<redis, rowVars, pubVars, lost>>

\* PUBLISH fails or the subscriber is disconnected: nothing is replayed.
Lose ==
  /\ chan # <<>>
  /\ lost < MaxLosses
  /\ lost' = lost + 1
  /\ chan' = Tail(chan)
  /\ UNCHANGED <<redis, rowVars, pubVars, connVars>>

-----------------------------------------------------------------------------
(***************************************************************************)
(* JobsController.getEvents                                                *)
(***************************************************************************)
connFrame == <<redis, rowVars, pubVars, chan, lost>>

\* Check and take a slot, subscribe: no await in between.  At the limit the
\* request is refused and nothing changes.  What closed streams were sent is forgotten.
Connect(c) ==
  /\ conn[c] = "closed"
  /\ slots < MaxConns
  /\ slots' = slots + 1
  /\ conn' = [conn EXCEPT ![c] = "loading"]
  /\ snap' = [snap EXCEPT ![c] = NoRow]
  /\ pending' = [pending EXCEPT ![c] = <<>>]
  /\ frames' = [d \in Conns |-> IF Open(d) THEN frames[d] ELSE <<>>]
  /\ UNCHANGED connFrame

\* The SELECT of loadAuthorizedSnapshot; its answer is still to arrive.
ReadSnapshot(c) ==
  /\ conn[c] = "loading"
  /\ snap[c] = NoRow
  /\ snap' = [snap EXCEPT ![c] = row]
  /\ UNCHANGED <<conn, pending, frames, slots, connFrame>>

\* Everything behind the await is synchronous: snapshot, then - unless that ends the
\* stream - the replay.
GoLive(c) ==
  /\ conn[c] = "loading"
  /\ snap[c] # NoRow
  /\ \E n \in 0..Len(pending[c]) : \E q \in Picks(n) :
       LET replayed == [i \in DOMAIN q |-> pending[c][q[i]]]
           ended    == snap[c].terminal \/ \E i \in DOMAIN q : replayed[i].terminal
       IN
       /\ IF snap[c].terminal THEN n = 0 ELSE Replays(pending[c], snap[c], n, q)
       /\ frames' = [frames EXCEPT ![c] = <<snap[c].ver>> \o Versions(replayed)]
       /\ IF ended
            THEN Teardown({c})
            ELSE /\ conn' = [conn EXCEPT ![c] = "streaming"]
                 /\ snap' = [snap EXCEPT ![c] = NoRow]
                 /\ UNCHANGED slots
  /\ pending' = [pending EXCEPT ![c] = <<>>]
  /\ UNCHANGED connFrame

\* Mutant: the refused request keeps its slot.
RefuseLeaksSlot(c) ==
  /\ conn[c] = "loading"
  /\ snap[c] = NoRow
  /\ conn' = [conn EXCEPT ![c] = "refused"]
  /\ pending' = [pending EXCEPT ![c] = <<>>]
  /\ UNCHANGED <<snap, frames, slots, connFrame>>

\* The job is unknown or somebody else's.  The catch block tears down, which sets
\* conn.closed, and then returns because conn.closed is set: the error is never
\* thrown, and with no headers sent teardown does not end the response either.
Refuse(c) ==
  /\ conn[c] = "loading"
  /\ snap[c] = NoRow
  /\ conn' = [conn EXCEPT ![c] = "refused"]
  /\ pending' = [pending EXCEPT ![c] = <<>>]
  /\ slots' = slots - 1
  /\ UNCHANGED <<snap, frames, connFrame>>

\* The client goes away, a write fails or meets back pressure.
Abort(c) ==
  /\ Open(c)
  /\ Teardown({c})
  /\ pending' = [pending EXCEPT ![c] = <<>>]
  /\ frames' = [frames EXCEPT ![c] = <<>>]
  /\ UNCHANGED connFrame

\* The listeners are off: only the socket's own end ends a refused request.
GiveUp(c) ==
  /\ conn[c] = "refused"
  /\ conn' = [conn EXCEPT ![c] = "closed"]
  /\ UNCHANGED <<snap, pending, frames, slots, connFrame>>

Next ==
  \/ Tick
  \/ \E w \in Writers :
       UpdateRow(w) \/ UpdateMisses(w) \/ ReadBack(w) \/ ReadBackFails(w) \/ Publish(w)
  \/ Receive
  \/ Lose
  \/ \E c \in Conns :
       Connect(c) \/ ReadSnapshot(c) \/ GoLive(c) \/ Refuse(c) \/ Abort(c) \/ GiveUp(c)

Spec == Init /\ [][Next]_vars

\* Queries are answered, writers publish what they wrote, Redis delivers.
Fairness ==
  /\ \A w \in Writers : WF_vars(ReadBack(w) \/ Publish(w))
  /\ WF_vars(Receive)
  /\ \A c \in Conns : WF_vars(ReadSnapshot(c) \/ GoLive(c))

FairSpec == Spec /\ Fairness

-----------------------------------------------------------------------------
\* Every path out of a connection frees its slot once: the counter is the number
\* of connections that are open, and the limit is never exceeded.
SlotsExact ==
  /\ slots = Cardinality({c \in Conns : Open(c)})
  /\ slots <= MaxConns

\* A connection that is streaming when the writers and the transport are quiet has
\* shown the current version last, unless an event was lost or, without Redis, two
\* versions share a millisecond.  Subscribing before the snapshot is what it takes.
UpToDate ==
  \A c \in Conns :
    /\ conn[c] = "streaming"
    /\ \A w \in Writers : wpc[w] = "ready"
    /\ chan = <<>> /\ lost = 0
    /\ redis \/ ~tie
    => Last(frames[c]) = row.ver

NeverBackwards(c) ==
  \A i \in 1..Len(frames[c]) - 1 : frames[c][i] <= frames[c][i + 1]

\* Without Redis a client never sees the job go back to an earlier state.
LocalNeverBackwards == ~redis => \A c \in Conns : NeverBackwards(c)

\* jobs.controller.ts:266-267: buffered events older than the snapshot are skipped,
\* because replaying them would take the client back.
ReplayNeverBackwards ==
  [][\A c \in Conns : conn[c] = "loading" /\ frames'[c] # frames[c] => NeverBackwards(c)']_vars

\* A client connected to a job that has ended is told so and disconnected, unless an
\* event was lost or, without Redis, two versions share a millisecond.
StreamsEnd ==
  \A c \in Conns :
    row.terminal /\ Open(c) ~> ~Open(c) \/ lost > 0 \/ (~redis /\ tie)

\* jobs.controller.ts:199-201 and 268: no terminal event is missed, skipping an
\* event with the snapshot's updatedAt being safe.
LocalStreamsEnd ==
  \A c \in Conns : ~redis /\ row.terminal /\ Open(c) ~> ~Open(c) \/ lost > 0
=============================================================================
